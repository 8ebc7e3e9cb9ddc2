-------------------------- MODULE DiskManagerProofs --------------------------
(***************************************************************************)
(* DiskManager for any clients, programs and disks, whether or not main    *)
(* joins its clients and whether or not freed nodes are reused.            *)
(*                                                                         *)
(* The inductive invariant has four parts beside the types: who may wait   *)
(* in which queue and what the object's counter then is; mRequest has one  *)
(* holder; the token of the handshake is in one place exactly when its     *)
(* holder has raised newReqsSem and has not been released; and the list    *)
(* holds as many requests as there are wake-ups sent or still to be sent.  *)
(***************************************************************************)
EXTENDS DiskManager, ListLemmas, FiniteSetTheorems

\* Only the disk task waits for new requests, and only before it looks at the list.
NewQueueOK ==
  \/ waiting["newReqsSem"] = <<>> /\ value["newReqsSem"] >= 0
  \/ waiting["newReqsSem"] = <<DiskTask>> /\ value["newReqsSem"] = -1 /\ diskPC = "schedule"

\* At most one caller waits for a treatment.
TreatedQueueOK ==
  \/ waiting["treatedReqSem"] = <<>> /\ value["treatedReqSem"] >= 0
  \/ \E c \in Clients :
       waiting["treatedReqSem"] = <<c>> /\ value["treatedReqSem"] = -1 /\ pc[c] = "unlock"

\* The clients that wait for a mutex are at the statement after their call of mutex_lock.
MutexQueuesOK ==
  /\ \A t \in Range(waiting["queueMutex"]) : t \in Clients /\ pc[t] = "insert"
  /\ \A t \in Range(waiting["mRequest"]) : t \in Clients /\ pc[t] = "signal"
  /\ IsInjective(waiting["mRequest"])

QueuesOK == NewQueueOK /\ TreatedQueueOK /\ MutexQueuesOK

Holds(c) == pc[c] \in {"signal", "await", "unlock"} /\ c \notin Range(waiting["mRequest"])

\* mRequest excludes: a free mutex has no holder and no waiter, a taken one no two holders.
RequestMutexOK ==
  /\ \A c, d \in Clients : Holds(c) /\ Holds(d) => c = d
  /\ value["mRequest"] # 0 => waiting["mRequest"] = <<>> /\ \A c \in Clients : ~Holds(c)

Flying(c) == pc[c] = "await" \/ (pc[c] = "unlock" /\ waiting["treatedReqSem"] = <<c>>)

DiskAwake == waiting["newReqsSem"] = <<>>

InFlightNow == \E c \in Clients : Flying(c)
AtWork == diskPC \in {"schedule", "issue"} /\ DiskAwake

Flights == Count(InFlightNow)
Work == Count(AtWork)
Transfers == Count(status # "idle")

\* OneTokenInFlight, with the suspended tasks read off the queues.
TokenOK ==
  init => Flights = Tokens("newReqsSem") + Work + Transfers + Tokens("treatedReqSem")

Looking == diskPC = "schedule" /\ DiskAwake
Unsent == Cardinality(Unsignalled)

\* ListBalance, likewise.
BalanceOK == init => Len(list) = Unsent + Tokens("newReqsSem") + Count(Looking)

IInv == TypeOK /\ QueuesOK /\ RequestMutexOK /\ TokenOK /\ BalanceOK

------------------------------------------------------------------------------
(* Type correctness *)

Objects == Mutexes \cup Semaphores

SyncTypeOK ==
  /\ value \in [Objects -> Int]
  /\ waiting \in [Objects -> Seq(Tasks)]

LEMMA SemDownType ==
  ASSUME SyncTypeOK, NEW s \in Objects, NEW t \in Tasks, SemDown(s, t)
  PROVE  SyncTypeOK'
BY DEF SyncTypeOK, SemDown

LEMMA SemUpType ==
  ASSUME SyncTypeOK, NEW s \in Objects, SemUp(s), value[s] < 0 => waiting[s] # <<>>
  PROVE  SyncTypeOK'
<1>1. waiting[s] # <<>> => Tail(waiting[s]) \in Seq(Tasks)
  BY TailRange DEF SyncTypeOK
<1> QED
  BY <1>1 DEF SyncTypeOK, SemUp

LEMMA MutexLockType ==
  ASSUME SyncTypeOK, NEW m \in Objects, NEW t \in Tasks, MutexLock(m, t)
  PROVE  SyncTypeOK'
<1>1. CASE value[m] = 0
  <2>1. waiting' = [waiting EXCEPT ![m] = Append(@, t)] /\ value' = value
    BY <1>1 DEF MutexLock
  <2>2. Append(waiting[m], t) \in Seq(Tasks)
    BY AppendRange DEF SyncTypeOK
  <2> QED
    BY <2>1, <2>2 DEF SyncTypeOK
<1>2. CASE value[m] # 0
  <2>1. value' = [value EXCEPT ![m] = 0] /\ waiting' = waiting
    BY <1>2 DEF MutexLock
  <2> QED
    BY <2>1 DEF SyncTypeOK
<1> QED
  BY <1>1, <1>2

LEMMA MutexUnlockType ==
  ASSUME SyncTypeOK, NEW m \in Objects, MutexUnlock(m)
  PROVE  SyncTypeOK'
<1>1. CASE waiting[m] # <<>>
  <2>1. waiting' = [waiting EXCEPT ![m] = Tail(@)] /\ value' = value
    BY <1>1 DEF MutexUnlock
  <2>2. Tail(waiting[m]) \in Seq(Tasks)
    BY <1>1, TailRange DEF SyncTypeOK
  <2> QED
    BY <2>1, <2>2 DEF SyncTypeOK
<1>2. CASE waiting[m] = <<>>
  <2>1. value' = [value EXCEPT ![m] = 1] /\ waiting' = waiting
    BY <1>2 DEF MutexUnlock
  <2> QED
    BY <2>1 DEF SyncTypeOK
<1> QED
  BY <1>1, <1>2

\* A negative counter has somebody waiting.
LEMMA NegativeHasWaiter ==
  ASSUME SyncTypeOK, QueuesOK, NEW s \in Semaphores, value[s] < 0
  PROVE  waiting[s] # <<>>
<1>0. value[s] \in Int /\ ~(value[s] >= 0)
  BY DEF SyncTypeOK, Objects
<1>1. CASE s = "newReqsSem"
  <2>1. waiting[s] = <<DiskTask>>
    BY <1>0, <1>1 DEF QueuesOK, NewQueueOK
  <2> QED
    BY <2>1, ShortQueues, Zenon
<1>2. CASE s = "treatedReqSem"
  <2>1. PICK c \in Clients : waiting[s] = <<c>>
    BY <1>0, <1>2 DEF QueuesOK, TreatedQueueOK
  <2> QED
    BY <2>1, ShortQueues, Zenon
<1> QED
  BY <1>1, <1>2 DEF Semaphores

LEMMA Parameters ==
  ASSUME NEW r \in Requests
  PROVE  /\ Param(r).op \in {"read", "write"}
         /\ Param(r).block \in Int
         /\ Param(r).buffer \in Buffers \cup {NULL}
<1>1. PICK c \in Clients : \E n \in DOMAIN Program[c] : r = [task |-> c, ip |-> n]
  BY DEF Requests
<1>2. PICK n \in DOMAIN Program[c] : r = [task |-> c, ip |-> n]
  BY <1>1
<1>3. Param(r) \in Ops
  BY <1>2, ManagerAssumption DEF Param
<1> QED
  BY <1>3 DEF Ops

LEMMA CurrentIsRequest ==
  ASSUME TypeOK, NEW c \in Clients, pc[c] # "done"
  PROVE  CurrentRequest(c) \in Requests
<1>1. ip[c] \in DOMAIN Program[c]
  BY DEF TypeOK
<1>2. CurrentRequest(c) \in {[task |-> c, ip |-> n] : n \in DOMAIN Program[c]}
  BY <1>1, Zenon DEF CurrentRequest
<1> QED
  BY <1>2, Zenon DEF Requests

LEMMA InitType == Init => TypeOK
<1> SUFFICES ASSUME Init PROVE TypeOK
  OBVIOUS
<1>1. DeviceTypeOK
  BY DeviceAssumption, ManagerAssumption DEF Init, DeviceInit, DeviceTypeOK, Blocks
<1>2. /\ value \in [Objects -> Int]
      /\ waiting \in [Objects -> Seq(Tasks)]
  BY DEF Init, SyncInit, Objects, Mutexes, Semaphores
<1>3. \A c \in Clients : ip[c] \in DOMAIN Program[c]
  <2>1. ASSUME NEW c \in Clients
        PROVE  1 \in DOMAIN Program[c]
    BY ManagerAssumption
  <2> QED
    BY <2>1 DEF Init
<1> QED
  BY <1>1, <1>2, <1>3 DEF Init, DeviceInit, TypeOK, Objects

LEMMA NextType == TypeOK /\ QueuesOK /\ [Next]_vars => TypeOK'
<1> SUFFICES ASSUME TypeOK, QueuesOK, [Next]_vars PROVE TypeOK'
  OBVIOUS
<1> USE DEF Objects
<1>0. SyncTypeOK /\ "mRequest" \in Objects /\ "queueMutex" \in Objects
      /\ "newReqsSem" \in Objects /\ "treatedReqSem" \in Objects
  BY DEF TypeOK, SyncTypeOK, Mutexes, Semaphores
<1>1. ASSUME NEW c \in Clients, LockQueue(c)
      PROVE  TypeOK'
  <2>1. SyncTypeOK'
    BY <1>0, <1>1, MutexLockType DEF LockQueue, Tasks
  <2> QED
    BY <1>1, <2>1 DEF LockQueue, At, Goto, TypeOK, DeviceTypeOK, deviceVars, SyncTypeOK
<1>2. ASSUME NEW c \in Clients, Insert(c)
      PROVE  TypeOK'
  <2>1. CurrentRequest(c) \in Requests
    BY <1>2, CurrentIsRequest DEF Insert, At
  <2> QED
    BY <1>2, <2>1 DEF Insert, At, Goto, TypeOK, DeviceTypeOK, deviceVars, syncVars
<1>3. ASSUME NEW c \in Clients, UnlockQueue(c)
      PROVE  TypeOK'
  <2>1. SyncTypeOK'
    BY <1>0, <1>3, MutexUnlockType DEF UnlockQueue
  <2> QED
    BY <1>3, <2>1 DEF UnlockQueue, At, Goto, TypeOK, DeviceTypeOK, deviceVars, SyncTypeOK
<1>4. ASSUME NEW c \in Clients, LockRequest(c)
      PROVE  TypeOK'
  <2>1. SyncTypeOK'
    BY <1>0, <1>4, MutexLockType DEF LockRequest, Tasks
  <2> QED
    BY <1>4, <2>1 DEF LockRequest, At, Goto, TypeOK, DeviceTypeOK, deviceVars, SyncTypeOK
<1>5. ASSUME NEW c \in Clients, SignalNew(c)
      PROVE  TypeOK'
  <2>1. SyncTypeOK'
    BY <1>0, <1>5, SemUpType, NegativeHasWaiter DEF SignalNew, Semaphores
  <2> QED
    BY <1>5, <2>1 DEF SignalNew, At, Goto, TypeOK, DeviceTypeOK, deviceVars, SyncTypeOK
<1>6. ASSUME NEW c \in Clients, AwaitTreated(c)
      PROVE  TypeOK'
  <2>1. SyncTypeOK'
    BY <1>0, <1>6, SemDownType DEF AwaitTreated, Tasks
  <2> QED
    BY <1>6, <2>1 DEF AwaitTreated, At, Goto, TypeOK, DeviceTypeOK, deviceVars, SyncTypeOK
<1>7. ASSUME NEW c \in Clients, UnlockRequest(c)
      PROVE  TypeOK'
  <2>1. SyncTypeOK'
    BY <1>0, <1>7, MutexUnlockType DEF UnlockRequest
  <2>2. /\ pc' \in [Clients -> {"call", "insert", "unlockQueue", "lock", "signal", "await", "unlock", "done"}]
        /\ ip' \in [Clients -> Nat \ {0}]
    BY <1>7 DEF UnlockRequest, Goto, TypeOK
  <2>3. ASSUME NEW d \in Clients, pc'[d] # "done"
        PROVE  ip'[d] \in DOMAIN Program[d]
    <3>1. CASE d = c
      <4>1. ip[c] < Len(Program[c]) /\ ip'[c] = ip[c] + 1
        BY <1>7, <2>3, <3>1 DEF UnlockRequest, Goto, TypeOK
      <4>2. ip[c] \in Nat \ {0} /\ Program[c] \in Seq(Ops)
        BY ManagerAssumption DEF TypeOK
      <4> QED
        BY <3>1, <4>1, <4>2
    <3>2. CASE d # c
      BY <1>7, <2>3, <3>2 DEF UnlockRequest, Goto, TypeOK
    <3> QED
      BY <3>1, <3>2
  <2> QED
    BY <1>7, <2>1, <2>2, <2>3 DEF UnlockRequest, TypeOK, DeviceTypeOK, deviceVars, SyncTypeOK
<1>8. CASE TestInit
  BY <1>8 DEF TestInit, TypeOK, DeviceTypeOK, deviceVars, syncVars
<1>9. CASE DownNew
  <2>1. SyncTypeOK'
    BY <1>0, <1>9, SemDownType DEF DownNew, Tasks
  <2> QED
    BY <1>9, <2>1 DEF DownNew, TypeOK, DeviceTypeOK, deviceVars, SyncTypeOK
<1>10. CASE Schedule
  <2>1. CASE list = <<>>
    BY <1>10, <2>1 DEF Schedule, TypeOK, DeviceTypeOK, deviceVars, syncVars
  <2>2. CASE list # <<>>
    <3>1. PICK i \in DOMAIN list :
            /\ diskPC' = "issue"
            /\ picked' = list[i]
            /\ list' = RemoveAt(list, i)
      BY <1>10, <2>2 DEF Schedule, Without
    <3>2. list \in Seq(Requests) /\ list[i] \in Requests
      BY DEF TypeOK
    <3>3. list' \in Seq(Requests)
      BY <3>1, <3>2, RemoveAtProperties
    <3> QED
      BY <1>10, <3>1, <3>2, <3>3 DEF Schedule, TypeOK, DeviceTypeOK, deviceVars, syncVars
  <2> QED
    BY <2>1, <2>2
<1>11. CASE IssueBusy
  BY <1>11 DEF IssueBusy, TypeOK, DeviceTypeOK, deviceVars, syncVars
<1>12. CASE Issue
  <2>1. picked \in Requests
    BY <1>12 DEF Issue, DiskAt, TypeOK
  <2>2. /\ Param(picked).op \in {"read", "write"}
        /\ Param(picked).block \in Blocks /\ Param(picked).block \in Int
        /\ Param(picked).buffer \in Buffers
    BY <1>12, <2>1, Parameters DEF Issue, DiskCmd, Accepts
  <2>3. DeviceTypeOK'
    BY <1>12, <2>2 DEF Issue, DiskCmd, TypeOK, DeviceTypeOK
  <2> QED
    BY <1>12, <2>1, <2>2, <2>3 DEF Issue, TypeOK, syncVars
<1>13. CASE IssueRefused
  <2>1. SyncTypeOK'
    BY <1>0, <1>13, SemUpType, NegativeHasWaiter DEF IssueRefused, Semaphores
  <2>2. Param(picked).block \in Int
    BY <1>13, Parameters DEF IssueRefused, DiskAt, TypeOK
  <2> QED
    BY <1>13, <2>1, <2>2 DEF IssueRefused, TypeOK, DeviceTypeOK, deviceVars, SyncTypeOK
<1>14. CASE Complete
  <2>1. SyncTypeOK'
    BY <1>0, <1>14, SemUpType, NegativeHasWaiter DEF Complete, Semaphores
  <2>2. DeviceTypeOK'
    BY <1>14 DEF Complete, DiskSigHandle, TypeOK, DeviceTypeOK
  <2> QED
    BY <1>14, <2>1, <2>2 DEF Complete, DiskSigHandle, TypeOK, SyncTypeOK
<1>15. CASE MainExit
  <2>1. SyncTypeOK'
    BY <1>0, <1>15, SemUpType, NegativeHasWaiter DEF MainExit, Semaphores, syncVars, SyncTypeOK
  <2>2. list' \in Seq(Requests) /\ init' \in BOOLEAN
    <3>1. CASE list = <<>>
      BY <1>15, <3>1 DEF MainExit, TypeOK
    <3>2. CASE list # <<>>
      <4>1. list' = <<>> /\ init' = FALSE
        BY <1>15, <3>2 DEF MainExit
      <4> QED
        BY <4>1, EmptySeq
    <3> QED
      BY <3>1, <3>2
  <2>3. /\ main' = "exited"
        /\ UNCHANGED <<deviceVars, picked, iCurrBlock, pc, ip, diskPC, inService, served>>
    BY <1>15 DEF MainExit
  <2> QED
    BY <2>1, <2>2, <2>3 DEF TypeOK, DeviceTypeOK, deviceVars, SyncTypeOK
<1>16. CASE UNCHANGED vars
  BY <1>16 DEF vars, managerVars, TypeOK, DeviceTypeOK, deviceVars, syncVars
<1> QED
  BY <1>1, <1>2, <1>3, <1>4, <1>5, <1>6, <1>7, <1>8, <1>9, <1>10, <1>11, <1>12, <1>13, <1>14,
     <1>15, <1>16 DEF Next, Client, DiskBody, DispatcherIdles

------------------------------------------------------------------------------
(* The queues *)

LEMMA NotBlocked ==
  ASSUME TypeOK, NEW t, ~Blocked(t), NEW o \in Objects
  PROVE  t \notin Range(waiting[o])
BY DEF TypeOK, Blocked, Objects

LEMMA Names == \A o : o \in Objects <=> o \in {"mRequest", "queueMutex", "newReqsSem", "treatedReqSem"}
BY DEF Objects, Mutexes, Semaphores

\* sem_up(newReqsSem) wakes the disk task or leaves a token.
LEMMA UpNew ==
  ASSUME TypeOK, QueuesOK, SemUp("newReqsSem")
  PROVE  /\ waiting'["newReqsSem"] = <<>> /\ value'["newReqsSem"] >= 0
         /\ \A o \in Objects \ {"newReqsSem"} : waiting'[o] = waiting[o] /\ value'[o] = value[o]
         /\ DiskAwake => value["newReqsSem"] >= 0 /\ value'["newReqsSem"] = value["newReqsSem"] + 1
         /\ ~DiskAwake => value["newReqsSem"] = -1 /\ value'["newReqsSem"] = 0 /\ diskPC = "schedule"
<1>1. /\ value \in [Objects -> Int] /\ waiting \in [Objects -> Seq(Tasks)]
      /\ "newReqsSem" \in Objects
  BY Names DEF TypeOK, Objects
<1>2. /\ value' = [value EXCEPT !["newReqsSem"] = @ + 1]
      /\ waiting' = IF value["newReqsSem"] < 0
                    THEN [waiting EXCEPT !["newReqsSem"] = Tail(@)] ELSE waiting
  BY DEF SemUp
<1>3. /\ value'["newReqsSem"] = value["newReqsSem"] + 1
      /\ \A o \in Objects \ {"newReqsSem"} : waiting'[o] = waiting[o] /\ value'[o] = value[o]
  BY <1>1, <1>2
<1>4. CASE waiting["newReqsSem"] = <<>> /\ value["newReqsSem"] >= 0
  <2>1. waiting' = waiting
    BY <1>1, <1>2, <1>4
  <2> QED
    BY <1>1, <1>3, <1>4, <2>1 DEF DiskAwake
<1>5. CASE waiting["newReqsSem"] = <<DiskTask>> /\ value["newReqsSem"] = -1 /\ diskPC = "schedule"
  <2>1. waiting'["newReqsSem"] = Tail(waiting["newReqsSem"])
    BY <1>1, <1>2, <1>5
  <2>2. waiting'["newReqsSem"] = <<>> /\ ~DiskAwake
    BY <1>5, <2>1, ShortQueues, Zenon DEF DiskAwake
  <2> QED
    BY <1>1, <1>3, <1>5, <2>2
<1> QED
  BY <1>4, <1>5 DEF QueuesOK, NewQueueOK

\* sem_up(treatedReqSem) wakes the caller that waits or leaves a token.
LEMMA UpTreated ==
  ASSUME TypeOK, QueuesOK, SemUp("treatedReqSem")
  PROVE  /\ waiting'["treatedReqSem"] = <<>> /\ value'["treatedReqSem"] >= 0
         /\ \A o \in Objects \ {"treatedReqSem"} : waiting'[o] = waiting[o] /\ value'[o] = value[o]
         /\ waiting["treatedReqSem"] = <<>> =>
              /\ value["treatedReqSem"] >= 0
              /\ value'["treatedReqSem"] = value["treatedReqSem"] + 1
         /\ waiting["treatedReqSem"] # <<>> =>
              /\ value["treatedReqSem"] = -1 /\ value'["treatedReqSem"] = 0
              /\ \E c \in Clients : waiting["treatedReqSem"] = <<c>> /\ pc[c] = "unlock"
<1>1. /\ value \in [Objects -> Int] /\ waiting \in [Objects -> Seq(Tasks)]
      /\ "treatedReqSem" \in Objects
  BY Names DEF TypeOK, Objects
<1>2. /\ value' = [value EXCEPT !["treatedReqSem"] = @ + 1]
      /\ waiting' = IF value["treatedReqSem"] < 0
                    THEN [waiting EXCEPT !["treatedReqSem"] = Tail(@)] ELSE waiting
  BY DEF SemUp
<1>3. /\ value'["treatedReqSem"] = value["treatedReqSem"] + 1
      /\ \A o \in Objects \ {"treatedReqSem"} : waiting'[o] = waiting[o] /\ value'[o] = value[o]
  BY <1>1, <1>2
<1>4. CASE waiting["treatedReqSem"] = <<>> /\ value["treatedReqSem"] >= 0
  <2>1. waiting' = waiting
    BY <1>1, <1>2, <1>4
  <2> QED
    BY <1>1, <1>3, <1>4, <2>1
<1>5. ASSUME NEW c \in Clients, waiting["treatedReqSem"] = <<c>>, value["treatedReqSem"] = -1,
             pc[c] = "unlock"
      PROVE  /\ waiting'["treatedReqSem"] = <<>> /\ value'["treatedReqSem"] = 0
             /\ waiting["treatedReqSem"] # <<>>
  <2>1. waiting'["treatedReqSem"] = Tail(waiting["treatedReqSem"])
    BY <1>1, <1>2, <1>5
  <2>2. waiting'["treatedReqSem"] = <<>> /\ waiting["treatedReqSem"] # <<>>
    BY <1>5, <2>1, ShortQueues, Zenon
  <2> QED
    BY <1>1, <1>3, <1>5, <2>2
<1> QED
  BY <1>3, <1>4, <1>5 DEF QueuesOK, TreatedQueueOK

\* sem_down takes a token, or its caller becomes the one that waits.
LEMMA DownEffect ==
  ASSUME TypeOK, NEW s \in Objects, NEW t \in Tasks, SemDown(s, t),
         waiting[s] = <<>>, value[s] >= 0
  PROVE  /\ \A o \in Objects \ {s} : waiting'[o] = waiting[o] /\ value'[o] = value[o]
         /\ value[s] > 0 => waiting'[s] = <<>> /\ value'[s] = value[s] - 1 /\ value'[s] >= 0
         /\ value[s] = 0 => waiting'[s] = <<t>> /\ value'[s] = -1
<1>1. value \in [Objects -> Int] /\ waiting \in [Objects -> Seq(Tasks)]
  BY DEF TypeOK, Objects
<1>2. /\ value' = [value EXCEPT ![s] = @ - 1]
      /\ waiting' = IF value[s] <= 0 THEN [waiting EXCEPT ![s] = Append(@, t)] ELSE waiting
  BY DEF SemDown
<1>3. Append(<<>>, t) = <<t>>
  BY ShortQueues, Zenon
<1>4. \A o \in Objects \ {s} : waiting'[o] = waiting[o] /\ value'[o] = value[o]
  BY <1>1, <1>2
<1>5. CASE value[s] > 0
  BY <1>1, <1>2, <1>4, <1>5
<1>6. CASE value[s] = 0
  <2>1. waiting'[s] = Append(waiting[s], t) /\ value'[s] = -1
    BY <1>1, <1>2, <1>6
  <2> QED
    BY <1>3, <1>4, <1>6, <2>1
<1> QED
  BY <1>1, <1>5, <1>6

\* The disk task does not wait when it has a step to take.
LEMMA DiskStepAwake ==
  ASSUME TypeOK, QueuesOK, ~Blocked(DiskTask)
  PROVE  DiskAwake /\ value["newReqsSem"] >= 0 /\ value["newReqsSem"] \in Int
<1>1. DiskTask \notin Range(waiting["newReqsSem"])
  BY NotBlocked, Names
<1>2. waiting["newReqsSem"] # <<DiskTask>>
  BY <1>1, ShortQueues, Zenon
<1> QED
  BY <1>2, Names DEF QueuesOK, NewQueueOK, DiskAwake, TypeOK, Objects

\* While a client holds mRequest before its sem_down, nobody waits for a treatment.
LEMMA NobodyAwaits ==
  ASSUME TypeOK, QueuesOK, RequestMutexOK, NEW c \in Clients, pc[c] = "await"
  PROVE  waiting["treatedReqSem"] = <<>> /\ value["treatedReqSem"] >= 0
<1> SUFFICES ASSUME NEW d \in Clients, waiting["treatedReqSem"] = <<d>>, pc[d] = "unlock"
             PROVE  FALSE
  BY DEF QueuesOK, TreatedQueueOK
<1>1. Holds(c) /\ Holds(d)
  BY DEF Holds, QueuesOK, MutexQueuesOK
<1> QED
  BY <1>1 DEF RequestMutexOK

\* Steps that change neither the mutexes, nor a waiting client, nor what the holder is.
LEMMA MutexesUnchanged ==
  ASSUME TypeOK, QueuesOK, RequestMutexOK,
         waiting'["queueMutex"] = waiting["queueMutex"],
         waiting'["mRequest"] = waiting["mRequest"], value'["mRequest"] = value["mRequest"],
         \A d \in Clients : \/ pc'[d] = pc[d]
                            \/ /\ ~Blocked(d)
                               /\ Holds(d)' <=> Holds(d)
  PROVE  MutexQueuesOK' /\ RequestMutexOK'
<1>1. \A d \in Clients : Holds(d)' <=> Holds(d)
  BY DEF Holds
<1>2. RequestMutexOK'
  BY <1>1 DEF RequestMutexOK
<1>3. ASSUME NEW t, t \in Range(waiting["queueMutex"]) \/ t \in Range(waiting["mRequest"])
      PROVE  t \in Clients /\ pc'[t] = pc[t]
  <2>1. t \in Clients
    BY <1>3 DEF QueuesOK, MutexQueuesOK
  <2>2. Blocked(t)
    BY <1>3, NotBlocked, Names
  <2> QED
    BY <2>1, <2>2
<1>4. MutexQueuesOK'
  BY <1>3 DEF QueuesOK, MutexQueuesOK
<1> QED
  BY <1>2, <1>4

\* Steps that change neither of the semaphores nor a waiting task.
LEMMA SemaphoresUnchanged ==
  ASSUME TypeOK, QueuesOK,
         \A s \in Semaphores : waiting'[s] = waiting[s] /\ value'[s] = value[s],
         \A d \in Clients : pc'[d] = pc[d] \/ ~Blocked(d),
         diskPC' = diskPC \/ ~Blocked(DiskTask)
  PROVE  NewQueueOK' /\ TreatedQueueOK'
<1>1. NewQueueOK'
  <2>1. CASE waiting["newReqsSem"] = <<>> /\ value["newReqsSem"] >= 0
    BY <2>1 DEF NewQueueOK, Semaphores
  <2>2. CASE waiting["newReqsSem"] = <<DiskTask>> /\ value["newReqsSem"] = -1 /\ diskPC = "schedule"
    <3>1. Blocked(DiskTask)
      BY <2>2, NotBlocked, Names, ShortQueues, Zenon
    <3> QED
      BY <2>2, <3>1 DEF NewQueueOK, Semaphores
  <2> QED
    BY <2>1, <2>2 DEF QueuesOK, NewQueueOK
<1>2. TreatedQueueOK'
  <2>1. CASE waiting["treatedReqSem"] = <<>> /\ value["treatedReqSem"] >= 0
    BY <2>1 DEF TreatedQueueOK, Semaphores
  <2>2. ASSUME NEW c \in Clients, waiting["treatedReqSem"] = <<c>>,
               value["treatedReqSem"] = -1, pc[c] = "unlock"
        PROVE  TreatedQueueOK'
    <3>1. c \in Range(waiting["treatedReqSem"])
      BY <2>2, ShortQueues, Zenon
    <3>2. pc'[c] = "unlock"
      BY <2>2, <3>1, NotBlocked, Names
    <3> QED
      BY <2>2, <3>2, Zenon DEF TreatedQueueOK, Semaphores
  <2> QED
    BY <2>1, <2>2 DEF QueuesOK, TreatedQueueOK
<1> QED
  BY <1>1, <1>2

\* A client that takes a step waits nowhere and is not the only one that waits somewhere.
LEMMA StepperIsFree ==
  ASSUME TypeOK, NEW c \in Clients, ~Blocked(c)
  PROVE  /\ c \in Tasks
         /\ c \notin Range(waiting["queueMutex"]) /\ c \notin Range(waiting["mRequest"])
         /\ waiting["treatedReqSem"] # <<c>>
<1>1. \A o \in Objects : c \notin Range(waiting[o])
  BY NotBlocked
<1>2. waiting["treatedReqSem"] # <<c>>
  BY <1>1, Names, ShortQueues, Zenon
<1> QED
  BY <1>1, <1>2, Names DEF Tasks

LEMMA LockQueueQueues ==
  ASSUME TypeOK, QueuesOK, RequestMutexOK, NEW c \in Clients, LockQueue(c)
  PROVE  QueuesOK' /\ RequestMutexOK'
<1>1. /\ pc[c] = "call" /\ ~Blocked(c) /\ pc' = [pc EXCEPT ![c] = "insert"]
      /\ MutexLock("queueMutex", c) /\ UNCHANGED diskPC
  BY DEF LockQueue, At, Goto
<1>2. /\ value \in [Objects -> Int] /\ waiting \in [Objects -> Seq(Tasks)]
      /\ pc'[c] = "insert" /\ \A d \in Clients : d # c => pc'[d] = pc[d]
      /\ c \notin Range(waiting["queueMutex"]) /\ c \notin Range(waiting["mRequest"])
      /\ c \in Tasks
  BY <1>1, StepperIsFree DEF TypeOK, Objects
<1>3. /\ \A o \in Objects \ {"queueMutex"} : waiting'[o] = waiting[o] /\ value'[o] = value[o]
      /\ \/ waiting'["queueMutex"] = waiting["queueMutex"]
         \/ waiting'["queueMutex"] = Append(waiting["queueMutex"], c)
  <2>1. "queueMutex" \in Objects
    BY Names
  <2>2. CASE value["queueMutex"] = 0
    BY <1>1, <1>2, <2>1, <2>2 DEF MutexLock
  <2>3. CASE value["queueMutex"] # 0
    BY <1>1, <1>2, <2>1, <2>3 DEF MutexLock
  <2> QED
    BY <2>2, <2>3
<1>4. NewQueueOK' /\ TreatedQueueOK'
  BY <1>1, <1>2, <1>3, SemaphoresUnchanged, Names DEF Semaphores
<1>5. RequestMutexOK'
  <2>1. \A d \in Clients : Holds(d)' <=> Holds(d)
    BY <1>1, <1>2, <1>3, Names DEF Holds
  <2> QED
    BY <1>3, <2>1, Names DEF RequestMutexOK
<1>6. Range(waiting'["queueMutex"]) \subseteq Range(waiting["queueMutex"]) \cup {c}
  <2>1. waiting["queueMutex"] \in Seq(Tasks)
    BY <1>2, Names
  <2>2. Range(Append(waiting["queueMutex"], c)) = Range(waiting["queueMutex"]) \cup {c}
    BY <1>2, <2>1, AppendRange
  <2> QED
    BY <1>3, <2>2, Zenon
<1>7. MutexQueuesOK'
  BY <1>2, <1>3, <1>6, Names DEF QueuesOK, MutexQueuesOK
<1> QED
  BY <1>4, <1>5, <1>7 DEF QueuesOK

LEMMA UnlockQueueQueues ==
  ASSUME TypeOK, QueuesOK, RequestMutexOK, NEW c \in Clients, UnlockQueue(c)
  PROVE  QueuesOK' /\ RequestMutexOK'
<1>1. /\ pc[c] = "unlockQueue" /\ ~Blocked(c) /\ pc' = [pc EXCEPT ![c] = "lock"]
      /\ MutexUnlock("queueMutex") /\ UNCHANGED diskPC
  BY DEF UnlockQueue, At, Goto
<1>2. /\ value \in [Objects -> Int] /\ waiting \in [Objects -> Seq(Tasks)]
      /\ pc'[c] = "lock" /\ \A d \in Clients : d # c => pc'[d] = pc[d]
      /\ c \notin Range(waiting["queueMutex"]) /\ c \notin Range(waiting["mRequest"])
  BY <1>1, StepperIsFree DEF TypeOK, Objects
<1>3. /\ \A o \in Objects \ {"queueMutex"} : waiting'[o] = waiting[o] /\ value'[o] = value[o]
      /\ \/ waiting'["queueMutex"] = waiting["queueMutex"]
         \/ /\ waiting["queueMutex"] # <<>>
            /\ waiting'["queueMutex"] = Tail(waiting["queueMutex"])
  BY <1>1, <1>2, Names DEF MutexUnlock
<1>4. NewQueueOK' /\ TreatedQueueOK'
  BY <1>1, <1>2, <1>3, SemaphoresUnchanged, Names DEF Semaphores
<1>5. RequestMutexOK'
  <2>1. \A d \in Clients : Holds(d)' <=> Holds(d)
    BY <1>1, <1>2, <1>3, Names DEF Holds
  <2> QED
    BY <1>3, <2>1, Names DEF RequestMutexOK
<1>6. Range(waiting'["queueMutex"]) \subseteq Range(waiting["queueMutex"])
  BY <1>2, <1>3, TailRange, Names
<1>7. MutexQueuesOK'
  BY <1>2, <1>3, <1>6, Names DEF QueuesOK, MutexQueuesOK
<1> QED
  BY <1>4, <1>5, <1>7 DEF QueuesOK

LEMMA LockRequestQueues ==
  ASSUME TypeOK, QueuesOK, RequestMutexOK, NEW c \in Clients, LockRequest(c)
  PROVE  QueuesOK' /\ RequestMutexOK'
<1>1. /\ pc[c] = "lock" /\ ~Blocked(c) /\ pc' = [pc EXCEPT ![c] = "signal"]
      /\ MutexLock("mRequest", c) /\ UNCHANGED diskPC
  BY DEF LockRequest, At, Goto
<1>2. /\ value \in [Objects -> Int] /\ waiting \in [Objects -> Seq(Tasks)]
      /\ pc'[c] = "signal" /\ \A d \in Clients : d # c => pc'[d] = pc[d]
      /\ c \notin Range(waiting["queueMutex"]) /\ c \notin Range(waiting["mRequest"])
      /\ c \in Tasks
  BY <1>1, StepperIsFree DEF TypeOK, Objects
<1>3. \A o \in Objects \ {"mRequest"} : waiting'[o] = waiting[o] /\ value'[o] = value[o]
  BY <1>1, <1>2, Names DEF MutexLock
<1>4. NewQueueOK' /\ TreatedQueueOK'
  BY <1>1, <1>2, <1>3, SemaphoresUnchanged, Names DEF Semaphores
<1>5. CASE value["mRequest"] = 0
  <2>1. value'["mRequest"] = 0 /\ waiting'["mRequest"] = Append(waiting["mRequest"], c)
    BY <1>1, <1>2, <1>5, Names DEF MutexLock
  <2>2. /\ Range(waiting'["mRequest"]) = Range(waiting["mRequest"]) \cup {c}
        /\ IsInjective(waiting'["mRequest"])
    BY <1>2, <2>1, AppendRange, AppendNew, Names DEF QueuesOK, MutexQueuesOK
  <2>3. MutexQueuesOK'
    BY <1>2, <1>3, <2>2, Names DEF QueuesOK, MutexQueuesOK
  <2>4. \A d \in Clients : Holds(d)' => Holds(d)
    BY <1>2, <2>2 DEF Holds
  <2>5. RequestMutexOK'
    BY <2>1, <2>4 DEF RequestMutexOK
  <2> QED
    BY <1>4, <2>3, <2>5 DEF QueuesOK
<1>6. CASE value["mRequest"] # 0
  <2>1. value'["mRequest"] = 0 /\ waiting'["mRequest"] = waiting["mRequest"]
    BY <1>1, <1>2, <1>6, Names DEF MutexLock
  <2>2. MutexQueuesOK'
    BY <1>2, <1>3, <2>1, Names DEF QueuesOK, MutexQueuesOK
  <2>3. \A d \in Clients : Holds(d)' => d = c
    BY <1>2, <1>6, <2>1 DEF Holds, RequestMutexOK
  <2>4. RequestMutexOK'
    BY <2>1, <2>3 DEF RequestMutexOK
  <2> QED
    BY <1>4, <2>2, <2>4 DEF QueuesOK
<1> QED
  BY <1>5, <1>6

LEMMA UnlockRequestQueues ==
  ASSUME TypeOK, QueuesOK, RequestMutexOK, NEW c \in Clients, UnlockRequest(c)
  PROVE  QueuesOK' /\ RequestMutexOK'
<1>1. /\ pc[c] = "unlock" /\ ~Blocked(c)
      /\ \E l \in {"call", "done"} : pc' = [pc EXCEPT ![c] = l]
      /\ MutexUnlock("mRequest") /\ UNCHANGED diskPC
  BY DEF UnlockRequest, At, Goto
<1>2. /\ value \in [Objects -> Int] /\ waiting \in [Objects -> Seq(Tasks)]
      /\ pc'[c] \in {"call", "done"} /\ \A d \in Clients : d # c => pc'[d] = pc[d]
      /\ c \notin Range(waiting["queueMutex"]) /\ c \notin Range(waiting["mRequest"])
  BY <1>1, StepperIsFree DEF TypeOK, Objects
<1>3. \A o \in Objects \ {"mRequest"} : waiting'[o] = waiting[o] /\ value'[o] = value[o]
  BY <1>1, <1>2, Names DEF MutexUnlock
<1>4. NewQueueOK' /\ TreatedQueueOK'
  BY <1>1, <1>2, <1>3, SemaphoresUnchanged, Names DEF Semaphores
<1>5. Holds(c) /\ value["mRequest"] = 0 /\ \A d \in Clients : Holds(d) => d = c
  BY <1>1, <1>2 DEF Holds, RequestMutexOK
<1>6. CASE waiting["mRequest"] # <<>>
  <2> DEFINE h == waiting["mRequest"][1]
  <2>1. value'["mRequest"] = 0 /\ waiting'["mRequest"] = Tail(waiting["mRequest"])
    BY <1>1, <1>2, <1>5, <1>6, Names DEF MutexUnlock
  <2>2. /\ Range(waiting'["mRequest"]) \subseteq Range(waiting["mRequest"])
        /\ Range(waiting["mRequest"]) \subseteq Range(waiting'["mRequest"]) \cup {h}
        /\ IsInjective(waiting'["mRequest"])
    BY <1>2, <1>6, <2>1, TailRange, Names DEF QueuesOK, MutexQueuesOK
  <2>3. MutexQueuesOK'
    <3>1. waiting'["queueMutex"] = waiting["queueMutex"]
      BY <1>3, Names
    <3>2. \A t \in Range(waiting["queueMutex"]) : t \in Clients /\ t # c /\ pc[t] = "insert"
      BY <1>2, Zenon DEF QueuesOK, MutexQueuesOK
    <3>3. \A t \in Range(waiting["mRequest"]) : t \in Clients /\ t # c /\ pc[t] = "signal"
      BY <1>2, Zenon DEF QueuesOK, MutexQueuesOK
    <3>4. \A t \in Range(waiting'["queueMutex"]) : t \in Clients /\ pc'[t] = "insert"
      BY <1>2, <3>1, <3>2, Zenon
    <3>5. \A t \in Range(waiting'["mRequest"]) : t \in Clients /\ pc'[t] = "signal"
      BY <1>2, <2>2, <3>3, Zenon
    <3> QED
      BY <2>2, <3>4, <3>5, Zenon DEF MutexQueuesOK
  <2>4. ASSUME NEW d \in Clients, Holds(d)'
        PROVE  d = h
    <3>1. d # c /\ pc'[d] = pc[d]
      BY <1>2, <2>4 DEF Holds
    <3>2. ~Holds(d)
      BY <1>5, <3>1
    <3>3. d \in Range(waiting["mRequest"]) /\ d \notin Range(waiting'["mRequest"])
      BY <2>4, <3>1, <3>2 DEF Holds
    <3> QED
      BY <2>2, <3>3
  <2>5. RequestMutexOK'
    <3>1. \A d, e \in Clients : Holds(d)' /\ Holds(e)' => d = e
      BY <2>4
    <3> QED
      BY <2>1, <3>1 DEF RequestMutexOK
  <2> QED
    BY <1>4, <2>3, <2>5 DEF QueuesOK
<1>7. CASE waiting["mRequest"] = <<>>
  <2>1. waiting'["mRequest"] = <<>>
    BY <1>1, <1>2, <1>7, Names DEF MutexUnlock
  <2>2. MutexQueuesOK'
    BY <1>2, <1>3, <1>7, <2>1, Names DEF QueuesOK, MutexQueuesOK
  <2>3. \A d \in Clients : ~Holds(d)'
    BY <1>2, <1>5, <1>7, <2>1 DEF Holds
  <2>4. RequestMutexOK'
    BY <2>1, <2>3 DEF RequestMutexOK
  <2> QED
    BY <1>4, <2>2, <2>4 DEF QueuesOK
<1> QED
  BY <1>6, <1>7

\* The actions on the two semaphores: the mutexes stay.
LEMMA SignalNewQueues ==
  ASSUME TypeOK, QueuesOK, RequestMutexOK, NEW c \in Clients, SignalNew(c)
  PROVE  QueuesOK' /\ RequestMutexOK'
<1>1. /\ pc[c] = "signal" /\ ~Blocked(c) /\ pc' = [pc EXCEPT ![c] = "await"]
      /\ SemUp("newReqsSem") /\ UNCHANGED diskPC
  BY DEF SignalNew, At, Goto
<1>2. /\ pc'[c] = "await" /\ \A d \in Clients : d # c => pc'[d] = pc[d]
      /\ c \notin Range(waiting["mRequest"]) /\ waiting["treatedReqSem"] # <<c>>
  BY <1>1, StepperIsFree DEF TypeOK
<1>3. /\ waiting'["newReqsSem"] = <<>> /\ value'["newReqsSem"] >= 0
      /\ \A o \in Objects \ {"newReqsSem"} : waiting'[o] = waiting[o] /\ value'[o] = value[o]
  BY <1>1, UpNew
<1>4. Holds(c)' <=> Holds(c)
  BY <1>1, <1>2, <1>3, Names DEF Holds
<1>5. MutexQueuesOK' /\ RequestMutexOK'
  BY <1>1, <1>2, <1>3, <1>4, MutexesUnchanged, Names
<1>6. TreatedQueueOK'
  BY <1>1, <1>2, <1>3, Names DEF QueuesOK, TreatedQueueOK
<1> QED
  BY <1>3, <1>5, <1>6 DEF QueuesOK, NewQueueOK

LEMMA AwaitTreatedQueues ==
  ASSUME TypeOK, QueuesOK, RequestMutexOK, NEW c \in Clients, AwaitTreated(c)
  PROVE  QueuesOK' /\ RequestMutexOK'
<1>1. /\ pc[c] = "await" /\ ~Blocked(c) /\ pc' = [pc EXCEPT ![c] = "unlock"]
      /\ SemDown("treatedReqSem", c) /\ UNCHANGED diskPC
  BY DEF AwaitTreated, At, Goto
<1>2. /\ pc'[c] = "unlock" /\ \A d \in Clients : d # c => pc'[d] = pc[d]
      /\ c \notin Range(waiting["mRequest"]) /\ c \in Tasks
  BY <1>1, StepperIsFree DEF TypeOK
<1>3. waiting["treatedReqSem"] = <<>> /\ value["treatedReqSem"] >= 0
      /\ value["treatedReqSem"] \in Int
  BY <1>1, NobodyAwaits, Names DEF TypeOK, Objects
<1>4. /\ \A o \in Objects \ {"treatedReqSem"} : waiting'[o] = waiting[o] /\ value'[o] = value[o]
      /\ value["treatedReqSem"] > 0 =>
           waiting'["treatedReqSem"] = <<>> /\ value'["treatedReqSem"] >= 0
      /\ value["treatedReqSem"] = 0 =>
           waiting'["treatedReqSem"] = <<c>> /\ value'["treatedReqSem"] = -1
  BY <1>1, <1>2, <1>3, DownEffect, Names
<1>5. Holds(c)' <=> Holds(c)
  BY <1>1, <1>2, <1>4, Names DEF Holds
<1>6. MutexQueuesOK' /\ RequestMutexOK'
  BY <1>1, <1>2, <1>4, <1>5, MutexesUnchanged, Names
<1>7. TreatedQueueOK'
  BY <1>2, <1>3, <1>4 DEF TreatedQueueOK
<1>8. NewQueueOK'
  BY <1>1, <1>4, Names DEF QueuesOK, NewQueueOK
<1> QED
  BY <1>6, <1>7, <1>8 DEF QueuesOK

LEMMA DownNewQueues ==
  ASSUME TypeOK, QueuesOK, RequestMutexOK, DownNew
  PROVE  QueuesOK' /\ RequestMutexOK'
<1>1. /\ ~Blocked(DiskTask) /\ diskPC' = "schedule"
      /\ SemDown("newReqsSem", DiskTask) /\ UNCHANGED pc
  BY DEF DownNew, DiskAt
<1>2. /\ waiting["newReqsSem"] = <<>> /\ value["newReqsSem"] >= 0
      /\ value["newReqsSem"] \in Int /\ DiskTask \in Tasks
  BY <1>1, DiskStepAwake DEF DiskAwake, Tasks
<1>3. /\ \A o \in Objects \ {"newReqsSem"} : waiting'[o] = waiting[o] /\ value'[o] = value[o]
      /\ value["newReqsSem"] > 0 => waiting'["newReqsSem"] = <<>> /\ value'["newReqsSem"] >= 0
      /\ value["newReqsSem"] = 0 =>
           waiting'["newReqsSem"] = <<DiskTask>> /\ value'["newReqsSem"] = -1
  BY <1>1, <1>2, DownEffect, Names
<1>4. MutexQueuesOK' /\ RequestMutexOK'
  BY <1>1, <1>3, MutexesUnchanged, Names
<1>5. NewQueueOK'
  BY <1>1, <1>2, <1>3 DEF NewQueueOK
<1>6. TreatedQueueOK'
  BY <1>1, <1>3, Names DEF QueuesOK, TreatedQueueOK
<1> QED
  BY <1>4, <1>5, <1>6 DEF QueuesOK

\* The end of a transfer and the refusal of a request.
LEMMA UpTreatedQueues ==
  ASSUME TypeOK, QueuesOK, RequestMutexOK, SemUp("treatedReqSem"), UNCHANGED pc,
         diskPC' = diskPC \/ ~Blocked(DiskTask)
  PROVE  QueuesOK' /\ RequestMutexOK'
<1>1. /\ waiting'["treatedReqSem"] = <<>> /\ value'["treatedReqSem"] >= 0
      /\ \A o \in Objects \ {"treatedReqSem"} : waiting'[o] = waiting[o] /\ value'[o] = value[o]
  BY UpTreated
<1>2. MutexQueuesOK' /\ RequestMutexOK'
  BY <1>1, MutexesUnchanged, Names
<1>3. NewQueueOK'
  <2>1. CASE diskPC' = diskPC
    BY <1>1, <2>1, Names DEF QueuesOK, NewQueueOK
  <2>2. CASE ~Blocked(DiskTask)
    BY <1>1, <2>2, DiskStepAwake, Names DEF NewQueueOK, DiskAwake
  <2> QED
    BY <2>1, <2>2
<1> QED
  BY <1>1, <1>2, <1>3 DEF QueuesOK, TreatedQueueOK

LEMMA MainExitQueues ==
  ASSUME TypeOK, QueuesOK, RequestMutexOK, MainExit
  PROVE  QueuesOK' /\ RequestMutexOK'
<1>1. UNCHANGED <<pc, diskPC>>
  BY DEF MainExit
<1>2. CASE list = <<>>
  <2>1. UNCHANGED <<value, waiting>>
    BY <1>2 DEF MainExit, syncVars
  <2> QED
    BY <1>1, <2>1, MutexesUnchanged, SemaphoresUnchanged DEF QueuesOK
<1>3. CASE list # <<>>
  <2>1. /\ waiting'["newReqsSem"] = <<>> /\ value'["newReqsSem"] >= 0
        /\ \A o \in Objects \ {"newReqsSem"} : waiting'[o] = waiting[o] /\ value'[o] = value[o]
    BY <1>3, UpNew DEF MainExit
  <2>2. MutexQueuesOK' /\ RequestMutexOK'
    BY <1>1, <2>1, MutexesUnchanged, Names
  <2>3. TreatedQueueOK'
    BY <1>1, <2>1, Names DEF QueuesOK, TreatedQueueOK
  <2> QED
    BY <2>1, <2>2, <2>3 DEF QueuesOK, NewQueueOK
<1> QED
  BY <1>2, <1>3

LEMMA NextQueues ==
  ASSUME TypeOK, QueuesOK, RequestMutexOK, [Next]_vars
  PROVE  QueuesOK' /\ RequestMutexOK'
<1>1. ASSUME UNCHANGED <<value, waiting>>,
             \A d \in Clients : \/ pc'[d] = pc[d]
                                \/ ~Blocked(d) /\ (Holds(d)' <=> Holds(d)),
             diskPC' = diskPC \/ ~Blocked(DiskTask)
      PROVE  QueuesOK' /\ RequestMutexOK'
  BY <1>1, MutexesUnchanged, SemaphoresUnchanged DEF QueuesOK
<1>2. ASSUME NEW c \in Clients, Insert(c)
      PROVE  QueuesOK' /\ RequestMutexOK'
  <2>1. /\ pc[c] = "insert" /\ ~Blocked(c) /\ pc' = [pc EXCEPT ![c] = "unlockQueue"]
        /\ UNCHANGED <<value, waiting>> /\ UNCHANGED diskPC
    BY <1>2 DEF Insert, At, Goto, syncVars
  <2>2. \A d \in Clients : pc'[d] = pc[d] \/ (~Blocked(d) /\ (Holds(d)' <=> Holds(d)))
    BY <2>1 DEF TypeOK, Holds
  <2> QED
    BY <1>1, <2>1, <2>2
<1>3. CASE TestInit \/ Schedule \/ IssueBusy \/ Issue
  BY <1>1, <1>3 DEF TestInit, Schedule, IssueBusy, Issue, DiskAt, syncVars
<1>4. CASE IssueRefused
  BY <1>4, UpTreatedQueues DEF IssueRefused, DiskAt
<1>5. CASE Complete
  BY <1>5, UpTreatedQueues DEF Complete
<1>6. CASE UNCHANGED vars
  BY <1>1, <1>6 DEF vars, syncVars, managerVars
<1> QED
  BY <1>2, <1>3, <1>4, <1>5, <1>6, LockQueueQueues, UnlockQueueQueues, LockRequestQueues,
     UnlockRequestQueues, SignalNewQueues, AwaitTreatedQueues, DownNewQueues, MainExitQueues
     DEF Next, Client, DiskBody, DispatcherIdles

------------------------------------------------------------------------------
(* The token *)

LEMMA FlyingHolds ==
  ASSUME TypeOK, QueuesOK, NEW c \in Clients, Flying(c)
  PROVE  Holds(c)
BY DEF Flying, Holds, QueuesOK, MutexQueuesOK

\* When the holder is not in flight, nobody is.
LEMMA NoOtherFlying ==
  ASSUME TypeOK, QueuesOK, RequestMutexOK, NEW c \in Clients, Holds(c), ~Flying(c)
  PROVE  ~InFlightNow
BY FlyingHolds DEF InFlightNow, RequestMutexOK

LEMMA ValuesAreIntegers ==
  ASSUME TypeOK
  PROVE  value["newReqsSem"] \in Int /\ value["treatedReqSem"] \in Int
BY Names DEF TypeOK, Objects

\* Steps that move no token.
LEMMA TokenKept ==
  ASSUME TokenOK, init' => init,
         \A s \in Semaphores : value'[s] = value[s] /\ waiting'[s] = waiting[s],
         diskPC' \in {"schedule", "issue"} <=> diskPC \in {"schedule", "issue"},
         status' # "idle" <=> status # "idle",
         InFlightNow' <=> InFlightNow
  PROVE  TokenOK'
<1>1. /\ Tokens("newReqsSem")' = Tokens("newReqsSem")
      /\ Tokens("treatedReqSem")' = Tokens("treatedReqSem")
  BY DEF Tokens, Semaphores
<1>2. AtWork' <=> AtWork
  BY DEF AtWork, DiskAwake, Semaphores
<1> QED
  BY <1>1, <1>2 DEF TokenOK, Count, Flights, Work, Transfers

\* A client's step outside the part between its sem_up and its sem_down.
LEMMA ClientTokenKept ==
  ASSUME TypeOK, QueuesOK, RequestMutexOK, TokenOK, NEW c \in Clients, ~Blocked(c),
         pc[c] # "await", pc'[c] \notin {"await", "unlock"},
         \A d \in Clients : d # c => pc'[d] = pc[d],
         \A s \in Semaphores : value'[s] = value[s] /\ waiting'[s] = waiting[s],
         UNCHANGED <<init, diskPC, status>>
  PROVE  TokenOK'
<1>1. waiting["treatedReqSem"] # <<c>>
  BY StepperIsFree
<1>2. \A d \in Clients : Flying(d)' <=> Flying(d)
  BY <1>1 DEF Flying, Semaphores
<1> QED
  BY <1>2, TokenKept DEF InFlightNow

LEMMA SignalNewToken ==
  ASSUME TypeOK, QueuesOK, RequestMutexOK, TokenOK, NEW c \in Clients, SignalNew(c)
  PROVE  TokenOK'
<1> SUFFICES ASSUME init'
             PROVE  TokenOK'
  BY DEF TokenOK
<1>1. /\ pc[c] = "signal" /\ ~Blocked(c) /\ pc'[c] = "await" /\ init
      /\ SemUp("newReqsSem") /\ diskPC' = diskPC /\ status' = status
  BY DEF SignalNew, At, Goto, deviceVars, TypeOK
<1>2. ~InFlightNow /\ InFlightNow'
  <2>1. Holds(c) /\ ~Flying(c)
    BY <1>1, StepperIsFree DEF Holds, Flying
  <2>2. Flying(c)'
    BY <1>1 DEF Flying
  <2> QED
    BY <2>1, <2>2, NoOtherFlying DEF InFlightNow
<1>3. /\ Tokens("newReqsSem") = 0 /\ Tokens("treatedReqSem") = 0
      /\ ~AtWork /\ status = "idle"
  BY <1>1, <1>2, ValuesAreIntegers DEF TokenOK, Tokens, Count, Flights, Work, Transfers
<1>4. /\ waiting'["newReqsSem"] = <<>>
      /\ value'["treatedReqSem"] = value["treatedReqSem"]
      /\ DiskAwake => value["newReqsSem"] >= 0 /\ value'["newReqsSem"] = value["newReqsSem"] + 1
      /\ ~DiskAwake => value'["newReqsSem"] = 0 /\ diskPC = "schedule"
  BY <1>1, UpNew, Names
<1>5. Tokens("treatedReqSem")' = 0 /\ status' = "idle"
  BY <1>1, <1>3, <1>4 DEF Tokens
<1>6. CASE DiskAwake
  <2>1. Tokens("newReqsSem")' = 1 /\ ~AtWork'
    BY <1>1, <1>3, <1>4, <1>6, ValuesAreIntegers DEF Tokens, AtWork, DiskAwake
  <2> QED
    BY <1>2, <1>5, <2>1 DEF TokenOK, Count, Flights, Work, Transfers
<1>7. CASE ~DiskAwake
  <2>1. Tokens("newReqsSem")' = 0 /\ AtWork'
    BY <1>1, <1>4, <1>7 DEF Tokens, AtWork, DiskAwake
  <2> QED
    BY <1>2, <1>5, <2>1 DEF TokenOK, Count, Flights, Work, Transfers
<1> QED
  BY <1>6, <1>7

LEMMA AwaitTreatedToken ==
  ASSUME TypeOK, QueuesOK, RequestMutexOK, TokenOK, NEW c \in Clients, AwaitTreated(c)
  PROVE  TokenOK'
<1>1. /\ pc[c] = "await" /\ ~Blocked(c) /\ pc'[c] = "unlock" /\ init' = init
      /\ \A d \in Clients : d # c => pc'[d] = pc[d]
      /\ SemDown("treatedReqSem", c) /\ diskPC' = diskPC /\ status' = status
  BY DEF AwaitTreated, At, Goto, deviceVars, TypeOK
<1>2. waiting["treatedReqSem"] = <<>> /\ value["treatedReqSem"] >= 0 /\ c \in Tasks
  BY <1>1, NobodyAwaits DEF Tasks
<1>3. /\ waiting'["newReqsSem"] = waiting["newReqsSem"] /\ value'["newReqsSem"] = value["newReqsSem"]
      /\ value["treatedReqSem"] > 0 =>
           /\ waiting'["treatedReqSem"] = <<>>
           /\ value'["treatedReqSem"] = value["treatedReqSem"] - 1
      /\ value["treatedReqSem"] = 0 =>
           waiting'["treatedReqSem"] = <<c>> /\ value'["treatedReqSem"] = -1
  BY <1>1, <1>2, DownEffect, Names
<1>4. Tokens("newReqsSem")' = Tokens("newReqsSem") /\ (AtWork' <=> AtWork) /\ InFlightNow
  BY <1>1, <1>3 DEF Tokens, AtWork, DiskAwake, InFlightNow, Flying
<1>5. \A d \in Clients : pc[d] = "await" => d = c
  <2>1. \A d \in Clients : pc[d] = "await" => Holds(d)
    BY FlyingHolds DEF Flying
  <2> QED
    BY <1>1, <2>1 DEF RequestMutexOK
<1>6. CASE value["treatedReqSem"] > 0
  <2>1. Tokens("treatedReqSem")' = Tokens("treatedReqSem") - 1
    BY <1>3, <1>6, ValuesAreIntegers DEF Tokens
  <2>2. ~InFlightNow'
    <3> SUFFICES ASSUME NEW d \in Clients, Flying(d)'
                 PROVE  FALSE
      BY DEF InFlightNow
    <3>1. pc'[d] # "await"
      BY <1>1, <1>5
    <3>2. waiting'["treatedReqSem"] # <<d>>
      BY <1>3, <1>6, ShortQueues, Zenon
    <3> QED
      BY <3>1, <3>2 DEF Flying
  <2>3. Tokens("newReqsSem") \in Int /\ Tokens("treatedReqSem") \in Int
    BY ValuesAreIntegers DEF Tokens
  <2> QED
    BY <1>1, <1>4, <2>1, <2>2, <2>3 DEF TokenOK, Count, Flights, Work, Transfers
<1>7. CASE value["treatedReqSem"] = 0
  <2>1. Tokens("treatedReqSem")' = Tokens("treatedReqSem")
    BY <1>3, <1>7 DEF Tokens
  <2>2. InFlightNow'
    BY <1>1, <1>3, <1>7 DEF InFlightNow, Flying
  <2> QED
    BY <1>1, <1>4, <2>1, <2>2 DEF TokenOK, Count, Flights, Work, Transfers
<1> QED
  BY <1>2, <1>6, <1>7, ValuesAreIntegers

LEMMA DownNewToken ==
  ASSUME TypeOK, QueuesOK, TokenOK, DownNew
  PROVE  TokenOK'
<1>1. /\ ~Blocked(DiskTask) /\ diskPC = "down" /\ diskPC' = "schedule"
      /\ SemDown("newReqsSem", DiskTask) /\ pc' = pc /\ init' = init /\ status' = status
  BY DEF DownNew, DiskAt, deviceVars
<1>2. /\ waiting["newReqsSem"] = <<>> /\ value["newReqsSem"] >= 0
      /\ value["newReqsSem"] \in Int /\ DiskTask \in Tasks
  BY <1>1, DiskStepAwake DEF DiskAwake, Tasks
<1>3. /\ waiting'["treatedReqSem"] = waiting["treatedReqSem"]
      /\ value'["treatedReqSem"] = value["treatedReqSem"]
      /\ value["newReqsSem"] > 0 =>
           waiting'["newReqsSem"] = <<>> /\ value'["newReqsSem"] = value["newReqsSem"] - 1
      /\ value["newReqsSem"] = 0 =>
           waiting'["newReqsSem"] = <<DiskTask>> /\ value'["newReqsSem"] = -1
  BY <1>1, <1>2, DownEffect, Names
<1>4. /\ Tokens("treatedReqSem")' = Tokens("treatedReqSem") /\ (InFlightNow' <=> InFlightNow)
      /\ ~AtWork
  BY <1>1, <1>3 DEF Tokens, InFlightNow, Flying, AtWork
<1>5. Tokens("newReqsSem") \in Int /\ Tokens("treatedReqSem") \in Int
  BY ValuesAreIntegers DEF Tokens
<1>6. CASE value["newReqsSem"] > 0
  <2>1. Tokens("newReqsSem")' = Tokens("newReqsSem") - 1 /\ AtWork'
    BY <1>1, <1>2, <1>3, <1>6 DEF Tokens, AtWork, DiskAwake
  <2> QED
    BY <1>1, <1>4, <1>5, <2>1 DEF TokenOK, Count, Flights, Work, Transfers
<1>7. CASE value["newReqsSem"] = 0
  <2>1. Tokens("newReqsSem")' = Tokens("newReqsSem")
    BY <1>3, <1>7 DEF Tokens
  <2>2. ~AtWork'
    BY <1>3, <1>7, ShortQueues, Zenon DEF AtWork, DiskAwake
  <2> QED
    BY <1>1, <1>4, <2>1, <2>2 DEF TokenOK, Count, Flights, Work, Transfers
<1> QED
  BY <1>2, <1>6, <1>7

\* The end of a transfer, or a refusal: one place of the token empties, and either the
\* caller that waits is released or the token is left in treatedReqSem.
LEMMA UpTreatedToken ==
  ASSUME TypeOK, QueuesOK, RequestMutexOK, TokenOK, SemUp("treatedReqSem"),
         pc' = pc, init' = init,
         \/ AtWork /\ ~AtWork' /\ status' = status
         \/ status # "idle" /\ status' = "idle" /\ (AtWork' <=> AtWork)
  PROVE  TokenOK'
<1>1. /\ waiting'["treatedReqSem"] = <<>>
      /\ value'["newReqsSem"] = value["newReqsSem"]
      /\ waiting["treatedReqSem"] = <<>> =>
           /\ value["treatedReqSem"] >= 0
           /\ value'["treatedReqSem"] = value["treatedReqSem"] + 1
      /\ waiting["treatedReqSem"] # <<>> =>
           /\ value["treatedReqSem"] = -1 /\ value'["treatedReqSem"] = 0
           /\ \E c \in Clients : waiting["treatedReqSem"] = <<c>> /\ pc[c] = "unlock"
  BY UpTreated, Names
<1>2. Tokens("newReqsSem")' = Tokens("newReqsSem")
  BY <1>1 DEF Tokens
<1>3. Tokens("newReqsSem") \in Int /\ Tokens("treatedReqSem") \in Int
  BY ValuesAreIntegers DEF Tokens
<1>4. CASE waiting["treatedReqSem"] = <<>>
  <2>1. Tokens("treatedReqSem")' = Tokens("treatedReqSem") + 1
    BY <1>1, <1>4, ValuesAreIntegers DEF Tokens
  <2>2. InFlightNow' <=> InFlightNow
    <3>1. \A d \in Clients : Flying(d)' <=> Flying(d)
      BY <1>1, <1>4 DEF Flying
    <3> QED
      BY <3>1 DEF InFlightNow
  <2> QED
    BY <1>2, <1>3, <2>1, <2>2 DEF TokenOK, Count, Flights, Work, Transfers
<1>5. ASSUME NEW c \in Clients, waiting["treatedReqSem"] = <<c>>, pc[c] = "unlock"
      PROVE  TokenOK'
  <2>1. waiting["treatedReqSem"] # <<>>
    BY <1>5, ShortQueues, Zenon
  <2>2. Tokens("treatedReqSem")' = Tokens("treatedReqSem")
    BY <1>1, <2>1 DEF Tokens
  <2>3. ~InFlightNow'
    <3> SUFFICES ASSUME NEW d \in Clients, Flying(d)'
                 PROVE  FALSE
      BY DEF InFlightNow
    <3>1. waiting'["treatedReqSem"] # <<d>>
      BY <1>1, ShortQueues, Zenon
    <3>2. pc[d] = "await"
      BY <3>1 DEF Flying
    <3>3. Holds(c) /\ Holds(d)
      BY <1>5, <3>2, FlyingHolds DEF Flying
    <3> QED
      BY <1>5, <3>2, <3>3 DEF RequestMutexOK
  <2>4. InFlightNow
    BY <1>5 DEF InFlightNow, Flying
  <2> QED
    BY <1>2, <1>3, <2>2, <2>3, <2>4 DEF TokenOK, Count, Flights, Work, Transfers
<1> QED
  BY <1>1, <1>4, <1>5

LEMMA MutexKeepsSemaphores ==
  ASSUME TypeOK, NEW m \in Mutexes,
         MutexUnlock(m) \/ \E t \in Tasks : MutexLock(m, t)
  PROVE  \A s \in Semaphores : value'[s] = value[s] /\ waiting'[s] = waiting[s]
BY DEF MutexLock, MutexUnlock, TypeOK, Mutexes, Semaphores

LEMMA UnsentIsNatural == IsFiniteSet(Unsignalled) /\ Unsent \in Nat
BY ManagerAssumption, FS_Subset, FS_CardinalityType DEF Unsignalled, Unsent

LEMMA NextToken ==
  ASSUME TypeOK, QueuesOK, RequestMutexOK, TokenOK, BalanceOK, [Next]_vars
  PROVE  TokenOK'
<1>1. ASSUME NEW c \in Clients, LockQueue(c)
      PROVE  TokenOK'
  <2>1. /\ pc[c] = "call" /\ ~Blocked(c) /\ pc' = [pc EXCEPT ![c] = "insert"]
        /\ MutexLock("queueMutex", c) /\ UNCHANGED <<init, diskPC, status>>
    BY <1>1 DEF LockQueue, At, Goto, deviceVars
  <2> QED
    BY <2>1, ClientTokenKept, MutexKeepsSemaphores DEF TypeOK, Mutexes, Tasks
<1>2. ASSUME NEW c \in Clients, Insert(c)
      PROVE  TokenOK'
  <2>1. /\ pc[c] = "insert" /\ ~Blocked(c) /\ pc' = [pc EXCEPT ![c] = "unlockQueue"]
        /\ value' = value /\ waiting' = waiting /\ UNCHANGED <<init, diskPC, status>>
    BY <1>2 DEF Insert, At, Goto, deviceVars, syncVars
  <2> QED
    BY <2>1, ClientTokenKept DEF TypeOK
<1>3. ASSUME NEW c \in Clients, UnlockQueue(c)
      PROVE  TokenOK'
  <2>1. /\ pc[c] = "unlockQueue" /\ ~Blocked(c) /\ pc' = [pc EXCEPT ![c] = "lock"]
        /\ MutexUnlock("queueMutex") /\ UNCHANGED <<init, diskPC, status>>
    BY <1>3 DEF UnlockQueue, At, Goto, deviceVars
  <2> QED
    BY <2>1, ClientTokenKept, MutexKeepsSemaphores DEF TypeOK, Mutexes, Tasks
<1>4. ASSUME NEW c \in Clients, LockRequest(c)
      PROVE  TokenOK'
  <2>1. /\ pc[c] = "lock" /\ ~Blocked(c) /\ pc' = [pc EXCEPT ![c] = "signal"]
        /\ MutexLock("mRequest", c) /\ UNCHANGED <<init, diskPC, status>>
    BY <1>4 DEF LockRequest, At, Goto, deviceVars
  <2> QED
    BY <2>1, ClientTokenKept, MutexKeepsSemaphores DEF TypeOK, Mutexes, Tasks
<1>5. ASSUME NEW c \in Clients, UnlockRequest(c)
      PROVE  TokenOK'
  <2>1. /\ pc[c] = "unlock" /\ ~Blocked(c)
        /\ \E l \in {"call", "done"} : pc' = [pc EXCEPT ![c] = l]
        /\ MutexUnlock("mRequest") /\ UNCHANGED <<init, diskPC, status>>
    BY <1>5 DEF UnlockRequest, At, Goto, deviceVars
  <2> QED
    BY <2>1, ClientTokenKept, MutexKeepsSemaphores DEF TypeOK, Mutexes, Tasks
<1>6. CASE TestInit
  BY <1>6, TokenKept DEF TestInit, DiskAt, deviceVars, syncVars, InFlightNow, Flying
<1>7. CASE Schedule
  <2>1. CASE list = <<>>
    <3>1. Looking /\ init' = init
      BY <1>7, DiskStepAwake DEF Schedule, DiskAt, Looking
    <3>2. Len(list) = 0
      BY <2>1
    <3>3. Unsent \in Nat /\ Tokens("newReqsSem") \in Nat
      BY UnsentIsNatural, ValuesAreIntegers DEF Tokens
    <3>4. ~init
      BY <3>1, <3>2, <3>3 DEF BalanceOK, Count
    <3> QED
      BY <3>1, <3>4 DEF TokenOK
  <2>2. CASE list # <<>>
    BY <1>7, <2>2, TokenKept DEF Schedule, DiskAt, deviceVars, syncVars, InFlightNow, Flying
  <2> QED
    BY <2>1, <2>2
<1>8. CASE IssueBusy
  <2>1. AtWork /\ status # "idle" /\ init' = init
    BY <1>8, DiskStepAwake DEF IssueBusy, DiskAt, AtWork
  <2>2. ~init
    BY <2>1, ValuesAreIntegers DEF TokenOK, Count, Flights, Work, Transfers, Tokens
  <2> QED
    BY <2>1, <2>2 DEF TokenOK
<1>9. CASE Issue
  <2>1. /\ AtWork /\ ~AtWork' /\ status = "idle" /\ init' = init
        /\ value' = value /\ waiting' = waiting /\ pc' = pc
    BY <1>9, DiskStepAwake DEF Issue, DiskAt, AtWork, DiskCmd, Accepts, syncVars
  <2>2. status' # "idle"
    BY <1>9, Parameters DEF Issue, DiskAt, DiskCmd, TypeOK
  <2>3. InFlightNow' <=> InFlightNow
    BY <2>1 DEF InFlightNow, Flying
  <2>4. /\ Tokens("newReqsSem")' = Tokens("newReqsSem")
        /\ Tokens("treatedReqSem")' = Tokens("treatedReqSem")
        /\ Tokens("newReqsSem") \in Int /\ Tokens("treatedReqSem") \in Int
    BY <2>1, ValuesAreIntegers DEF Tokens
  <2> QED
    BY <2>1, <2>2, <2>3, <2>4 DEF TokenOK, Count, Flights, Work, Transfers
<1>10. CASE IssueRefused
  <2>1. /\ AtWork /\ ~AtWork' /\ status' = status /\ init' = init /\ pc' = pc
        /\ SemUp("treatedReqSem")
    BY <1>10, DiskStepAwake DEF IssueRefused, DiskAt, AtWork, deviceVars
  <2> QED
    BY <2>1, UpTreatedToken
<1>11. CASE Complete
  <2>1. /\ status # "idle" /\ status' = "idle" /\ init' = init /\ pc' = pc /\ diskPC' = diskPC
        /\ SemUp("treatedReqSem")
    BY <1>11 DEF Complete, DiskSigHandle
  <2>2. AtWork' <=> AtWork
    BY <2>1, UpTreated, Names DEF AtWork, DiskAwake
  <2> QED
    BY <2>1, <2>2, UpTreatedToken
<1>12. CASE MainExit
  <2>1. CASE list = <<>>
    BY <1>12, <2>1, TokenKept DEF MainExit, deviceVars, syncVars, InFlightNow, Flying
  <2>2. CASE list # <<>>
    BY <1>12, <2>2 DEF MainExit, TokenOK
  <2> QED
    BY <2>1, <2>2
<1>13. CASE UNCHANGED vars
  BY <1>13, TokenKept DEF vars, deviceVars, syncVars, managerVars, InFlightNow, Flying
<1> QED
  BY <1>1, <1>2, <1>3, <1>4, <1>5, <1>6, <1>7, <1>8, <1>9, <1>10, <1>11, <1>12, <1>13,
     SignalNewToken, AwaitTreatedToken, DownNewToken DEF Next, Client, DiskBody, DispatcherIdles

------------------------------------------------------------------------------
(* The balance of the list *)

\* Steps that move no request and send no wake-up.
LEMMA BalanceKept ==
  ASSUME BalanceOK, init' => init, list' = list, Unsignalled' = Unsignalled,
         value'["newReqsSem"] = value["newReqsSem"],
         waiting'["newReqsSem"] = waiting["newReqsSem"],
         diskPC' = "schedule" <=> diskPC = "schedule"
  PROVE  BalanceOK'
<1>1. (Looking' <=> Looking) /\ Unsent' = Unsent
  BY DEF Looking, DiskAwake, Unsent
<1>2. Tokens("newReqsSem")' = Tokens("newReqsSem")
  BY DEF Tokens
<1> QED
  BY <1>1, <1>2 DEF BalanceOK, Count

\* A client's step that leaves it among the unsignalled, or outside them.
LEMMA ClientBalanceKept ==
  ASSUME TypeOK, BalanceOK, NEW c \in Clients,
         pc'[c] \in {"unlockQueue", "lock", "signal"} <=> pc[c] \in {"unlockQueue", "lock", "signal"},
         \A d \in Clients : d # c => pc'[d] = pc[d],
         list' = list, init' = init, diskPC' = diskPC,
         value'["newReqsSem"] = value["newReqsSem"],
         waiting'["newReqsSem"] = waiting["newReqsSem"]
  PROVE  BalanceOK'
<1>1. Unsignalled' = Unsignalled
  BY DEF Unsignalled
<1> QED
  BY <1>1, BalanceKept

LEMMA InsertBalance ==
  ASSUME TypeOK, BalanceOK, NEW c \in Clients, Insert(c)
  PROVE  BalanceOK'
<1>1. /\ pc[c] = "insert" /\ pc'[c] = "unlockQueue" /\ \A d \in Clients : d # c => pc'[d] = pc[d]
      /\ list' = Append(list, CurrentRequest(c))
      /\ init' = init /\ diskPC' = diskPC /\ value' = value /\ waiting' = waiting
  BY DEF Insert, At, Goto, TypeOK, syncVars
<1>2. Len(list') = Len(list) + 1 /\ Len(list) \in Nat
  BY <1>1, CurrentIsRequest, AppendRange DEF TypeOK
<1>3. Unsignalled' = Unsignalled \cup {c} /\ c \notin Unsignalled
  BY <1>1 DEF Unsignalled
<1>4. Unsent' = Unsent + 1
  BY <1>3, UnsentIsNatural, FS_AddElement DEF Unsent
<1>5. (Looking' <=> Looking) /\ Tokens("newReqsSem")' = Tokens("newReqsSem")
  BY <1>1 DEF Looking, DiskAwake, Tokens
<1>6. Tokens("newReqsSem") \in Int
  BY ValuesAreIntegers DEF Tokens
<1>7. Count(Looking') = Count(Looking) /\ Count(Looking) \in Int
  BY <1>5 DEF Count
<1>8. ASSUME init
      PROVE  Len(list) + 1 = (Unsent + 1) + Tokens("newReqsSem") + Count(Looking)
  <2>1. Len(list) = Unsent + Tokens("newReqsSem") + Count(Looking)
    BY <1>8 DEF BalanceOK
  <2> QED
    BY <1>6, <1>7, <2>1, UnsentIsNatural
<1> QED
  BY <1>1, <1>2, <1>4, <1>5, <1>7, <1>8 DEF BalanceOK

LEMMA SignalNewBalance ==
  ASSUME TypeOK, QueuesOK, BalanceOK, NEW c \in Clients, SignalNew(c)
  PROVE  BalanceOK'
<1>1. /\ pc[c] = "signal" /\ pc'[c] = "await" /\ \A d \in Clients : d # c => pc'[d] = pc[d]
      /\ list' = list /\ init' = init /\ diskPC' = diskPC /\ SemUp("newReqsSem")
  BY DEF SignalNew, At, Goto, TypeOK
<1>2. Unsignalled' = Unsignalled \ {c} /\ c \in Unsignalled
  BY <1>1 DEF Unsignalled
<1>3. Unsent' = Unsent - 1
  BY <1>2, UnsentIsNatural, FS_RemoveElement DEF Unsent
<1>4. /\ waiting'["newReqsSem"] = <<>>
      /\ DiskAwake => value["newReqsSem"] >= 0 /\ value'["newReqsSem"] = value["newReqsSem"] + 1
      /\ ~DiskAwake => value["newReqsSem"] = -1 /\ value'["newReqsSem"] = 0 /\ diskPC = "schedule"
  BY <1>1, UpNew
<1>5. Tokens("newReqsSem") \in Int
  BY ValuesAreIntegers DEF Tokens
<1>6. CASE DiskAwake
  <2>1. Tokens("newReqsSem")' = Tokens("newReqsSem") + 1 /\ (Looking' <=> Looking)
    BY <1>1, <1>4, <1>6, ValuesAreIntegers DEF Tokens, Looking, DiskAwake
  <2> QED
    BY <1>1, <1>3, <1>5, <2>1, UnsentIsNatural DEF BalanceOK, Count
<1>7. CASE ~DiskAwake
  <2>1. Tokens("newReqsSem")' = Tokens("newReqsSem") /\ Looking' /\ ~Looking
    BY <1>1, <1>4, <1>7 DEF Tokens, Looking, DiskAwake
  <2> QED
    BY <1>1, <1>3, <1>5, <2>1, UnsentIsNatural DEF BalanceOK, Count
<1> QED
  BY <1>6, <1>7

LEMMA DownNewBalance ==
  ASSUME TypeOK, QueuesOK, BalanceOK, DownNew
  PROVE  BalanceOK'
<1>1. /\ ~Blocked(DiskTask) /\ diskPC = "down" /\ diskPC' = "schedule"
      /\ SemDown("newReqsSem", DiskTask) /\ pc' = pc /\ init' = init /\ list' = list
  BY DEF DownNew, DiskAt
<1>2. /\ waiting["newReqsSem"] = <<>> /\ value["newReqsSem"] >= 0
      /\ value["newReqsSem"] \in Int /\ DiskTask \in Tasks
  BY <1>1, DiskStepAwake DEF DiskAwake, Tasks
<1>3. /\ value["newReqsSem"] > 0 =>
           waiting'["newReqsSem"] = <<>> /\ value'["newReqsSem"] = value["newReqsSem"] - 1
      /\ value["newReqsSem"] = 0 =>
           waiting'["newReqsSem"] = <<DiskTask>> /\ value'["newReqsSem"] = -1
  BY <1>1, <1>2, DownEffect, Names
<1>4. ~Looking /\ Unsent' = Unsent /\ Tokens("newReqsSem") \in Int
  BY <1>1, ValuesAreIntegers DEF Looking, Unsent, Unsignalled, Tokens
<1>5. CASE value["newReqsSem"] > 0
  <2>1. Tokens("newReqsSem")' = Tokens("newReqsSem") - 1 /\ Looking'
    BY <1>1, <1>2, <1>3, <1>5 DEF Tokens, Looking, DiskAwake
  <2> QED
    BY <1>1, <1>4, <2>1, UnsentIsNatural DEF BalanceOK, Count
<1>6. CASE value["newReqsSem"] = 0
  <2>1. Tokens("newReqsSem")' = Tokens("newReqsSem")
    BY <1>3, <1>6 DEF Tokens
  <2>2. ~Looking'
    BY <1>3, <1>6, ShortQueues, Zenon DEF Looking, DiskAwake
  <2> QED
    BY <1>1, <1>4, <2>1, <2>2, UnsentIsNatural DEF BalanceOK, Count
<1> QED
  BY <1>2, <1>5, <1>6

LEMMA ScheduleBalance ==
  ASSUME TypeOK, QueuesOK, BalanceOK, Schedule
  PROVE  BalanceOK'
<1>1. /\ Looking /\ init' = init /\ value' = value /\ waiting' = waiting /\ pc' = pc
  BY DiskStepAwake DEF Schedule, DiskAt, Looking, syncVars
<1>2. /\ Unsent' = Unsent /\ Unsent \in Nat
      /\ Tokens("newReqsSem")' = Tokens("newReqsSem") /\ Tokens("newReqsSem") \in Nat
  BY <1>1, UnsentIsNatural, ValuesAreIntegers DEF Unsent, Unsignalled, Tokens
<1>3. CASE list = <<>>
  <2>1. Len(list) = 0
    BY <1>3
  <2>2. ~init
    BY <1>1, <1>2, <2>1 DEF BalanceOK, Count
  <2> QED
    BY <1>1, <2>2 DEF BalanceOK
<1>4. CASE list # <<>>
  <2>1. PICK i \in DOMAIN list : list' = RemoveAt(list, i) /\ diskPC' = "issue"
    BY <1>4 DEF Schedule, Without
  <2>2. Len(list') = Len(list) - 1 /\ Len(list) \in Nat
    BY <2>1, RemoveAtProperties DEF TypeOK
  <2>3. ~Looking'
    BY <2>1 DEF Looking
  <2> QED
    BY <1>1, <1>2, <2>2, <2>3 DEF BalanceOK, Count
<1> QED
  BY <1>3, <1>4

LEMMA NextBalance ==
  ASSUME TypeOK, QueuesOK, RequestMutexOK, BalanceOK, [Next]_vars
  PROVE  BalanceOK'
<1>1. ASSUME NEW c \in Clients, LockQueue(c)
      PROVE  BalanceOK'
  <2>1. /\ pc[c] = "call" /\ pc' = [pc EXCEPT ![c] = "insert"]
        /\ MutexLock("queueMutex", c) /\ UNCHANGED <<list, init, diskPC>>
    BY <1>1 DEF LockQueue, At, Goto
  <2> QED
    BY <2>1, ClientBalanceKept, MutexKeepsSemaphores DEF TypeOK, Mutexes, Semaphores, Tasks
<1>2. ASSUME NEW c \in Clients, UnlockQueue(c)
      PROVE  BalanceOK'
  <2>1. /\ pc[c] = "unlockQueue" /\ pc' = [pc EXCEPT ![c] = "lock"]
        /\ MutexUnlock("queueMutex") /\ UNCHANGED <<list, init, diskPC>>
    BY <1>2 DEF UnlockQueue, At, Goto
  <2> QED
    BY <2>1, ClientBalanceKept, MutexKeepsSemaphores DEF TypeOK, Mutexes, Semaphores
<1>3. ASSUME NEW c \in Clients, LockRequest(c)
      PROVE  BalanceOK'
  <2>1. /\ pc[c] = "lock" /\ pc' = [pc EXCEPT ![c] = "signal"]
        /\ MutexLock("mRequest", c) /\ UNCHANGED <<list, init, diskPC>>
    BY <1>3 DEF LockRequest, At, Goto
  <2> QED
    BY <2>1, ClientBalanceKept, MutexKeepsSemaphores DEF TypeOK, Mutexes, Semaphores, Tasks
<1>4. ASSUME NEW c \in Clients, AwaitTreated(c)
      PROVE  BalanceOK'
  <2>1. /\ pc[c] = "await" /\ pc' = [pc EXCEPT ![c] = "unlock"]
        /\ SemDown("treatedReqSem", c) /\ UNCHANGED <<list, init, diskPC>>
    BY <1>4 DEF AwaitTreated, At, Goto
  <2>2. /\ waiting'["newReqsSem"] = waiting["newReqsSem"]
        /\ value'["newReqsSem"] = value["newReqsSem"]
    BY <2>1, NobodyAwaits, DownEffect, Names DEF Tasks
  <2> QED
    BY <2>1, <2>2, ClientBalanceKept DEF TypeOK
<1>5. ASSUME NEW c \in Clients, UnlockRequest(c)
      PROVE  BalanceOK'
  <2>1. /\ pc[c] = "unlock" /\ \E l \in {"call", "done"} : pc' = [pc EXCEPT ![c] = l]
        /\ MutexUnlock("mRequest") /\ UNCHANGED <<list, init, diskPC>>
    BY <1>5 DEF UnlockRequest, At, Goto
  <2> QED
    BY <2>1, ClientBalanceKept, MutexKeepsSemaphores DEF TypeOK, Mutexes, Semaphores
<1>6. CASE TestInit \/ IssueBusy \/ Issue
  BY <1>6, BalanceKept DEF TestInit, IssueBusy, Issue, DiskAt, syncVars, Unsignalled
<1>7. ASSUME SemUp("treatedReqSem"), list' = list, init' = init, pc' = pc,
             diskPC' = "schedule" <=> diskPC = "schedule"
      PROVE  BalanceOK'
  <2>1. /\ waiting'["newReqsSem"] = waiting["newReqsSem"]
        /\ value'["newReqsSem"] = value["newReqsSem"]
    BY <1>7, UpTreated, Names
  <2> QED
    BY <1>7, <2>1, BalanceKept DEF Unsignalled
<1>8. CASE IssueRefused
  BY <1>7, <1>8 DEF IssueRefused, DiskAt
<1>9. CASE Complete
  BY <1>7, <1>9 DEF Complete
<1>10. CASE MainExit
  <2>1. CASE list = <<>>
    BY <1>10, <2>1, BalanceKept DEF MainExit, syncVars, Unsignalled
  <2>2. CASE list # <<>>
    BY <1>10, <2>2 DEF MainExit, BalanceOK
  <2> QED
    BY <2>1, <2>2
<1>11. CASE UNCHANGED vars
  BY <1>11, BalanceKept DEF vars, syncVars, managerVars, Unsignalled
<1> QED
  BY <1>1, <1>2, <1>3, <1>4, <1>5, <1>6, <1>8, <1>9, <1>10, <1>11, InsertBalance,
     SignalNewBalance, DownNewBalance, ScheduleBalance DEF Next, Client, DiskBody, DispatcherIdles

------------------------------------------------------------------------------
(* The inductive invariant *)

LEMMA InitInv == Init => IInv
<1> SUFFICES ASSUME Init PROVE IInv
  OBVIOUS
<1>1. TypeOK
  BY InitType
<1>2. \A o \in Objects : waiting[o] = <<>> /\ value[o] = IF o \in Mutexes THEN 1 ELSE 0
  BY DEF Init, SyncInit, Objects
<1>3. /\ waiting["newReqsSem"] = <<>> /\ value["newReqsSem"] = 0
      /\ waiting["treatedReqSem"] = <<>> /\ value["treatedReqSem"] = 0
      /\ waiting["queueMutex"] = <<>> /\ waiting["mRequest"] = <<>>
  BY <1>2, Names DEF Mutexes
<1>4. \A c \in Clients : pc[c] = "call"
  BY DEF Init
<1>5. MutexQueuesOK
  BY <1>3, ShortQueues DEF MutexQueuesOK
<1>6. QueuesOK
  BY <1>3, <1>5 DEF QueuesOK, NewQueueOK, TreatedQueueOK
<1>7. RequestMutexOK
  BY <1>3, <1>4 DEF RequestMutexOK, Holds
<1>8. TokenOK
  <2>1. ~InFlightNow /\ ~AtWork /\ status = "idle"
    BY <1>4 DEF InFlightNow, Flying, AtWork, Init, DeviceInit
  <2> QED
    BY <1>3, <2>1 DEF TokenOK, Flights, Work, Transfers, Tokens, Count
<1>9. BalanceOK
  <2>1. Unsignalled = {}
    BY <1>4 DEF Unsignalled
  <2>2. Unsent = 0
    BY <2>1, FS_EmptySet DEF Unsent
  <2>3. list = <<>> /\ ~Looking
    BY DEF Init, Looking
  <2> QED
    BY <1>3, <2>2, <2>3 DEF BalanceOK, Tokens, Count
<1> QED
  BY <1>1, <1>6, <1>7, <1>8, <1>9 DEF IInv

LEMMA NextInv == IInv /\ [Next]_vars => IInv'
BY NextType, NextQueues, NextToken, NextBalance DEF IInv

\* The handshake, the mutexes and the list keep in step in every reachable state.
THEOREM InvHolds == Spec => []IInv
BY InitInv, NextInv, PTL DEF Spec

------------------------------------------------------------------------------
(* What the invariant says of the suspended tasks *)

LEMMA DiskSleeps ==
  ASSUME TypeOK, QueuesOK
  PROVE  Blocked(DiskTask) <=> ~DiskAwake
<1>1. ASSUME ~DiskAwake
      PROVE  Blocked(DiskTask)
  <2>1. waiting["newReqsSem"] = <<DiskTask>>
    BY <1>1 DEF DiskAwake, QueuesOK, NewQueueOK
  <2>2. DiskTask \in Range(waiting["newReqsSem"])
    BY <2>1, ShortQueues
  <2> QED
    BY <2>2, Names DEF TypeOK, Blocked, Objects
<1>2. ASSUME Blocked(DiskTask)
      PROVE  ~DiskAwake
  <2>1. PICK o \in Objects : DiskTask \in Range(waiting[o])
    BY <1>2 DEF TypeOK, Blocked, Objects
  <2>2. o # "queueMutex" /\ o # "mRequest"
    BY <2>1, ManagerAssumption DEF QueuesOK, MutexQueuesOK
  <2>3. ASSUME o = "treatedReqSem"
        PROVE  FALSE
    <3>1. waiting["treatedReqSem"] # <<>>
      BY <2>1, <2>3, NoWaiter, Zenon
    <3>2. PICK c \in Clients : waiting["treatedReqSem"] = <<c>>
      BY <3>1, Zenon DEF QueuesOK, TreatedQueueOK
    <3>3. DiskTask = c
      BY <2>1, <2>3, <3>2, OneWaiter, Zenon
    <3> QED
      BY <3>3, ManagerAssumption, Zenon
  <2>4. o = "newReqsSem"
    BY <2>2, <2>3, Zenon DEF Objects, Mutexes, Semaphores
  <2>5. waiting["newReqsSem"] # <<>>
    BY <2>1, <2>4, NoWaiter, Zenon
  <2> QED
    BY <2>5, Zenon DEF DiskAwake
<1> QED
  BY <1>1, <1>2

LEMMA CallerSleeps ==
  ASSUME TypeOK, QueuesOK, NEW c \in Clients, pc[c] = "unlock"
  PROVE  Blocked(c) <=> waiting["treatedReqSem"] = <<c>>
<1>1. ASSUME waiting["treatedReqSem"] = <<c>>
      PROVE  Blocked(c)
  <2>1. c \in Range(waiting["treatedReqSem"])
    BY <1>1, ShortQueues
  <2> QED
    BY <2>1, Names DEF TypeOK, Blocked, Objects
<1>2. ASSUME Blocked(c)
      PROVE  waiting["treatedReqSem"] = <<c>>
  <2>1. PICK o \in Objects : c \in Range(waiting[o])
    BY <1>2 DEF TypeOK, Blocked, Objects
  <2>2. o # "queueMutex" /\ o # "mRequest"
    BY <2>1 DEF QueuesOK, MutexQueuesOK
  <2>3. ASSUME o = "newReqsSem"
        PROVE  FALSE
    <3>1. waiting["newReqsSem"] # <<>>
      BY <2>1, <2>3, NoWaiter, Zenon
    <3>2. waiting["newReqsSem"] = <<DiskTask>>
      BY <3>1, Zenon DEF QueuesOK, NewQueueOK
    <3>3. c = DiskTask
      BY <2>1, <2>3, <3>2, OneWaiter, Zenon
    <3> QED
      BY <3>3, ManagerAssumption, Zenon
  <2>4. o = "treatedReqSem"
    BY <2>2, <2>3, Zenon DEF Objects, Mutexes, Semaphores
  <2>5. c \in Range(waiting["treatedReqSem"])
    BY <2>1, <2>4, Zenon
  <2>6. waiting["treatedReqSem"] # <<>>
    BY <2>5, NoWaiter, Zenon
  <2>7. PICK d \in Clients : waiting["treatedReqSem"] = <<d>>
    BY <2>6, Zenon DEF QueuesOK, TreatedQueueOK
  <2>8. c = d
    BY <2>5, <2>7, OneWaiter, Zenon
  <2> QED
    BY <2>7, <2>8, Zenon
<1> QED
  BY <1>1, <1>2

LEMMA CountInFlight ==
  ASSUME TypeOK, QueuesOK, RequestMutexOK
  PROVE  Cardinality(InFlight) = Flights
<1>1. \A c \in Clients : c \in InFlight <=> Flying(c)
  BY CallerSleeps DEF InFlight, Flying
<1>2. CASE InFlightNow
  <2>1. PICK c \in Clients : Flying(c)
    BY <1>2 DEF InFlightNow
  <2>2. \A d \in Clients : Flying(d) => d = c
    BY <2>1, FlyingHolds DEF RequestMutexOK
  <2>3. InFlight = {c}
    BY <1>1, <2>1, <2>2 DEF InFlight
  <2> QED
    BY <1>2, <2>3, FS_Singleton DEF Flights, Count
<1>3. CASE ~InFlightNow
  <2>1. InFlight = {}
    BY <1>1, <1>3 DEF InFlight, InFlightNow
  <2> QED
    BY <1>3, <2>1, FS_EmptySet DEF Flights, Count
<1> QED
  BY <1>2, <1>3

------------------------------------------------------------------------------
(* Theorems *)

\* The values the kernel's objects, the list, the disk and every caller's progress take:
\* in particular a woken queue is never empty, and the disk is never busy with nothing.
THEOREM TypeCorrect == Spec => []TypeOK
<1>1. IInv => TypeOK
  BY DEF IInv
<1> QED
  BY InvHolds, <1>1, PTL

\* The quotient that \div gives is the real one without its fraction.
LEMMA QuotientBelow ==
  ASSUME NEW a \in Nat, NEW n \in Nat \ {0}
  PROVE  a \div n \in Nat /\ n * (a \div n) <= a
<1>1. /\ a \div n \in Int
      /\ a % n \in 0 .. n - 1
      /\ a = n * (a \div n) + (a % n)
  BY SMT
<1>2. a \div n >= 0
  BY SMT
<1> QED
  BY <1>1, <1>2, SMT

\* The arm goes less than the length of the disk, so its share of the range is not the whole.
LEMMA TravelShare ==
  ASSUME nextBlock \in Blocks, prevBlock \in Blocks
  PROVE  /\ Travel * Spread \in Nat /\ Travel * Spread <= NumBlocks * Spread
         /\ (Travel * Spread) \div NumBlocks \in 0 .. Spread - 1
<1> DEFINE n == NumBlocks
           d == Travel
           q == (d * 270) \div n
<1>1. n \in Nat \ {0} /\ d \in Nat /\ d <= n - 1
  BY DeviceAssumption DEF Travel, Blocks
<1>2. Spread = 270
  BY DEF Spread, DISK_DELAY_MAX, DISK_DELAY_MIN
<1> HIDE DEF n, d
<1>3. d * 270 \in Nat /\ d * 270 < n * 270 /\ q \in Nat /\ n * q <= d * 270
  BY <1>1, QuotientBelow
<1> HIDE DEF q
<1>4. q <= 269
  <2>1. SUFFICES ASSUME 270 <= q PROVE FALSE
    BY <1>3
  <2>2. n * 270 <= n * q
    BY <1>1, <1>3, <2>1, SMT
  <2> QED
    BY <1>1, <1>3, <2>2, SMT
<1> QED
  <2>1. /\ Travel * 270 \in Nat /\ Travel * 270 <= NumBlocks * 270
        /\ (Travel * 270) \div NumBlocks \in 0 .. 269
    BY <1>1, <1>3, <1>4 DEF n, d, q
  <2> QED
    BY <1>2, <2>1

\* disk_settimer, for a disk of any size whose ways an int can be multiplied by: every delay
\* it computes for a transfer of the manager is one that timer_settime takes and that fires.
THEOREM TimersFire == Spec => []TimerFires
<1>1. IInv => TimerFires
  <2> SUFFICES ASSUME IInv, NEW random \in RandomTerm
               PROVE  /\ Travel * Spread <= 2147483647
                      /\ DISK_DELAY_MIN <= time_ms(random)
                      /\ time_ms(random) < DISK_DELAY_MAX + random
                      /\ time_ms(random) * 1000000 <= 999999999
    BY SMT DEF TimerFires
  <2>1. nextBlock \in Blocks /\ prevBlock \in Blocks
    BY DEF IInv, TypeOK, DeviceTypeOK
  <2>2. random \in Nat /\ random <= 26
    <3>1. PICK r \in 0 .. 269 : random = r \div 10
      BY DEF RandomTerm, Spread, DISK_DELAY_MAX, DISK_DELAY_MIN
    <3> QED
      BY <3>1, QuotientBelow
  <2>3. PICK share \in 0 .. 269 : time_ms(random) = share + 30 + random
    BY <2>1, TravelShare DEF time_ms, Spread, DISK_DELAY_MAX, DISK_DELAY_MIN
  <2>4. Travel * Spread <= 2147483647
    <3>1. NumBlocks * Spread \in Int
      BY DeviceAssumption DEF Spread, DISK_DELAY_MAX, DISK_DELAY_MIN
    <3> QED
      BY <2>1, <3>1, TravelShare, DelayAssumption, SMT
  <2>5. time_ms(random) * 1000000 <= 999999999
    BY <2>2, <2>3, SMT
  <2> QED
    BY <2>2, <2>3, <2>4, <2>5, SMT DEF DISK_DELAY_MAX, DISK_DELAY_MIN
<1> QED
  BY InvHolds, <1>1, PTL

\* The handshake between the callers, the disk task and the signal handler never loses
\* or duplicates its token, and mRequest never lets a second caller be in flight.
THEOREM TokenIsUnique == Spec => []OneTokenInFlight
<1>1. IInv => OneTokenInFlight
  <2> SUFFICES ASSUME IInv, init
               PROVE  /\ Cardinality(InFlight) <= 1
                      /\ Cardinality(InFlight) =
                           Tokens("newReqsSem")
                           + Count(diskPC \in {"schedule", "issue"} /\ ~Blocked(DiskTask))
                           + Count(status # "idle")
                           + Tokens("treatedReqSem")
    BY DEF OneTokenInFlight
  <2>1. Cardinality(InFlight) = Flights
    BY CountInFlight DEF IInv
  <2>2. Flights <= 1
    BY DEF Flights, Count
  <2>3. AtWork <=> diskPC \in {"schedule", "issue"} /\ ~Blocked(DiskTask)
    BY DiskSleeps DEF IInv, AtWork
  <2>4. Work = Count(diskPC \in {"schedule", "issue"} /\ ~Blocked(DiskTask))
    BY <2>3 DEF Work, Count
  <2>5. Flights = Tokens("newReqsSem") + Work + Transfers + Tokens("treatedReqSem")
    BY DEF IInv, TokenOK
  <2> QED
    BY <2>1, <2>2, <2>4, <2>5 DEF Transfers
<1> QED
  BY InvHolds, <1>1, PTL

\* Each request in the list has exactly one wake-up of the disk task sent or to be sent,
\* whichever order the two mutexes let the callers through in.
THEOREM ListIsBalanced == Spec => []ListBalance
<1>1. IInv => ListBalance
  <2> SUFFICES ASSUME IInv, init
               PROVE  Len(list) = Cardinality(Unsignalled) + Tokens("newReqsSem")
                                  + Count(diskPC = "schedule" /\ ~Blocked(DiskTask))
    BY DEF ListBalance
  <2>1. Looking <=> diskPC = "schedule" /\ ~Blocked(DiskTask)
    BY DiskSleeps DEF IInv, Looking
  <2>2. Count(Looking) = Count(diskPC = "schedule" /\ ~Blocked(DiskTask))
    BY <2>1 DEF Count
  <2> QED
    BY <2>2 DEF IInv, BalanceOK, Unsent
<1> QED
  BY InvHolds, <1>1, PTL

\* While the disk task looks for a request or has one in hand, nothing is on the device.
LEMMA IdleAtWork ==
  ASSUME IInv, init, AtWork
  PROVE  status = "idle"
<1> SUFFICES ASSUME status # "idle"
             PROVE  FALSE
  OBVIOUS
<1>1. Work = 1 /\ Transfers = 1 /\ Flights <= 1
  BY DEF Work, Transfers, Flights, Count
<1>2. Tokens("newReqsSem") >= 0 /\ Tokens("newReqsSem") \in Int
  BY ValuesAreIntegers DEF IInv, Tokens
<1>3. Tokens("treatedReqSem") >= 0 /\ Tokens("treatedReqSem") \in Int
  BY ValuesAreIntegers DEF IInv, Tokens
<1>4. Flights = Tokens("newReqsSem") + Work + Transfers + Tokens("treatedReqSem")
  BY DEF IInv, TokenOK
<1>5. Flights \in Int
  BY DEF Flights, Count
<1> QED
  BY <1>1, <1>2, <1>3, <1>4, <1>5

\* In particular when diskScheduler is about to call disk_cmd.
LEMMA IdleWhenIssuing ==
  ASSUME IInv, init, diskPC = "issue"
  PROVE  status = "idle"
<1>1. AtWork
  BY DEF IInv, QueuesOK, NewQueueOK, AtWork, DiskAwake
<1> QED
  BY <1>1, IdleAtWork

\* Until finishDiskTask has cleared disk.init, the disk is idle whenever diskScheduler has
\* a request in hand: its busy branch, which would drop the request, is never taken.
THEOREM NeverBusy == Spec => []NeverIssuesBusy
<1>1. IInv => NeverIssuesBusy
  BY IdleWhenIssuing DEF NeverIssuesBusy
<1> QED
  BY InvHolds, <1>1, PTL

\* Once every caller is through, no request is left in the list.
LEMMA NothingLeft ==
  ASSUME IInv, init, AllDone
  PROVE  list = <<>>
<1>1. Unsignalled = {} /\ ~InFlightNow
  BY DEF AllDone, Unsignalled, InFlightNow, Flying
<1>2. Unsent = 0 /\ Flights = 0
  BY <1>1, FS_EmptySet DEF Unsent, Flights, Count
<1>3. /\ Tokens("newReqsSem") >= 0 /\ Tokens("newReqsSem") \in Int
      /\ Tokens("treatedReqSem") >= 0 /\ Tokens("treatedReqSem") \in Int
  BY ValuesAreIntegers DEF IInv, Tokens
<1>4. /\ Work \in {0, 1} /\ Transfers \in {0, 1}
      /\ Looking => Work = 1
  BY DEF Work, Transfers, Count, Looking, AtWork
<1>5. Flights = Tokens("newReqsSem") + Work + Transfers + Tokens("treatedReqSem")
  BY DEF IInv, TokenOK
<1>6. Tokens("newReqsSem") = 0 /\ Work = 0
  BY <1>2, <1>3, <1>4, <1>5
<1>7. Count(Looking) = 0
  BY <1>4, <1>6 DEF Count
<1>8. Len(list) = 0
  BY <1>2, <1>6, <1>7 DEF IInv, BalanceOK
<1> QED
  BY <1>8 DEF IInv, TypeOK

\* When main joins every client before it exits, finishDiskTask finds the list empty and
\* never clears disk.init: the disk task never ends, whatever src/ppos_disk.h says.
NeverEnded == MainJoins => init /\ diskPC # "exited"

THEOREM FinishIsSkipped == Spec => []NeverEnded
<1>1. Init => NeverEnded
  BY DEF Init, NeverEnded
<1>2. IInv /\ NeverEnded /\ [Next]_vars => NeverEnded'
  <2> SUFFICES ASSUME IInv, [Next]_vars, MainJoins, init, diskPC # "exited"
               PROVE  init' /\ diskPC' # "exited"
    BY DEF NeverEnded
  <2>1. CASE MainExit
    BY <2>1, NothingLeft DEF MainExit
  <2>2. ASSUME NEW c \in Clients, Client(c)
        PROVE  init' /\ diskPC' # "exited"
    BY <2>2 DEF Client, LockQueue, Insert, UnlockQueue, LockRequest, SignalNew,
                AwaitTreated, UnlockRequest
  <2>3. CASE DiskBody
    BY <2>3 DEF DiskBody, TestInit, DownNew, Schedule, IssueBusy, Issue, IssueRefused
  <2>4. CASE Complete
    BY <2>4 DEF Complete
  <2>5. CASE UNCHANGED vars
    BY <2>5 DEF vars, managerVars
  <2> QED
    BY <2>1, <2>2, <2>3, <2>4, <2>5 DEF Next, DispatcherIdles
<1> QED
  BY InvHolds, <1>1, <1>2, PTL DEF Spec

=============================================================================
