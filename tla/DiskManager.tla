----------------------------- MODULE DiskManager -----------------------------
(***************************************************************************)
(* The disk manager of src/ppos_disk.c over the simulated disk and the     *)
(* kernel's semaphores and mutexes.  Client tasks call disk_block_read and *)
(* disk_block_write; the disk task picks requests and starts transfers;    *)
(* the signal that ends a transfer wakes whoever waits on treatedReqSem;   *)
(* the exit of main runs finishDiskTask.                                   *)
(*                                                                         *)
(* A step is the code between two kernel primitives, the later one         *)
(* included: between two such steps the kernel may dispatch any other      *)
(* task.  A request is identified by its caller and the index of the call  *)
(* in the caller's program, which stand for its node in the list.          *)
(***************************************************************************)
EXTENDS PPOSSync, DiskDevice, DiskSched, FiniteSets

CONSTANTS Clients,     \* tasks that use the disk
          DiskTask,    \* disk.task
          Program,     \* Program[c]: the calls client c makes, in order
          NoRequest,   \* no node
          Disk0,       \* the disk file and the buffers at the start
          Memory0,
          MainJoins,   \* main joins every client before it exits
          ReuseFreed   \* malloc may hand createNode the node removeNode just freed

Ops == [op : {"read", "write"}, block : Int, buffer : Buffers \cup {NULL}]

Requests == UNION {{[task |-> c, ip |-> n] : n \in DOMAIN Program[c]} : c \in Clients}

ASSUME ManagerAssumption ==
  /\ IsFiniteSet(Clients)
  /\ DiskTask \notin Clients
  /\ Program \in [Clients -> Seq(Ops)]
  /\ \A c \in Clients : Program[c] # <<>>
  /\ NoRequest \notin Requests
  /\ Disk0 \in [Blocks -> Data]
  /\ Memory0 \in [Buffers -> Data]
  /\ MainJoins \in BOOLEAN
  /\ ReuseFreed \in BOOLEAN

VARIABLES list,        \* gpstRequestList, first node first
          picked,      \* pstNextReq of diskScheduler: dangling once removeNode has freed it
          iCurrBlock,  \* disk.iCurrBlock
          init,        \* disk.init
          pc,          \* pc[c]: the next statement of client c
          ip,          \* ip[c]: index of the current call of client c
          diskPC,      \* the next statement of the disk task
          main,        \* "running" or "exited"
          inService,   \* history: the request of the scheduled transfer
          served       \* history: the requests whose transfer has happened

managerVars == <<list, picked, iCurrBlock, init, pc, ip, diskPC, main, inService, served>>
vars == <<syncVars, deviceVars, managerVars>>

Mutexes == {"mRequest", "queueMutex"}
Semaphores == {"newReqsSem", "treatedReqSem"}
Tasks == Clients \cup {DiskTask}

Param(r) == Program[r.task][r.ip]
CurrentRequest(c) == [task |-> c, ip |-> ip[c]]
Valid(r) == Param(r).block \in Blocks /\ Param(r).buffer # NULL

TypeOK ==
  /\ DeviceTypeOK
  /\ value \in [Mutexes \cup Semaphores -> Int]
  /\ waiting \in [Mutexes \cup Semaphores -> Seq(Tasks)]
  /\ list \in Seq(Requests)
  /\ picked \in Requests \cup {NoRequest}
  /\ diskPC = "issue" => picked \in Requests
  /\ iCurrBlock \in Int
  /\ init \in BOOLEAN
  /\ pc \in [Clients -> {"call", "insert", "unlockQueue", "lock", "signal", "await", "unlock", "done"}]
  /\ ip \in [Clients -> Nat \ {0}]
  /\ \A c \in Clients : pc[c] # "done" => ip[c] \in DOMAIN Program[c]
  /\ diskPC \in {"loop", "down", "schedule", "issue", "exited"}
  /\ main \in {"running", "exited"}
  /\ inService \in Requests \cup {NoRequest}
  /\ status # "idle" => inService \in Requests
  /\ served \subseteq Requests

\* The state disk_mgr_init leaves when it returns 0, every client created.
Init ==
  /\ DeviceInit(Disk0, Memory0)
  /\ SyncInit([o \in Mutexes \cup Semaphores |-> IF o \in Mutexes THEN 1 ELSE 0])
  /\ list = <<>>
  /\ picked = NoRequest
  /\ iCurrBlock = 0
  /\ init = TRUE
  /\ pc = [c \in Clients |-> "call"]
  /\ ip = [c \in Clients |-> 1]
  /\ diskPC = "loop"
  /\ main = "running"
  /\ inService = NoRequest
  /\ served = {}

------------------------------------------------------------------------------
(* disk_block_read, disk_block_write and the addNodeInFront they call *)

At(c, label) == pc[c] = label /\ ~Blocked(c)
Goto(c, label) == pc' = [pc EXCEPT ![c] = label]

\* addNodeInFront: take queueMutex.
LockQueue(c) ==
  /\ At(c, "call")
  /\ MutexLock("queueMutex", c)
  /\ Goto(c, "insert")
  /\ UNCHANGED <<deviceVars, list, picked, iCurrBlock, init, ip, diskPC, main, inService, served>>

\* A bug to catch: the list's only node is the new one, as when firstNode is not tested.
Mut_InsertAsOnly(c) ==
  /\ At(c, "insert")
  /\ list' = <<CurrentRequest(c)>>
  /\ Goto(c, "unlockQueue")
  /\ UNCHANGED <<syncVars, deviceVars, picked, iCurrBlock, init, ip, diskPC, main, inService, served>>

\* addNodeInFront: the new node becomes the last one.  If diskScheduler is
\* between removeNode and its last use of the node, malloc may return that node.
Insert(c) ==
  /\ At(c, "insert")
  /\ list' = Append(list, CurrentRequest(c))
  /\ \/ picked' = picked
     \/ ReuseFreed /\ diskPC = "issue" /\ picked' = CurrentRequest(c)
  /\ Goto(c, "unlockQueue")
  /\ UNCHANGED <<syncVars, deviceVars, iCurrBlock, init, ip, diskPC, main, inService, served>>

UnlockQueue(c) ==
  /\ At(c, "unlockQueue")
  /\ MutexUnlock("queueMutex")
  /\ Goto(c, "lock")
  /\ UNCHANGED <<deviceVars, list, picked, iCurrBlock, init, ip, diskPC, main, inService, served>>

\* A bug to catch: mRequest is not taken.
Mut_NoLockRequest(c) ==
  /\ At(c, "lock")
  /\ Goto(c, "signal")
  /\ UNCHANGED <<syncVars, deviceVars, list, picked, iCurrBlock, init, ip, diskPC, main, inService, served>>

LockRequest(c) ==
  /\ At(c, "lock")
  /\ MutexLock("mRequest", c)
  /\ Goto(c, "signal")
  /\ UNCHANGED <<deviceVars, list, picked, iCurrBlock, init, ip, diskPC, main, inService, served>>

SignalNew(c) ==
  /\ At(c, "signal")
  /\ SemUp("newReqsSem")
  /\ Goto(c, "await")
  /\ UNCHANGED <<deviceVars, list, picked, iCurrBlock, init, ip, diskPC, main, inService, served>>

\* A bug to catch: the caller does not wait for its turn to be over.
Mut_NoAwait(c) ==
  /\ At(c, "await")
  /\ Goto(c, "unlock")
  /\ UNCHANGED <<syncVars, deviceVars, list, picked, iCurrBlock, init, ip, diskPC, main, inService, served>>

AwaitTreated(c) ==
  /\ At(c, "await")
  /\ SemDown("treatedReqSem", c)
  /\ Goto(c, "unlock")
  /\ UNCHANGED <<deviceVars, list, picked, iCurrBlock, init, ip, diskPC, main, inService, served>>

\* A bug to catch: a call too many.
Mut_UnlockRequestOnceMore(c) ==
  /\ At(c, "unlock")
  /\ MutexUnlock("mRequest")
  /\ ip' = [ip EXCEPT ![c] = @ + 1]
  /\ Goto(c, IF ip[c] <= Len(Program[c]) THEN "call" ELSE "done")
  /\ UNCHANGED <<deviceVars, list, picked, iCurrBlock, init, diskPC, main, inService, served>>

\* The call returns 0, whatever became of the request.
UnlockRequest(c) ==
  /\ At(c, "unlock")
  /\ MutexUnlock("mRequest")
  /\ ip' = [ip EXCEPT ![c] = @ + 1]
  /\ Goto(c, IF ip[c] < Len(Program[c]) THEN "call" ELSE "done")
  /\ UNCHANGED <<deviceVars, list, picked, iCurrBlock, init, diskPC, main, inService, served>>

Client(c) ==
  \/ LockQueue(c) \/ Insert(c) \/ UnlockQueue(c)
  \/ LockRequest(c) \/ SignalNew(c) \/ AwaitTreated(c) \/ UnlockRequest(c)

------------------------------------------------------------------------------
(* diskTaskBody and diskScheduler *)

DiskAt(label) == diskPC = label /\ ~Blocked(DiskTask)

\* diskTaskBody: the test of the loop; past it, task_exit.
TestInit ==
  /\ DiskAt("loop")
  /\ diskPC' = IF init THEN "down" ELSE "exited"
  /\ UNCHANGED <<syncVars, deviceVars, list, picked, iCurrBlock, init, pc, ip, main, inService, served>>

DownNew ==
  /\ DiskAt("down")
  /\ SemDown("newReqsSem", DiskTask)
  /\ diskPC' = "schedule"
  /\ UNCHANGED <<deviceVars, list, picked, iCurrBlock, init, pc, ip, main, inService, served>>

\* Bugs to catch: removeNode always takes the first node out; it is not called.
Mut_WithoutFirst(i) == Tail(list)
Mut_WithoutNone(i) == list

\* removeNode: the list when its i-th node has been unlinked.
Without(i) == RemoveAt(list, i)

\* A bug to catch: with nothing to do, the disk task waits again before it tests disk.init.
Mut_ScheduleWaitsAgain ==
  /\ DiskAt("schedule")
  /\ IF list = <<>>
     THEN /\ diskPC' = "down"
          /\ UNCHANGED <<list, picked>>
     ELSE \E i \in DOMAIN list :
            /\ IsNearest(i, [j \in DOMAIN list |-> Param(list[j]).block], iCurrBlock)
            /\ diskPC' = "issue"
            /\ picked' = list[i]
            /\ list' = Without(i)
  /\ UNCHANGED <<syncVars, deviceVars, iCurrBlock, init, pc, ip, main, inService, served>>

\* diskScheduler, first half: nothing to do, or the node sstfSched picks leaves the list.
Schedule ==
  /\ DiskAt("schedule")
  /\ IF list = <<>>
     THEN /\ diskPC' = "loop"
          /\ UNCHANGED <<list, picked>>
     ELSE \E i \in DOMAIN list :
            /\ IsNearest(i, [j \in DOMAIN list |-> Param(list[j]).block], iCurrBlock)
            /\ diskPC' = "issue"
            /\ picked' = list[i]
            /\ list' = Without(i)
  /\ UNCHANGED <<syncVars, deviceVars, iCurrBlock, init, pc, ip, main, inService, served>>

\* diskScheduler, second half, on a busy disk: the request that was taken out is dropped.
IssueBusy ==
  /\ DiskAt("issue")
  /\ status # "idle"
  /\ diskPC' = "loop"
  /\ UNCHANGED <<syncVars, deviceVars, list, picked, iCurrBlock, init, pc, ip, main, inService, served>>

\* A bug to catch: the head position is not kept.
Mut_IssueKeepsHead ==
  /\ DiskAt("issue")
  /\ DiskCmd(Param(picked).op, Param(picked).block, Param(picked).buffer)
  /\ inService' = picked
  /\ diskPC' = "loop"
  /\ UNCHANGED <<syncVars, list, picked, iCurrBlock, init, pc, ip, main, served>>

\* diskScheduler, second half, on an idle disk: schedule the transfer.
Issue ==
  /\ DiskAt("issue")
  /\ DiskCmd(Param(picked).op, Param(picked).block, Param(picked).buffer)
  /\ iCurrBlock' = Param(picked).block
  /\ inService' = picked
  /\ diskPC' = "loop"
  /\ UNCHANGED <<syncVars, list, picked, init, pc, ip, main, served>>

\* A bug to catch: the caller of a refused request is not released.
Mut_IssueRefusedSilently ==
  /\ DiskAt("issue")
  /\ status = "idle"
  /\ ~Accepts(Param(picked).block, Param(picked).buffer)
  /\ iCurrBlock' = Param(picked).block
  /\ diskPC' = "loop"
  /\ UNCHANGED <<syncVars, deviceVars, list, picked, init, pc, ip, main, inService, served>>

\* diskScheduler, second half, when disk_cmd refuses the request: release its caller.
IssueRefused ==
  /\ DiskAt("issue")
  /\ status = "idle"
  /\ ~Accepts(Param(picked).block, Param(picked).buffer)
  /\ iCurrBlock' = Param(picked).block
  /\ SemUp("treatedReqSem")
  /\ diskPC' = "loop"
  /\ UNCHANGED <<deviceVars, list, picked, init, pc, ip, main, inService, served>>

DiskBody == TestInit \/ DownNew \/ Schedule \/ IssueBusy \/ Issue \/ IssueRefused

------------------------------------------------------------------------------
(* The end of a transfer and the exit of main *)

\* disk_sighandle raises SIGUSR1: memActionFinished runs before it returns.
Complete ==
  /\ DiskSigHandle
  /\ SemUp("treatedReqSem")
  /\ served' = served \cup {inService}
  /\ inService' = NoRequest
  /\ UNCHANGED <<list, picked, iCurrBlock, init, pc, ip, diskPC, main>>

AllDone == \A c \in Clients : pc[c] = "done"

\* task_exit of main: after_task_exit prints, and calls finishDiskTask.
MainExit ==
  /\ main = "running"
  /\ MainJoins => AllDone
  /\ main' = "exited"
  /\ IF list # <<>>
     THEN /\ list' = <<>>
          /\ init' = FALSE
          /\ SemUp("newReqsSem")
     ELSE UNCHANGED <<list, init, syncVars>>
  /\ UNCHANGED <<deviceVars, picked, iCurrBlock, pc, ip, diskPC, inService, served>>

\* Every user task is gone: the dispatcher keeps polling for the disk task.
DispatcherIdles ==
  /\ AllDone
  /\ main = "exited"
  /\ UNCHANGED vars

Next == (\E c \in Clients : Client(c)) \/ DiskBody \/ Complete \/ MainExit \/ DispatcherIdles

\* The dispatcher ages every ready task, so each runs again; the timer of a transfer fires.
Fairness ==
  /\ \A c \in Clients : WF_vars(Client(c))
  /\ WF_vars(DiskBody)
  /\ WF_vars(Complete)

Spec == Init /\ [][Next]_vars /\ Fairness

------------------------------------------------------------------------------
(* Properties *)

Count(b) == IF b THEN 1 ELSE 0
Tokens(s) == IF value[s] > 0 THEN value[s] ELSE 0

\* Callers that have raised newReqsSem and not been released yet.
InFlight == {c \in Clients : pc[c] = "await" \/ (pc[c] = "unlock" /\ Blocked(c))}

\* Callers whose request is in the list and that have not raised newReqsSem for it.
Unsignalled == {c \in Clients : pc[c] \in {"unlockQueue", "lock", "signal"}}

\* The handshake of README.md: one sem_up(newReqsSem), one treatment by the disk task,
\* one transfer, one sem_up(treatedReqSem), one release.  While the manager runs, the
\* token is in exactly one of these places if a caller is in flight and in none
\* otherwise, and mRequest lets only one caller be in flight.
OneTokenInFlight ==
  init => /\ Cardinality(InFlight) <= 1
          /\ Cardinality(InFlight) =
               Tokens("newReqsSem")
               + Count(diskPC \in {"schedule", "issue"} /\ ~Blocked(DiskTask))
               + Count(status # "idle")
               + Tokens("treatedReqSem")

\* Every request in the list has a wake-up of the disk task under way or a caller that
\* will send one, and no wake-up finds the list empty, although requests are inserted
\* under one mutex and signalled under another, and one caller's may be treated on
\* another's signal.
ListBalance ==
  init => Len(list) = Cardinality(Unsignalled) + Tokens("newReqsSem")
                      + Count(diskPC = "schedule" /\ ~Blocked(DiskTask))

\* While the manager runs, diskScheduler's test of disk.status never fails, so no
\* request is dropped there with its caller left asleep.
NeverIssuesBusy == init /\ diskPC = "issue" => status = "idle"

\* When every call has returned, each valid request was transferred.
AllServed == AllDone => served = {r \in Requests : Valid(r)}

\* A caller that is let out of a valid request finds its own transfer done (disk.h:
\* the signal wakes the task that asked for the operation).
WokenIsServed ==
  \A c \in Clients :
    pc[c] = "unlock" /\ ~Blocked(c) /\ Valid(CurrentRequest(c)) => CurrentRequest(c) \in served

\* As long as no request is refused (the manager then remembers a block where the arm
\* has not been): shortest seek time first, judged by the arm of the device and not by
\* iCurrBlock.  No pending request is nearer to it than the one picked.
SeekIsShortest ==
  [][diskPC = "schedule" /\ diskPC' = "issue" =>
       \A i \in DOMAIN list :
         Distance(Param(picked').block, prevBlock) <= Distance(Param(list[i]).block, prevBlock)]_vars

\* Every call of disk_block_read or disk_block_write returns, unless finishDiskTask clears
\* disk.init before.
EveryCallReturns == \A c \in Clients : pc[c] = "insert" ~> pc[c] \in {"call", "done"} \/ ~init

\* Once finishDiskTask has cleared disk.init the disk task leaves its loop and exits.
ClearingInitEndsDiskTask == ~init ~> diskPC = "exited"

\* src/ppos_disk.h: finishDiskTask, which the exit of main calls, ends the disk task.
FinishEndsDiskTask == main = "exited" ~> diskPC = "exited"

------------------------------------------------------------------------------
(* Refinement *)

\* With a single client a call is an atomic transfer between its invocation and return.
Inside(c) == pc[c] \notin {"call", "insert", "done"}

OneCaller ==
  INSTANCE BlockDevice WITH
    disk <- content,
    call <- ip,
    phase <- [c \in Clients |-> IF ~Inside(c) THEN "out"
                                ELSE IF CurrentRequest(c) \in served THEN "transferred" ELSE "called"]

ImplementsBlockDevice == OneCaller!Spec

\* With any clients, and as long as main waits for them, each request is treated exactly
\* once and releases exactly one caller.
AnyCallers ==
  INSTANCE DiskService WITH
    disk <- content,
    call <- ip,
    inside <- {c \in Clients : Inside(c)},
    pending <- Range(list) \cup (IF diskPC = "issue" THEN {picked} ELSE {})
                 \cup (IF status # "idle" THEN {inService} ELSE {}),
    credit <- Tokens("treatedReqSem") + Cardinality({c \in Clients : pc[c] = "unlock" /\ ~Blocked(c)})

ImplementsDiskService == AnyCallers!Spec

=============================================================================
