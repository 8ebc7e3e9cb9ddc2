-------------------------- MODULE DiskServiceProofs --------------------------
(***************************************************************************)
(* DiskManager serves every request and implements DiskService, for any    *)
(* clients, programs and disks, as long as main joins its clients and a    *)
(* freed node is not reused while diskScheduler still uses it; for a       *)
(* single client it implements BlockDevice.                                *)
(*                                                                         *)
(* The invariant adds to the one of DiskManagerProofs where each request   *)
(* is: not made yet, pending in exactly one of three places (the list, the *)
(* disk task's hands, the device), or served.                              *)
(***************************************************************************)
EXTENDS DiskManagerProofs

\* The caller has inserted the request.
Made(r) == r.ip < ip[r.task] \/ (r.ip = ip[r.task] /\ Inside(r.task))

InHand == IF diskPC = "issue" THEN {picked} ELSE {}
OnDevice == IF status # "idle" THEN {inService} ELSE {}
Pending == Range(list) \cup InHand \cup OnDevice

\* A pending request was made, and is in one place only.
PendingOK ==
  /\ \A r \in Pending : Made(r)
  /\ IsInjective(list)
  /\ InHand \cap Range(list) = {}
  /\ OnDevice \cap Range(list) = {}

\* The device holds the parameters of the request it serves.
TransferOK ==
  status # "idle" => /\ status = Param(inService).op
                     /\ devBuffer = Param(inService).buffer
                     /\ nextBlock = Param(inService).block

\* No valid request is lost, no other one is served, and none is served twice.
ServedOK ==
  /\ \A r \in Requests : Made(r) /\ Valid(r) => r \in served \cup Pending
  /\ \A r \in served : Valid(r) /\ Made(r) /\ r \notin Pending
  /\ \A c \in Clients : pc[c] = "done" => ip[c] > Len(Program[c])

SInv == init /\ PendingOK /\ TransferOK /\ ServedOK

SingleCaller == \A c, d \in Clients : c = d

\* No insertion can get the node that diskScheduler still uses.
NodeKept == ~ReuseFreed \/ SingleCaller

------------------------------------------------------------------------------
(* The invariant is inductive *)

\* A request is one call of one client's program.
LEMMA RequestParts ==
  ASSUME NEW r \in Requests
  PROVE  /\ r.task \in Clients
         /\ r.ip \in 1 .. Len(Program[r.task])
         /\ r = [task |-> r.task, ip |-> r.ip]
<1>1. PICK c \in Clients : \E n \in DOMAIN Program[c] : r = [task |-> c, ip |-> n]
  BY DEF Requests
<1>2. PICK n \in DOMAIN Program[c] : r = [task |-> c, ip |-> n]
  BY <1>1
<1> QED
  BY <1>2, ManagerAssumption

\* Only requests are pending or served.
LEMMA PendingType ==
  ASSUME TypeOK
  PROVE  Pending \subseteq Requests /\ served \subseteq Requests
<1>1. Range(list) \subseteq Requests
  BY DEF TypeOK, Range
<1> QED
  BY <1>1 DEF TypeOK, Pending, InHand, OnDevice

\* Steps that move no request.
LEMMA ServiceKept ==
  ASSUME TypeOK, SInv, UNCHANGED <<list, picked, init, inService, served, status, devBuffer, nextBlock>>,
         diskPC' = "issue" <=> diskPC = "issue",
         \A r \in Requests : Made(r)' <=> Made(r),
         \A c \in Clients : pc'[c] = "done" => ip'[c] > Len(Program[c])
  PROVE  SInv' /\ Pending' = Pending
<1>1. Pending' = Pending /\ InHand' = InHand /\ OnDevice' = OnDevice
  BY DEF Pending, InHand, OnDevice
<1>2. PendingOK'
  BY <1>1, PendingType DEF SInv, PendingOK
<1>3. TransferOK'
  BY DEF SInv, TransferOK, Param
<1>4. ServedOK'
  BY <1>1, PendingType DEF SInv, ServedOK, Valid, Param
<1> QED
  BY <1>1, <1>2, <1>3, <1>4 DEF SInv

\* A step of a client that neither inserts a request nor ends a call.
LEMMA ClientServiceKept ==
  ASSUME TypeOK, SInv, NEW c \in Clients, NEW label,
         pc' = [pc EXCEPT ![c] = label], label # "done",
         label \in {"call", "insert", "done"} <=> pc[c] \in {"call", "insert", "done"},
         UNCHANGED <<ip, diskPC, list, picked, init, inService, served, status, devBuffer, nextBlock>>
  PROVE  SInv' /\ Pending' = Pending
<1>1. \A d \in Clients : Inside(d)' <=> Inside(d)
  BY DEF TypeOK, Inside
<1>2. \A r \in Requests : Made(r)' <=> Made(r)
  BY <1>1, RequestParts DEF Made
<1>3. \A d \in Clients : pc'[d] = "done" => ip'[d] > Len(Program[d])
  BY DEF TypeOK, SInv, ServedOK
<1> QED
  BY <1>2, <1>3, ServiceKept

\* addNodeInFront makes the current request, which was not made before.
LEMMA InsertService ==
  ASSUME TypeOK, SInv, ~(ReuseFreed /\ diskPC = "issue"), NEW c \in Clients, Insert(c)
  PROVE  SInv' /\ Pending' = Pending \cup {CurrentRequest(c)}
<1> DEFINE new == CurrentRequest(c)
<1>1. /\ pc[c] = "insert" /\ list' = Append(list, new) /\ picked' = picked
      /\ pc' = [pc EXCEPT ![c] = "unlockQueue"]
      /\ UNCHANGED <<diskPC, ip, init, inService, served, status, devBuffer, nextBlock>>
  BY DEF Insert, At, Goto, deviceVars
<1>2. new \in Requests
  BY <1>1, CurrentIsRequest
<1>3. ~Made(new)
  BY <1>1 DEF Made, Inside, CurrentRequest, TypeOK
<1>4. \A r \in Requests : Made(r)' <=> Made(r) \/ r = new
  <2>1. \A d \in Clients : Inside(d)' <=> Inside(d) \/ d = c
    BY <1>1 DEF TypeOK, Inside
  <2>2. ~Inside(c)
    BY <1>1 DEF Inside
  <2>3. new.task = c /\ new.ip = ip[c]
    BY DEF CurrentRequest
  <2>4. \A r \in Requests : r = new <=> r.task = c /\ r.ip = ip[c]
    BY RequestParts DEF CurrentRequest
  <2> HIDE DEF new
  <2> QED
    BY <1>1, <2>1, <2>2, <2>4, RequestParts DEF Made
<1>5. new \notin Pending /\ new \notin served
  BY <1>3 DEF SInv, PendingOK, ServedOK
<1> HIDE DEF new
<1>6. Range(list') = Range(list) \cup {new} /\ InHand' = InHand /\ OnDevice' = OnDevice
  BY <1>1, <1>2, AppendRange DEF TypeOK, InHand, OnDevice
<1>7. Pending' = Pending \cup {new}
  BY <1>6 DEF Pending
<1>8. IsInjective(list')
  BY <1>1, <1>2, <1>5, AppendNew DEF TypeOK, SInv, PendingOK, Pending
<1>9. PendingOK'
  <2>1. \A r \in Pending' : Made(r)'
    BY <1>2, <1>4, <1>7, PendingType DEF SInv, PendingOK
  <2>2. InHand' \cap Range(list') = {} /\ OnDevice' \cap Range(list') = {}
    BY <1>5, <1>6 DEF SInv, PendingOK, Pending
  <2> QED
    BY <1>8, <2>1, <2>2 DEF PendingOK
<1>10. TransferOK'
  BY <1>1 DEF SInv, TransferOK, Param
<1>11. ServedOK'
  <2>1. \A d \in Clients : pc'[d] = "done" => ip'[d] > Len(Program[d])
    BY <1>1 DEF TypeOK, SInv, ServedOK
  <2> QED
    BY <1>1, <1>4, <1>5, <1>7, <2>1, PendingType DEF SInv, ServedOK, Valid, Param
<1> QED
  BY <1>1, <1>7, <1>9, <1>10, <1>11 DEF SInv, new

\* The end of a call leaves the requests made as they are.
LEMMA UnlockRequestService ==
  ASSUME TypeOK, SInv, NEW c \in Clients, UnlockRequest(c)
  PROVE  SInv' /\ Pending' = Pending
<1>1. /\ pc[c] = "unlock"
      /\ ip' = [ip EXCEPT ![c] = @ + 1]
      /\ pc' = [pc EXCEPT ![c] = IF ip[c] < Len(Program[c]) THEN "call" ELSE "done"]
      /\ UNCHANGED <<diskPC, list, picked, init, inService, served, status, devBuffer, nextBlock>>
  BY DEF UnlockRequest, At, Goto, deviceVars
<1>2. /\ Inside(c) /\ ~Inside(c)'
      /\ ip[c] \in Nat /\ ip'[c] = ip[c] + 1
      /\ \A d \in Clients \ {c} : ip'[d] = ip[d] /\ (Inside(d)' <=> Inside(d))
      /\ Len(Program[c]) \in Nat
  BY <1>1, ManagerAssumption DEF TypeOK, Inside
<1>3. \A r \in Requests : Made(r)' <=> Made(r)
  <2> SUFFICES ASSUME NEW r \in Requests
               PROVE  Made(r)' <=> Made(r)
    OBVIOUS
  <2>1. r.task \in Clients /\ r.ip \in Int
    BY RequestParts, ManagerAssumption
  <2> QED
    BY <1>2, <2>1 DEF Made
<1>4. \A d \in Clients : pc'[d] = "done" => ip'[d] > Len(Program[d])
  BY <1>1, <1>2 DEF TypeOK, SInv, ServedOK
<1> QED
  BY <1>1, <1>3, <1>4, ServiceKept

\* What the clients do not do makes no request.
LEMMA MadeKept ==
  ASSUME UNCHANGED <<pc, ip>>
  PROVE  \A r \in Requests : Made(r)' <=> Made(r)
BY DEF Made, Inside

\* diskScheduler moves one request from the list into the disk task's hands.
LEMMA ScheduleService ==
  ASSUME TypeOK, SInv, Schedule
  PROVE  SInv' /\ Pending' = Pending
<1>1. /\ diskPC = "schedule"
      /\ UNCHANGED <<pc, ip, init, inService, served, status, devBuffer, nextBlock>>
  BY DEF Schedule, DiskAt, deviceVars
<1>2. CASE list = <<>>
  <2>1. UNCHANGED <<list, picked>> /\ diskPC' = "loop"
    BY <1>2 DEF Schedule
  <2> QED
    BY <1>1, <2>1, MadeKept, ServiceKept DEF SInv, ServedOK
<1>3. CASE list # <<>>
  <2>1. PICK i \in DOMAIN list : picked' = list[i] /\ list' = RemoveAt(list, i) /\ diskPC' = "issue"
    BY <1>3 DEF Schedule, Without
  <2>2. /\ Range(list) = Range(list') \cup {picked'}
        /\ IsInjective(list') /\ picked' \notin Range(list')
    <3>1. list[i] \in Range(list)
      BY <2>1 DEF Range
    <3> QED
      BY <2>1, <3>1, RemoveAtProperties DEF TypeOK, SInv, PendingOK
  <2>3. InHand = {} /\ InHand' = {picked'} /\ OnDevice' = OnDevice
    BY <1>1, <2>1 DEF InHand, OnDevice
  <2>4. Pending' = Pending
    BY <2>2, <2>3 DEF Pending
  <2>5. PendingOK'
    BY <1>1, <2>2, <2>3, <2>4, MadeKept, PendingType DEF SInv, PendingOK
  <2>6. TransferOK'
    BY <1>1 DEF SInv, TransferOK, Param
  <2>7. ServedOK'
    BY <1>1, <2>4, MadeKept, PendingType DEF SInv, ServedOK, Valid, Param
  <2> QED
    BY <1>1, <2>4, <2>5, <2>6, <2>7 DEF SInv
<1> QED
  BY <1>2, <1>3

\* disk_cmd moves the request in hand to the device.
LEMMA IssueService ==
  ASSUME TypeOK, SInv, Issue
  PROVE  SInv' /\ Pending' = Pending
<1>1. /\ diskPC = "issue" /\ status = "idle" /\ diskPC' = "loop" /\ inService' = picked
      /\ status' = Param(picked).op
      /\ devBuffer' = Param(picked).buffer
      /\ nextBlock' = Param(picked).block
      /\ UNCHANGED <<pc, ip, list, picked, init, served>>
  BY DEF Issue, DiskAt, DiskCmd, Accepts
<1>2. picked \in Requests
  BY <1>1 DEF TypeOK
<1>3. status' # "idle"
  BY <1>1, <1>2, Parameters
<1>4. InHand = {picked} /\ InHand' = {} /\ OnDevice = {} /\ OnDevice' = {picked}
  BY <1>1, <1>3 DEF InHand, OnDevice
<1>5. Pending' = Pending
  BY <1>1, <1>4 DEF Pending
<1>6. PendingOK'
  BY <1>1, <1>4, <1>5, MadeKept, PendingType DEF SInv, PendingOK
<1>7. TransferOK'
  BY <1>1 DEF TransferOK, Param
<1>8. ServedOK'
  BY <1>1, <1>5, MadeKept, PendingType DEF SInv, ServedOK, Valid, Param
<1> QED
  BY <1>1, <1>5, <1>6, <1>7, <1>8 DEF SInv

\* A refused request names no block or no buffer, and leaves the disk task's hands.
LEMMA RefusedService ==
  ASSUME TypeOK, SInv, IssueRefused
  PROVE  /\ SInv'
         /\ picked \in Pending /\ Pending' = Pending \ {picked}
         /\ picked \in Requests /\ ~Valid(picked)
<1>1. /\ diskPC = "issue" /\ status = "idle" /\ diskPC' = "loop"
      /\ ~Accepts(Param(picked).block, Param(picked).buffer)
      /\ UNCHANGED <<pc, ip, list, picked, init, inService, served, status, devBuffer, nextBlock>>
  BY DEF IssueRefused, DiskAt, deviceVars
<1>2. picked \in Requests /\ ~Valid(picked)
  BY <1>1 DEF TypeOK, Accepts, Valid
<1>3. InHand = {picked} /\ InHand' = {} /\ OnDevice = {} /\ OnDevice' = {}
  BY <1>1 DEF InHand, OnDevice
<1>4. picked \in Pending /\ Pending' = Pending \ {picked}
  BY <1>1, <1>3 DEF Pending, SInv, PendingOK
<1>5. PendingOK'
  BY <1>1, <1>3, <1>4, MadeKept, PendingType DEF SInv, PendingOK
<1>6. TransferOK'
  BY <1>1 DEF TransferOK
<1>7. ServedOK'
  BY <1>1, <1>2, <1>4, MadeKept, PendingType DEF SInv, ServedOK, Valid, Param
<1> QED
  BY <1>1, <1>2, <1>4, <1>5, <1>6, <1>7 DEF SInv

\* A transfer ends: its request, a valid one, leaves the device.
LEMMA CompleteService ==
  ASSUME TypeOK, SInv, Complete, diskPC = "issue" => status = "idle"
  PROVE  /\ SInv'
         /\ inService \in Pending /\ Pending' = Pending \ {inService}
         /\ inService \in Requests /\ Valid(inService)
<1>1. /\ status # "idle" /\ status' = "idle" /\ served' = served \cup {inService}
      /\ UNCHANGED <<pc, ip, list, picked, init, diskPC>>
  BY DEF Complete, DiskSigHandle
<1>2. inService \in Requests
  BY <1>1 DEF TypeOK
<1>3. Valid(inService)
  <2>1. nextBlock \in Blocks /\ devBuffer \in Buffers
    BY <1>1 DEF TypeOK, DeviceTypeOK
  <2> QED
    BY <1>1, <2>1, DeviceAssumption DEF SInv, TransferOK, Valid
<1>4. InHand = {} /\ InHand' = {} /\ OnDevice = {inService} /\ OnDevice' = {}
  BY <1>1 DEF InHand, OnDevice
<1>5. inService \in Pending /\ Pending' = Pending \ {inService} /\ Made(inService)
  BY <1>1, <1>4 DEF Pending, SInv, PendingOK
<1>6. PendingOK'
  BY <1>1, <1>4, <1>5, MadeKept, PendingType DEF SInv, PendingOK
<1>7. TransferOK'
  BY <1>1 DEF TransferOK
<1>8. ServedOK'
  BY <1>1, <1>2, <1>3, <1>5, MadeKept, PendingType DEF SInv, ServedOK, Valid, Param
<1> QED
  BY <1>1, <1>2, <1>3, <1>5, <1>6, <1>7, <1>8 DEF SInv

\* While diskScheduler uses a node, a single caller is waiting and cannot insert another.
LEMMA NobodyInserts ==
  ASSUME IInv, SInv, NodeKept, NEW c \in Clients, Insert(c)
  PROVE  ~(ReuseFreed /\ diskPC = "issue")
<1> SUFFICES ASSUME SingleCaller, diskPC = "issue"
             PROVE  FALSE
  BY DEF NodeKept
<1>1. AtWork
  BY DEF IInv, QueuesOK, NewQueueOK, AtWork, DiskAwake
<1>2. Flights = 1
  <2>1. Tokens("newReqsSem") \in Nat /\ Tokens("treatedReqSem") \in Nat
    BY ValuesAreIntegers DEF IInv, Tokens
  <2> QED
    BY <1>1, <2>1 DEF IInv, SInv, TokenOK, Work, Transfers, Flights, Count
<1>3. Flying(c)
  BY <1>2 DEF Flights, Count, InFlightNow, SingleCaller
<1> QED
  BY <1>3 DEF Flying, Insert, At

\* The other steps of the disk task, and the exit of main, move no request.
LEMMA OtherService ==
  ASSUME IInv, SInv, MainJoins, TestInit \/ DownNew \/ MainExit
  PROVE  SInv' /\ Pending' = Pending
<1>1. UNCHANGED <<pc, ip, picked, inService, served, status, devBuffer, nextBlock>>
  BY DEF TestInit, DownNew, MainExit, deviceVars
<1>2. diskPC' = "issue" <=> diskPC = "issue"
  BY DEF TestInit, DownNew, MainExit, DiskAt
<1>3. UNCHANGED <<list, init>>
  BY NothingLeft DEF SInv, TestInit, DownNew, MainExit
<1> QED
  BY <1>1, <1>2, <1>3, MadeKept, ServiceKept DEF IInv, SInv, ServedOK

\* The steps of a call between the insertion and the release move no request.
LEMMA ClientService ==
  ASSUME TypeOK, SInv, NEW c \in Clients,
         LockQueue(c) \/ UnlockQueue(c) \/ LockRequest(c) \/ SignalNew(c) \/ AwaitTreated(c)
  PROVE  SInv' /\ Pending' = Pending
<1>1. UNCHANGED <<ip, diskPC, list, picked, init, inService, served, status, devBuffer, nextBlock>>
  BY DEF LockQueue, UnlockQueue, LockRequest, SignalNew, AwaitTreated, deviceVars
<1>2. PICK label : /\ pc' = [pc EXCEPT ![c] = label] /\ label # "done"
                   /\ label \in {"call", "insert", "done"} <=> pc[c] \in {"call", "insert", "done"}
  BY DEF LockQueue, UnlockQueue, LockRequest, SignalNew, AwaitTreated, At, Goto
<1> QED
  BY <1>1, <1>2, ClientServiceKept

\* No request has been made when disk_mgr_init returns.
LEMMA InitService == Init => SInv
<1> SUFFICES ASSUME Init PROVE SInv
  OBVIOUS
<1>1. /\ init /\ list = <<>> /\ diskPC = "loop" /\ status = "idle" /\ served = {}
      /\ \A c \in Clients : pc[c] = "call" /\ ip[c] = 1
  BY DEF Init, DeviceInit
<1>2. Pending = {}
  BY <1>1, ShortQueues DEF Pending, InHand, OnDevice
<1>3. PendingOK
  BY <1>1, <1>2, ShortQueues DEF PendingOK, Pending
<1>4. \A r \in Requests : ~Made(r)
  BY <1>1, RequestParts, ManagerAssumption DEF Made, Inside
<1> QED
  BY <1>1, <1>2, <1>3, <1>4 DEF SInv, TransferOK, ServedOK

\* Every step, of a client, the disk task, the signal handler or main, keeps the invariant.
LEMMA NextService ==
  ASSUME IInv, SInv, MainJoins, NodeKept, [Next]_vars
  PROVE  SInv'
<1>1. TypeOK
  BY DEF IInv
<1>2. ASSUME NEW c \in Clients, Client(c)
      PROVE  SInv'
  BY <1>1, <1>2, ClientService, NobodyInserts, InsertService, UnlockRequestService DEF Client
<1>3. diskPC = "issue" => status = "idle"
  BY IdleWhenIssuing DEF SInv
<1>4. CASE DiskBody
  BY <1>1, <1>3, <1>4, ScheduleService, IssueService, RefusedService, OtherService
     DEF DiskBody, IssueBusy, DiskAt
<1>5. CASE Complete
  BY <1>1, <1>3, <1>5, CompleteService
<1>6. CASE MainExit
  BY <1>6, OtherService
<1>7. CASE UNCHANGED vars
  BY <1>1, <1>7, MadeKept, ServiceKept DEF vars, managerVars, deviceVars, SInv, ServedOK
<1> QED
  BY <1>2, <1>4, <1>5, <1>6, <1>7 DEF Next, DispatcherIdles

\* Each request is in one place, and none is lost, as long as main joins its clients.
THEOREM ServiceHolds == MainJoins /\ NodeKept /\ Spec => []SInv
<1> SUFFICES ASSUME MainJoins, NodeKept
             PROVE  Spec => []SInv
  OBVIOUS
<1>1. IInv /\ SInv /\ [Next]_vars => SInv'
  BY NextService
<1> QED
  BY InitService, InvHolds, <1>1, PTL DEF Spec

\* When nobody is in flight or about to send a wake-up, nothing is pending.
LEMMA NothingPending ==
  ASSUME IInv, SInv, \A c \in Clients : c \notin Unsignalled /\ ~Flying(c)
  PROVE  Pending = {}
<1>1. Flights = 0 /\ Unsent = 0
  BY FS_EmptySet DEF Flights, InFlightNow, Count, Unsent, Unsignalled
<1>2. Tokens("newReqsSem") \in Nat /\ Tokens("treatedReqSem") \in Nat
  BY ValuesAreIntegers DEF IInv, Tokens
<1>3. Tokens("newReqsSem") = 0 /\ ~AtWork /\ status = "idle"
  BY <1>1, <1>2 DEF IInv, SInv, TokenOK, Work, Transfers, Count
<1>4. list = <<>>
  <2>1. ~Looking
    BY <1>3 DEF AtWork, Looking
  <2>2. Len(list) = 0
    BY <1>1, <1>3, <2>1 DEF IInv, SInv, BalanceOK, Count
  <2> QED
    BY <2>2 DEF IInv, TypeOK
<1>5. diskPC # "issue"
  BY <1>3 DEF AtWork, DiskAwake, IInv, QueuesOK, NewQueueOK
<1> QED
  BY <1>3, <1>4, <1>5, ShortQueues DEF Pending, InHand, OnDevice

\* When every call has returned, each request that names a block and a buffer was
\* transferred, and no other was: the handshake between disk_block_read or
\* disk_block_write, diskScheduler and memActionFinished loses no request.
THEOREM EveryRequestServed == MainJoins /\ NodeKept /\ Spec => []AllServed
<1>1. IInv /\ SInv => AllServed
  <2> SUFFICES ASSUME IInv, SInv, AllDone
               PROVE  served = {r \in Requests : Valid(r)}
    BY DEF AllServed
  <2>1. Pending = {}
    BY NothingPending DEF AllDone, Unsignalled, Flying
  <2>2. \A r \in Requests : Made(r)
    <3> SUFFICES ASSUME NEW r \in Requests
                 PROVE  Made(r)
      OBVIOUS
    <3>1. r.task \in Clients /\ r.ip \in 1 .. Len(Program[r.task])
      BY RequestParts
    <3>2. ip[r.task] > Len(Program[r.task]) /\ ip[r.task] \in Nat
      BY <3>1 DEF AllDone, SInv, ServedOK, IInv, TypeOK
    <3>3. Len(Program[r.task]) \in Nat
      BY <3>1, ManagerAssumption
    <3> QED
      BY <3>1, <3>2, <3>3 DEF Made
  <2> QED
    BY <2>1, <2>2 DEF SInv, ServedOK, IInv, TypeOK
<1> QED
  BY InvHolds, ServiceHolds, <1>1, PTL

------------------------------------------------------------------------------
(* The seek order *)

NoneRefused == \A r \in Requests : Valid(r)

\* disk.iCurrBlock is where the arm is, or will be when the transfer under way ends.
HeadOK == iCurrBlock = IF status = "idle" THEN prevBlock ELSE nextBlock

\* Only an accepted request moves the head, and the end of its transfer moves the arm.
LEMMA NextHead ==
  ASSUME IInv, NoneRefused, NeverEnded, MainJoins, HeadOK, [Next]_vars
  PROVE  HeadOK'
<1>1. CASE UNCHANGED <<iCurrBlock, status, prevBlock, nextBlock>>
  BY <1>1 DEF HeadOK
<1>2. CASE Issue
  <2>1. /\ iCurrBlock' = Param(picked).block /\ nextBlock' = Param(picked).block
        /\ status' = Param(picked).op /\ picked \in Requests
    BY <1>2 DEF Issue, DiskAt, DiskCmd, IInv, TypeOK
  <2> QED
    BY <2>1, Parameters DEF HeadOK
<1>3. CASE IssueRefused
  <2>1. status = "idle" /\ picked \in Requests /\ ~Accepts(Param(picked).block, Param(picked).buffer)
    BY <1>3 DEF IssueRefused, DiskAt, IInv, TypeOK
  <2> QED
    BY <2>1 DEF Accepts, NoneRefused, Valid
<1>4. CASE Complete
  BY <1>4 DEF Complete, DiskSigHandle, HeadOK
<1>5. ASSUME NEW c \in Clients, Client(c)
      PROVE  UNCHANGED <<iCurrBlock, status, prevBlock, nextBlock>>
  BY <1>5 DEF Client, LockQueue, Insert, UnlockQueue, LockRequest, SignalNew, AwaitTreated,
              UnlockRequest, deviceVars
<1>6. CASE TestInit \/ DownNew \/ Schedule \/ IssueBusy \/ MainExit \/ UNCHANGED vars
  BY <1>1, <1>6 DEF TestInit, DownNew, Schedule, IssueBusy, MainExit, vars, managerVars, deviceVars
<1> QED
  BY <1>1, <1>2, <1>3, <1>4, <1>5, <1>6 DEF Next, DiskBody, DispatcherIdles

\* The request that sstfSched picks is a nearest one to the arm of the device, although
\* disk.iCurrBlock is set when the transfer is scheduled and the arm moves when it ends.
THEOREM SeekIsShortestWhenJoined == MainJoins /\ NoneRefused /\ Spec => SeekIsShortest
<1> SUFFICES ASSUME MainJoins, NoneRefused
             PROVE  Spec => SeekIsShortest
  OBVIOUS
<1>1. Init => HeadOK
  BY DEF Init, DeviceInit, HeadOK
<1>2. IInv /\ NeverEnded /\ HeadOK /\ [Next]_vars => HeadOK'
  BY NextHead
<1> DEFINE Shortest == diskPC = "schedule" /\ diskPC' = "issue" =>
             \A i \in DOMAIN list :
               Distance(Param(picked').block, prevBlock) <= Distance(Param(list[i]).block, prevBlock)
<1>3. IInv /\ NeverEnded /\ HeadOK /\ [Next]_vars => [Shortest]_vars
  <2> SUFFICES ASSUME IInv, NeverEnded, HeadOK, [Next]_vars,
                      diskPC = "schedule", diskPC' = "issue", NEW k \in DOMAIN list
               PROVE  Distance(Param(picked').block, prevBlock) <= Distance(Param(list[k]).block, prevBlock)
    OBVIOUS
  <2>1. Schedule
    BY DEF Next, Client, LockQueue, Insert, UnlockQueue, LockRequest, SignalNew, AwaitTreated,
           UnlockRequest, DiskBody, TestInit, DownNew, IssueBusy, Issue, IssueRefused, DiskAt,
           Complete, MainExit, DispatcherIdles, vars, managerVars
  <2>2. iCurrBlock = prevBlock
    <3>1. AtWork
      BY <2>1, DiskSleeps DEF Schedule, DiskAt, AtWork, IInv
    <3> QED
      BY <3>1, IdleAtWork DEF NeverEnded, HeadOK
  <2>3. PICK i \in DOMAIN list :
               /\ IsNearest(i, [j \in DOMAIN list |-> Param(list[j]).block], iCurrBlock)
               /\ picked' = list[i]
    BY <2>1 DEF Schedule
  <2>4. Distance(Param(list[i]).block, iCurrBlock) <= Distance(Param(list[k]).block, iCurrBlock)
    BY <2>3 DEF IsNearest, IsFirstLeast
  <2>5. Param(picked') = Param(list[i])
    BY <2>3 DEF Param
  <2> QED
    BY <2>2, <2>4, <2>5
<1> QED
  BY InvHolds, FinishIsSkipped, <1>1, <1>2, <1>3, PTL DEF Spec, SeekIsShortest

------------------------------------------------------------------------------
(* The refinement of DiskService *)

Insiders == {c \in Clients : Inside(c)}
Awake == {c \in Clients : pc[c] = "unlock" /\ ~Blocked(c)}
Released == {c \in Clients : pc[c] = "unlock" /\ waiting["treatedReqSem"] # <<c>>}
Credit == Tokens("treatedReqSem") + Cardinality(Released)

\* The callers let out, read off one queue instead of all of them.
LEMMA AwakeIsReleased == TypeOK /\ QueuesOK => Awake = Released
BY CallerSleeps DEF Awake, Released

\* The callers let out are finitely many.
LEMMA ReleasedIsFinite == IsFiniteSet(Released) /\ Cardinality(Released) \in Nat
BY ManagerAssumption, FS_Subset, FS_CardinalityType DEF Released

\* Steps that leave treatedReqSem alone, and the callers that are past it.
LEMMA CreditKept ==
  ASSUME value'["treatedReqSem"] = value["treatedReqSem"],
         waiting'["treatedReqSem"] = waiting["treatedReqSem"],
         \A c \in Clients : pc'[c] = "unlock" <=> pc[c] = "unlock"
  PROVE  Credit' = Credit
<1>1. Released' = Released
  BY DEF Released
<1> QED
  BY <1>1 DEF Credit, Tokens

\* sem_up(treatedReqSem) leaves a token or lets one more caller out.
LEMMA UpCredit ==
  ASSUME TypeOK, QueuesOK, SemUp("treatedReqSem"), UNCHANGED pc
  PROVE  Credit' = Credit + 1
<1>1. CASE waiting["treatedReqSem"] = <<>>
  <2>1. /\ waiting'["treatedReqSem"] = <<>> /\ value["treatedReqSem"] >= 0
        /\ value'["treatedReqSem"] = value["treatedReqSem"] + 1
    BY <1>1, UpTreated
  <2>2. Released' = Released
    BY <1>1, <2>1 DEF Released
  <2>3. Tokens("treatedReqSem")' = Tokens("treatedReqSem") + 1 /\ Tokens("treatedReqSem") \in Int
    BY <2>1, ValuesAreIntegers DEF Tokens
  <2> QED
    BY <2>2, <2>3, ReleasedIsFinite DEF Credit
<1>2. CASE waiting["treatedReqSem"] # <<>>
  <2>1. /\ waiting'["treatedReqSem"] = <<>>
        /\ value["treatedReqSem"] = -1 /\ value'["treatedReqSem"] = 0
    BY <1>2, UpTreated
  <2>2. PICK c \in Clients : waiting["treatedReqSem"] = <<c>> /\ pc[c] = "unlock"
    BY <1>2, UpTreated
  <2>3. \A d \in Clients : waiting'["treatedReqSem"] # <<d>>
    BY <2>1, ShortQueues, Zenon
  <2>4. \A d \in Clients : waiting["treatedReqSem"] # <<d>> <=> d # c
    BY <2>2
  <2>5. Released' = Released \cup {c} /\ c \notin Released
    BY <2>2, <2>3, <2>4 DEF Released
  <2>6. Cardinality(Released') = Cardinality(Released) + 1
    BY <2>5, ReleasedIsFinite, FS_AddElement
  <2>7. Tokens("treatedReqSem")' = 0 /\ Tokens("treatedReqSem") = 0
    BY <2>1 DEF Tokens
  <2> QED
    BY <2>6, <2>7, ReleasedIsFinite DEF Credit
<1> QED
  BY <1>1, <1>2

\* sem_down(treatedReqSem) turns a token into a caller let out, or suspends its caller.
LEMMA AwaitCredit ==
  ASSUME TypeOK, QueuesOK, RequestMutexOK, NEW c \in Clients, AwaitTreated(c)
  PROVE  Credit' = Credit
<1>1. pc[c] = "await" /\ pc' = [pc EXCEPT ![c] = "unlock"] /\ SemDown("treatedReqSem", c)
  BY DEF AwaitTreated, At, Goto
<1>2. waiting["treatedReqSem"] = <<>> /\ value["treatedReqSem"] >= 0
  BY <1>1, NobodyAwaits
<1>3. /\ value["treatedReqSem"] > 0 =>
           /\ waiting'["treatedReqSem"] = <<>>
           /\ value'["treatedReqSem"] = value["treatedReqSem"] - 1 /\ value'["treatedReqSem"] >= 0
      /\ value["treatedReqSem"] = 0 => waiting'["treatedReqSem"] = <<c>> /\ value'["treatedReqSem"] = -1
  BY <1>1, <1>2, DownEffect, Names DEF Tasks
<1>4. /\ pc'[c] = "unlock" /\ pc[c] # "unlock"
      /\ \A d \in Clients \ {c} : pc'[d] = pc[d]
  BY <1>1 DEF TypeOK
<1>5. \A d \in Clients : waiting["treatedReqSem"] # <<d>>
  BY <1>2, ShortQueues, Zenon
<1>6. CASE value["treatedReqSem"] > 0
  <2>1. \A d \in Clients : waiting'["treatedReqSem"] # <<d>>
    BY <1>3, <1>6, ShortQueues, Zenon
  <2>2. Released' = Released \cup {c} /\ c \notin Released
    BY <1>4, <1>5, <2>1 DEF Released
  <2>3. Cardinality(Released') = Cardinality(Released) + 1
    BY <2>2, ReleasedIsFinite, FS_AddElement
  <2>4. Tokens("treatedReqSem")' = Tokens("treatedReqSem") - 1 /\ Tokens("treatedReqSem") \in Int
    BY <1>3, <1>6, ValuesAreIntegers DEF Tokens
  <2> QED
    BY <2>3, <2>4, ReleasedIsFinite DEF Credit
<1>7. CASE value["treatedReqSem"] = 0
  <2>1. \A d \in Clients : waiting'["treatedReqSem"] # <<d>> <=> d # c
    BY <1>3, <1>7
  <2>2. Released' = Released
    BY <1>4, <1>5, <2>1 DEF Released
  <2>3. Tokens("treatedReqSem")' = 0 /\ Tokens("treatedReqSem") = 0
    BY <1>3, <1>7 DEF Tokens
  <2> QED
    BY <2>2, <2>3 DEF Credit
<1> QED
  BY <1>2, <1>6, <1>7, ValuesAreIntegers

\* The caller whose call ends is one of those let out.
LEMMA ReturnCredit ==
  ASSUME TypeOK, QueuesOK, NEW c \in Clients, UnlockRequest(c)
  PROVE  Credit > 0 /\ Credit' = Credit - 1
<1>1. /\ pc[c] = "unlock" /\ ~Blocked(c) /\ MutexUnlock("mRequest")
      /\ pc' = [pc EXCEPT ![c] = IF ip[c] < Len(Program[c]) THEN "call" ELSE "done"]
  BY DEF UnlockRequest, At, Goto
<1>2. /\ value'["treatedReqSem"] = value["treatedReqSem"]
      /\ waiting'["treatedReqSem"] = waiting["treatedReqSem"]
  BY <1>1, MutexKeepsSemaphores DEF Mutexes, Semaphores
<1>3. waiting["treatedReqSem"] # <<c>>
  BY <1>1, CallerSleeps
<1>4. pc'[c] # "unlock" /\ \A d \in Clients \ {c} : pc'[d] = pc[d]
  BY <1>1 DEF TypeOK
<1>5. c \in Released /\ Released' = Released \ {c}
  BY <1>1, <1>2, <1>3, <1>4 DEF Released
<1>6. Cardinality(Released') = Cardinality(Released) - 1 /\ Cardinality(Released') \in Nat
  BY <1>5, ReleasedIsFinite, FS_RemoveElement, FS_CardinalityType
<1>7. Tokens("treatedReqSem")' = Tokens("treatedReqSem") /\ Tokens("treatedReqSem") \in Nat
  BY <1>2, ValuesAreIntegers DEF Tokens
<1> QED
  BY <1>6, <1>7, ReleasedIsFinite DEF Credit

\* No other step changes the credit.
LEMMA OtherCredit ==
  ASSUME TypeOK, QueuesOK, RequestMutexOK,
         \/ \E c \in Clients : LockQueue(c) \/ Insert(c) \/ UnlockQueue(c) \/ LockRequest(c) \/ SignalNew(c)
         \/ TestInit \/ DownNew \/ Schedule \/ Issue
         \/ MainExit /\ list = <<>>
         \/ UNCHANGED vars
  PROVE  Credit' = Credit
<1>1. ASSUME NEW c \in Clients,
             LockQueue(c) \/ Insert(c) \/ UnlockQueue(c) \/ LockRequest(c) \/ SignalNew(c)
      PROVE  Credit' = Credit
  <2>1. \A d \in Clients : pc'[d] = "unlock" <=> pc[d] = "unlock"
    BY <1>1 DEF LockQueue, Insert, UnlockQueue, LockRequest, SignalNew, At, Goto, TypeOK
  <2>2. CASE Insert(c)
    BY <2>1, <2>2, CreditKept DEF Insert, syncVars
  <2>3. CASE LockQueue(c) \/ UnlockQueue(c) \/ LockRequest(c)
    <3>1. \E m \in Mutexes : MutexUnlock(m) \/ MutexLock(m, c)
      BY <2>3 DEF LockQueue, UnlockQueue, LockRequest, Mutexes
    <3>2. /\ value'["treatedReqSem"] = value["treatedReqSem"]
          /\ waiting'["treatedReqSem"] = waiting["treatedReqSem"]
      BY <3>1, MutexKeepsSemaphores DEF Tasks, Semaphores
    <3> QED
      BY <2>1, <3>2, CreditKept
  <2>4. CASE SignalNew(c)
    BY <2>1, <2>4, UpNew, Names, CreditKept DEF SignalNew
  <2> QED
    BY <1>1, <2>2, <2>3, <2>4
<1>2. CASE DownNew
  <2>1. waiting["newReqsSem"] = <<>> /\ value["newReqsSem"] >= 0 /\ SemDown("newReqsSem", DiskTask)
    BY <1>2, DiskStepAwake DEF DownNew, DiskAt, DiskAwake
  <2>2. /\ value'["treatedReqSem"] = value["treatedReqSem"]
        /\ waiting'["treatedReqSem"] = waiting["treatedReqSem"]
    BY <2>1, DownEffect, Names DEF Tasks
  <2> QED
    BY <1>2, <2>2, CreditKept DEF DownNew
<1>3. CASE TestInit \/ Schedule \/ Issue \/ (MainExit /\ list = <<>>) \/ UNCHANGED vars
  BY <1>3, CreditKept DEF TestInit, Schedule, Issue, MainExit, vars, syncVars, managerVars
<1> QED
  BY <1>1, <1>2, <1>3

\* The service starts with nothing pending.
LEMMA InitImplements == Init => AnyCallers!Init
<1> SUFFICES ASSUME Init PROVE AnyCallers!Init
  OBVIOUS
<1>1. /\ list = <<>> /\ diskPC = "loop" /\ status = "idle" /\ content = Disk0 /\ memory = Memory0
      /\ pc = [c \in Clients |-> "call"] /\ ip = [c \in Clients |-> 1]
      /\ value["treatedReqSem"] = 0
  BY Names DEF Init, DeviceInit, SyncInit, Objects, Mutexes
<1>2. Pending = {}
  BY <1>1, ShortQueues DEF Pending, InHand, OnDevice
<1>3. Insiders = {} /\ Awake = {}
  BY <1>1 DEF Insiders, Inside, Awake
<1>4. Tokens("treatedReqSem") + Cardinality(Awake) = 0
  BY <1>1, <1>3, FS_EmptySet DEF Tokens
<1> QED
  BY <1>1, <1>2, <1>3, <1>4 DEF AnyCallers!Init, Pending, InHand, OnDevice, Insiders, Awake

\* Each step of the manager is one of the service's, or changes nothing it shows.
LEMMA StepImplements ==
  ASSUME IInv, SInv, MainJoins, NodeKept, [Next]_vars,
         Awake = Released, Awake' = Released'
  PROVE  [AnyCallers!Next]_(AnyCallers!vars)
<1>0. TypeOK /\ QueuesOK /\ RequestMutexOK
  BY DEF IInv
<1>1. Tokens("treatedReqSem") + Cardinality(Awake) = Credit
  BY DEF Credit
<1>2. (Tokens("treatedReqSem") + Cardinality(Awake))' = Credit'
  BY DEF Credit
<1>3. ASSUME UNCHANGED <<content, memory, ip>>, Pending' = Pending, Insiders' = Insiders,
             Credit' = Credit
      PROVE  UNCHANGED AnyCallers!vars
  BY <1>1, <1>2, <1>3 DEF AnyCallers!vars, Pending, InHand, OnDevice, Insiders, Awake
<1>4. ASSUME NEW r \in Pending, Pending' = Pending \ {r}, Credit' = Credit + 1,
             UNCHANGED <<pc, ip>>, AnyCallers!Move(Param(r))
      PROVE  AnyCallers!Next
  <2>1. Insiders' = Insiders
    BY <1>4 DEF Insiders, Inside
  <2>2. AnyCallers!Treat(r)
    BY <1>1, <1>2, <1>4, <2>1
       DEF AnyCallers!Treat, Param, Pending, InHand, OnDevice, Insiders, Awake
  <2> QED
    BY <1>4, <2>2 DEF AnyCallers!Next, Pending, InHand, OnDevice
<1>5. ASSUME NEW c \in Clients, Insert(c)
      PROVE  AnyCallers!Next
  <2>1. /\ pc[c] = "insert" /\ pc' = [pc EXCEPT ![c] = "unlockQueue"]
        /\ UNCHANGED <<content, memory, ip>>
    BY <1>5 DEF Insert, At, Goto, deviceVars
  <2>2. ip[c] \in DOMAIN Program[c]
    BY <1>0, <2>1 DEF TypeOK
  <2>3. c \notin Insiders /\ Insiders' = Insiders \cup {c}
    BY <1>0, <2>1 DEF TypeOK, Insiders, Inside
  <2>4. Pending' = Pending \cup {CurrentRequest(c)}
    BY <1>0, <1>5, NobodyInserts, InsertService
  <2>5. Credit' = Credit
    BY <1>0, <1>5, OtherCredit
  <2>6. AnyCallers!Submit(c)
    BY <1>1, <1>2, <2>1, <2>2, <2>3, <2>4, <2>5
       DEF AnyCallers!Submit, AnyCallers!Request, CurrentRequest, Pending, InHand, OnDevice, Insiders, Awake
  <2> QED
    BY <2>6 DEF AnyCallers!Next
<1>6. ASSUME NEW c \in Clients, UnlockRequest(c)
      PROVE  AnyCallers!Next
  <2>1. /\ pc[c] = "unlock" /\ ip' = [ip EXCEPT ![c] = @ + 1]
        /\ pc' = [pc EXCEPT ![c] = IF ip[c] < Len(Program[c]) THEN "call" ELSE "done"]
        /\ UNCHANGED <<content, memory>>
    BY <1>6 DEF UnlockRequest, At, Goto, deviceVars
  <2>2. c \in Insiders /\ Insiders' = Insiders \ {c}
    BY <1>0, <2>1 DEF TypeOK, Insiders, Inside
  <2>3. Pending' = Pending /\ Credit > 0 /\ Credit' = Credit - 1
    BY <1>0, <1>6, UnlockRequestService, ReturnCredit
  <2>4. AnyCallers!Return(c)
    BY <1>1, <1>2, <2>1, <2>2, <2>3
       DEF AnyCallers!Return, Pending, InHand, OnDevice, Insiders, Awake
  <2> QED
    BY <2>4 DEF AnyCallers!Next
<1>7. ASSUME NEW c \in Clients,
             LockQueue(c) \/ UnlockQueue(c) \/ LockRequest(c) \/ SignalNew(c) \/ AwaitTreated(c)
      PROVE  UNCHANGED AnyCallers!vars
  <2>1. UNCHANGED <<content, memory, ip>>
    BY <1>7 DEF LockQueue, UnlockQueue, LockRequest, SignalNew, AwaitTreated, deviceVars
  <2>2. Insiders' = Insiders
    BY <1>0, <1>7 DEF LockQueue, UnlockQueue, LockRequest, SignalNew, AwaitTreated, At, Goto,
                      TypeOK, Insiders, Inside
  <2> QED
    BY <1>0, <1>3, <1>7, <2>1, <2>2, ClientService, OtherCredit, AwaitCredit
<1>8. diskPC = "issue" => status = "idle"
  BY IdleWhenIssuing DEF SInv
<1>9. CASE IssueRefused
  <2>1. UNCHANGED <<content, memory, pc, ip>> /\ SemUp("treatedReqSem")
    BY <1>9 DEF IssueRefused, deviceVars
  <2>2. picked \in Pending /\ Pending' = Pending \ {picked} /\ ~Valid(picked)
    BY <1>0, <1>9, RefusedService
  <2>3. AnyCallers!Move(Param(picked))
    BY <2>1, <2>2 DEF AnyCallers!Move, Valid
  <2> QED
    BY <1>0, <1>4, <2>1, <2>2, <2>3, UpCredit
<1>10. CASE Complete
  <2>1. /\ UNCHANGED <<pc, ip>> /\ SemUp("treatedReqSem") /\ status # "idle"
        /\ content' = IF status = "write"
                      THEN [content EXCEPT ![nextBlock] = memory[devBuffer]] ELSE content
        /\ memory' = IF status = "read"
                     THEN [memory EXCEPT ![devBuffer] = content[nextBlock]] ELSE memory
    BY <1>10 DEF Complete, DiskSigHandle
  <2>2. inService \in Pending /\ Pending' = Pending \ {inService} /\ Valid(inService)
    BY <1>0, <1>8, <1>10, CompleteService
  <2>3. /\ Param(inService).op = status /\ Param(inService).buffer = devBuffer
        /\ Param(inService).block = nextBlock
    BY <2>1 DEF SInv, TransferOK
  <2>4. AnyCallers!Move(Param(inService))
    BY <2>1, <2>2, <2>3 DEF AnyCallers!Move, Valid
  <2> QED
    BY <1>0, <1>4, <2>1, <2>2, <2>4, UpCredit
<1>11. CASE TestInit \/ DownNew \/ Schedule \/ Issue \/ MainExit
  <2>1. UNCHANGED <<content, memory, pc, ip>>
    BY <1>11 DEF TestInit, DownNew, Schedule, Issue, MainExit, DiskCmd, deviceVars
  <2>2. Insiders' = Insiders
    BY <2>1 DEF Insiders, Inside
  <2>3. Pending' = Pending
    BY <1>0, <1>11, ScheduleService, IssueService, OtherService
  <2>4. Credit' = Credit
    BY <1>0, <1>11, NothingLeft, OtherCredit DEF MainExit, SInv
  <2> QED
    BY <1>3, <2>1, <2>2, <2>3, <2>4
<1>12. CASE UNCHANGED vars
  <2>1. UNCHANGED <<content, memory, ip>> /\ Pending' = Pending /\ Insiders' = Insiders
    BY <1>12 DEF vars, managerVars, deviceVars, Pending, InHand, OnDevice, Insiders, Inside
  <2> QED
    BY <1>0, <1>3, <1>12, <2>1, OtherCredit
<1> QED
  BY <1>5, <1>6, <1>7, <1>8, <1>9, <1>10, <1>11, <1>12
     DEF Next, Client, DiskBody, IssueBusy, DiskAt, DispatcherIdles

\* What the disk manager does for any callers is what DiskService allows: each request is
\* treated exactly once, in one atomic move of its data, and each treatment lets exactly
\* one call return.
THEOREM ManagerImplementsService == MainJoins /\ NodeKept /\ Spec => ImplementsDiskService
<1> SUFFICES ASSUME MainJoins, NodeKept
             PROVE  Spec => AnyCallers!Spec
  BY DEF ImplementsDiskService
<1> DEFINE Same == Awake = Released
<1>1. IInv => Same
  BY AwakeIsReleased DEF IInv
<1>2. IInv /\ SInv /\ [Next]_vars /\ Same /\ Same' => [AnyCallers!Next]_(AnyCallers!vars)
  BY StepImplements
<1>3. Spec => []SInv
  BY ServiceHolds
<1> HIDE DEF Same
<1> QED
  BY InitImplements, InvHolds, <1>1, <1>2, <1>3, PTL DEF Spec, AnyCallers!Spec

------------------------------------------------------------------------------
(* A single caller: the refinement of BlockDevice *)

\* What a caller has pending is its current call's request.
CurrentOnly == \A r \in Pending : Inside(r.task) /\ r.ip = ip[r.task]

\* A single caller that is let out finds nothing pending.
LEMMA AloneAfterwards ==
  ASSUME IInv, SInv, SingleCaller, NEW c \in Clients, pc[c] = "unlock" /\ ~Blocked(c)
  PROVE  Pending = {}
<1>1. c \notin Unsignalled /\ ~Flying(c)
  BY CallerSleeps DEF Unsignalled, Flying, IInv
<1>2. \A d \in Clients : d = c
  BY DEF SingleCaller
<1> QED
  BY <1>1, <1>2, NothingPending

\* A single caller outside of its calls has nothing pending.
LEMMA AloneBefore ==
  ASSUME IInv, SInv, SingleCaller, NEW c \in Clients, pc[c] \in {"call", "insert", "done"}
  PROVE  Pending = {}
<1>1. c \notin Unsignalled /\ ~Flying(c)
  BY DEF Unsignalled, Flying
<1>2. \A d \in Clients : d = c
  BY DEF SingleCaller
<1> QED
  BY <1>1, <1>2, NothingPending

\* With nothing pending, its valid request has been served.
LEMMA WokenServed ==
  ASSUME IInv, SInv, SingleCaller
  PROVE  WokenIsServed
<1> SUFFICES ASSUME NEW c \in Clients, pc[c] = "unlock" /\ ~Blocked(c), Valid(CurrentRequest(c))
             PROVE  CurrentRequest(c) \in served
  BY DEF WokenIsServed
<1>1. Pending = {}
  BY AloneAfterwards
<1>2. CurrentRequest(c) \in Requests
  BY CurrentIsRequest DEF IInv
<1>3. Made(CurrentRequest(c))
  BY DEF Made, Inside, CurrentRequest
<1> QED
  BY <1>1, <1>2, <1>3 DEF SInv, ServedOK

\* A client that has the disk to itself is let out when its own transfer is done.
THEOREM AloneWokenServed == MainJoins /\ SingleCaller /\ Spec => []WokenIsServed
<1> SUFFICES ASSUME MainJoins, SingleCaller
             PROVE  Spec => []WokenIsServed
  OBVIOUS
<1>1. Spec => []SInv
  <2>1. NodeKept
    BY DEF NodeKept
  <2> QED
    BY <2>1, ServiceHolds
<1>2. IInv /\ SInv => WokenIsServed
  BY WokenServed
<1> QED
  BY InvHolds, <1>1, <1>2, PTL

\* The steps of a single caller keep what is pending the current call's.
LEMMA NextCurrent ==
  ASSUME IInv, SInv, CurrentOnly, MainJoins, SingleCaller, [Next]_vars
  PROVE  CurrentOnly'
<1>0. TypeOK /\ NodeKept /\ (diskPC = "issue" => status = "idle")
  BY IdleWhenIssuing DEF IInv, SInv, NodeKept
<1>1. ASSUME Pending' \subseteq Pending, UNCHANGED ip, \A c \in Clients : Inside(c)' <=> Inside(c)
      PROVE  CurrentOnly'
  BY <1>0, <1>1, PendingType, RequestParts DEF CurrentOnly
<1>2. ASSUME NEW c \in Clients, Insert(c)
      PROVE  CurrentOnly'
  <2>1. Pending = {}
    BY <1>2, AloneBefore DEF Insert, At
  <2>2. Pending' = {CurrentRequest(c)}
    BY <1>0, <1>2, <2>1, NobodyInserts, InsertService
  <2>3. Inside(c)' /\ ip' = ip
    BY <1>0, <1>2 DEF Insert, At, Goto, Inside, TypeOK
  <2> QED
    BY <2>2, <2>3 DEF CurrentOnly, CurrentRequest
<1>3. ASSUME NEW c \in Clients, UnlockRequest(c)
      PROVE  CurrentOnly'
  <2>1. Pending' = {}
    BY <1>0, <1>3, AloneAfterwards, UnlockRequestService DEF UnlockRequest, At
  <2> QED
    BY <2>1 DEF CurrentOnly
<1>4. ASSUME NEW c \in Clients,
             LockQueue(c) \/ UnlockQueue(c) \/ LockRequest(c) \/ SignalNew(c) \/ AwaitTreated(c)
      PROVE  CurrentOnly'
  <2>1. \A d \in Clients : Inside(d)' <=> Inside(d)
    BY <1>0, <1>4 DEF LockQueue, UnlockQueue, LockRequest, SignalNew, AwaitTreated, At, Goto,
                      TypeOK, Inside
  <2>2. UNCHANGED ip
    BY <1>4 DEF LockQueue, UnlockQueue, LockRequest, SignalNew, AwaitTreated
  <2> QED
    BY <1>0, <1>1, <1>4, <2>1, <2>2, ClientService
<1>5. CASE UNCHANGED <<pc, ip>> /\ Pending' \subseteq Pending
  BY <1>1, <1>5 DEF Inside
<1>6. CASE TestInit \/ DownNew \/ Schedule \/ Issue \/ IssueRefused \/ Complete \/ MainExit
  <2>1. UNCHANGED <<pc, ip>>
    BY <1>6 DEF TestInit, DownNew, Schedule, Issue, IssueRefused, Complete, MainExit
  <2>2. Pending' \subseteq Pending
    BY <1>0, <1>6, OtherService, ScheduleService, IssueService, RefusedService, CompleteService
  <2> QED
    BY <1>5, <2>1, <2>2
<1>7. CASE UNCHANGED vars
  BY <1>5, <1>7 DEF vars, managerVars, deviceVars, Pending, InHand, OnDevice
<1> QED
  BY <1>0, <1>2, <1>3, <1>4, <1>6, <1>7 DEF Next, Client, DiskBody, IssueBusy, DiskAt, DispatcherIdles

PhaseOf(c) == IF ~Inside(c) THEN "out"
              ELSE IF CurrentRequest(c) \in served THEN "transferred" ELSE "called"
Phase == [c \in Clients |-> PhaseOf(c)]

\* No call is under way at the start.
LEMMA InitImplementsDevice == Init => OneCaller!Init
<1> SUFFICES ASSUME Init PROVE OneCaller!Init
  OBVIOUS
<1>1. \A c \in Clients : PhaseOf(c) = "out"
  BY DEF Init, PhaseOf, Inside
<1>2. Phase = [c \in Clients |-> "out"]
  BY <1>1 DEF Phase
<1> QED
  BY <1>2 DEF OneCaller!Init, Phase, PhaseOf, Init, DeviceInit

\* With a single caller the end of the transfer is the call's one instant.
LEMMA StepImplementsDevice ==
  ASSUME IInv, SInv, CurrentOnly, MainJoins, SingleCaller, [Next]_vars
  PROVE  [OneCaller!Next]_(OneCaller!vars)
<1>0. TypeOK /\ (diskPC = "issue" => status = "idle")
  BY IdleWhenIssuing DEF IInv, SInv
<1>1. ASSUME UNCHANGED <<content, memory, ip, served>>, \A c \in Clients : Inside(c)' <=> Inside(c)
      PROVE  UNCHANGED OneCaller!vars
  <2>1. \A c \in Clients : PhaseOf(c)' = PhaseOf(c)
    BY <1>1 DEF PhaseOf, CurrentRequest
  <2>2. Phase' = Phase
    BY <2>1 DEF Phase
  <2> QED
    BY <1>1, <2>2 DEF OneCaller!vars, Phase, PhaseOf
<1>2. ASSUME NEW c \in Clients, Insert(c)
      PROVE  OneCaller!Next
  <2>1. /\ pc[c] = "insert" /\ pc' = [pc EXCEPT ![c] = "unlockQueue"]
        /\ UNCHANGED <<content, memory, ip, served>>
    BY <1>2 DEF Insert, At, Goto, deviceVars
  <2>2. ~Inside(c) /\ Inside(c)' /\ ip[c] \in DOMAIN Program[c] /\ ip[c] \in Nat
    BY <1>0, <2>1 DEF TypeOK, Inside
  <2>3. CurrentRequest(c) \notin served
    BY <2>2 DEF SInv, ServedOK, Made, CurrentRequest
  <2>4. PhaseOf(c) = "out" /\ PhaseOf(c)' = "called"
    BY <2>1, <2>2, <2>3 DEF PhaseOf, CurrentRequest
  <2>5. Phase[c] = "out" /\ Phase' = [Phase EXCEPT ![c] = "called"]
    BY <2>4 DEF Phase, SingleCaller
  <2>6. OneCaller!Invoke(c)
    BY <2>1, <2>2, <2>5 DEF OneCaller!Invoke, Phase, PhaseOf
  <2> QED
    BY <2>6 DEF OneCaller!Next
<1>3. CASE Complete
  <2>1. /\ UNCHANGED <<pc, ip>> /\ status \in {"read", "write"} /\ served' = served \cup {inService}
        /\ content' = IF status = "write"
                      THEN [content EXCEPT ![nextBlock] = memory[devBuffer]] ELSE content
        /\ memory' = IF status = "read"
                     THEN [memory EXCEPT ![devBuffer] = content[nextBlock]] ELSE memory
    BY <1>0, <1>3 DEF Complete, DiskSigHandle, TypeOK, DeviceTypeOK
  <2>2. inService \in Pending /\ inService \in Requests /\ Valid(inService)
    BY <1>0, <1>3, CompleteService
  <2>3. PICK c \in Clients : c = inService.task
    BY <2>2, RequestParts
  <2>4. Inside(c) /\ inService = CurrentRequest(c)
    BY <2>2, <2>3, RequestParts DEF CurrentOnly, CurrentRequest
  <2>5. inService \notin served
    BY <2>2 DEF SInv, ServedOK
  <2>6. PhaseOf(c) = "called" /\ PhaseOf(c)' = "transferred"
    BY <2>1, <2>4, <2>5 DEF PhaseOf, CurrentRequest, Inside
  <2>7. Phase[c] = "called" /\ Phase' = [Phase EXCEPT ![c] = "transferred"]
    BY <2>6 DEF Phase, SingleCaller
  <2>8. Program[c][ip[c]] = Param(inService)
    BY <2>4 DEF Param, CurrentRequest
  <2>9. /\ Param(inService).op = status /\ Param(inService).buffer = devBuffer
        /\ Param(inService).block = nextBlock
    BY <2>1 DEF SInv, TransferOK
  <2>10. OneCaller!Possible(Param(inService)) /\ OneCaller!Move(Param(inService))
    BY <2>1, <2>2, <2>9 DEF OneCaller!Possible, OneCaller!Move, Valid
  <2>11. OneCaller!Transfer(c)
    BY <2>1, <2>7, <2>8, <2>10 DEF OneCaller!Transfer, Phase, PhaseOf
  <2> QED
    BY <2>11 DEF OneCaller!Next
<1>4. ASSUME NEW c \in Clients, UnlockRequest(c)
      PROVE  OneCaller!Next
  <2>1. /\ pc[c] = "unlock" /\ ~Blocked(c) /\ ip' = [ip EXCEPT ![c] = @ + 1]
        /\ pc' = [pc EXCEPT ![c] = IF ip[c] < Len(Program[c]) THEN "call" ELSE "done"]
        /\ UNCHANGED <<content, memory, served>>
    BY <1>4 DEF UnlockRequest, At, Goto, deviceVars
  <2>2. Inside(c) /\ ~Inside(c)'
    BY <1>0, <2>1 DEF TypeOK, Inside
  <2>3. Valid(CurrentRequest(c)) => CurrentRequest(c) \in served
    BY <2>1, WokenServed DEF WokenIsServed
  <2>4. /\ PhaseOf(c) # "out" /\ PhaseOf(c)' = "out"
        /\ PhaseOf(c) = "transferred" \/ ~OneCaller!Possible(Program[c][ip[c]])
    BY <2>2, <2>3 DEF PhaseOf, OneCaller!Possible, Valid, Param, CurrentRequest
  <2>5. Phase[c] = PhaseOf(c) /\ Phase' = [Phase EXCEPT ![c] = "out"]
    BY <2>4 DEF Phase, SingleCaller
  <2>6. OneCaller!Return(c)
    BY <2>1, <2>4, <2>5 DEF OneCaller!Return, Phase, PhaseOf
  <2> QED
    BY <2>6 DEF OneCaller!Next
<1>5. ASSUME NEW c \in Clients,
             LockQueue(c) \/ UnlockQueue(c) \/ LockRequest(c) \/ SignalNew(c) \/ AwaitTreated(c)
      PROVE  UNCHANGED OneCaller!vars
  <2>1. \A d \in Clients : Inside(d)' <=> Inside(d)
    BY <1>0, <1>5 DEF LockQueue, UnlockQueue, LockRequest, SignalNew, AwaitTreated, At, Goto,
                      TypeOK, Inside
  <2>2. UNCHANGED <<content, memory, ip, served>>
    BY <1>5 DEF LockQueue, UnlockQueue, LockRequest, SignalNew, AwaitTreated, deviceVars
  <2> QED
    BY <1>1, <2>1, <2>2
<1>6. CASE TestInit \/ DownNew \/ Schedule \/ Issue \/ IssueRefused \/ MainExit \/ UNCHANGED vars
  <2>1. UNCHANGED <<content, memory, pc, ip, served>>
    BY <1>6 DEF TestInit, DownNew, Schedule, Issue, IssueRefused, MainExit, DiskCmd, deviceVars,
                vars, managerVars
  <2> QED
    BY <1>1, <2>1 DEF Inside
<1> QED
  BY <1>0, <1>2, <1>3, <1>4, <1>5, <1>6 DEF Next, Client, DiskBody, IssueBusy, DiskAt, DispatcherIdles

\* To a client that has the disk to itself a call is an atomic transfer between its
\* invocation and its return, whatever the disk task and the signal handler do meanwhile.
THEOREM ManagerImplementsDevice == MainJoins /\ SingleCaller /\ Spec => ImplementsBlockDevice
<1> SUFFICES ASSUME MainJoins, SingleCaller
             PROVE  Spec => OneCaller!Spec
  BY DEF ImplementsBlockDevice
<1>1. Spec => []SInv
  <2>1. NodeKept
    BY DEF NodeKept
  <2> QED
    BY <2>1, ServiceHolds
<1>2. Init => CurrentOnly
  <2> SUFFICES ASSUME Init
               PROVE  Pending = {}
    BY DEF CurrentOnly
  <2> QED
    BY ShortQueues DEF Init, DeviceInit, Pending, InHand, OnDevice
<1>3. IInv /\ SInv /\ CurrentOnly /\ [Next]_vars => CurrentOnly'
  BY NextCurrent
<1>4. IInv /\ SInv /\ CurrentOnly /\ [Next]_vars => [OneCaller!Next]_(OneCaller!vars)
  BY StepImplementsDevice
<1> QED
  BY InitImplementsDevice, InvHolds, <1>1, <1>2, <1>3, <1>4, PTL DEF Spec, OneCaller!Spec

=============================================================================
