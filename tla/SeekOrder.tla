------------------------------ MODULE SeekOrder ------------------------------
(***************************************************************************)
(* What the request list is for: a queue of blocks and a head position     *)
(* under one scheduling algorithm.  Requests arrive at the end in any      *)
(* order, one at a time, and count once their insertion is complete;       *)
(* diskScheduler takes out the one its algorithm picks and moves the head  *)
(* there, finishDiskTask drops what is left.  The list of nodes and        *)
(* pointers is in RequestList, which implements this.  diskScheduler       *)
(* always selects SSTF; the other algorithms are compiled and selectable   *)
(* by enAlgorithm, which is fixed here from the start.                     *)
(***************************************************************************)
EXTENDS DiskSched

CONSTANTS LastBlock,    \* blocks are 0 .. LastBlock
          MaxLength     \* bound: requests in the list at a time

VARIABLES list,        \* blocks of the requests in the list, first node first
          arriving,    \* the last of them is not counted in iSize yet
          iCurrBlock,  \* block of the last request taken
          enAlgorithm  \* the algorithm of the switch

vars == <<list, arriving, iCurrBlock, enAlgorithm>>

EN_DiskAlgorithm == {"FCFS", "SSTF", "CSCAN"}

Init ==
  /\ list = <<>>
  /\ arriving = FALSE
  /\ iCurrBlock = 0
  /\ enAlgorithm \in EN_DiskAlgorithm

\* addNodeInFront, under queueMutex: the new node becomes the last one.
addNodeInFront(b) ==
  /\ ~arriving
  /\ Len(list) < MaxLength
  /\ list' = Append(list, b)
  /\ arriving' = TRUE
  /\ UNCHANGED <<iCurrBlock, enAlgorithm>>

\* addNodeInFront: iSize++.
Count ==
  /\ arriving
  /\ arriving' = FALSE
  /\ UNCHANGED <<list, iCurrBlock, enAlgorithm>>

\* What the algorithms' loops see: the counted requests, or the only one there is.
Seen == IF arriving /\ Len(list) > 1 THEN Front(list) ELSE list

\* The switch of diskScheduler.
Picked == CASE enAlgorithm = "FCFS" -> fcfsSched(Seen, iCurrBlock)
            [] enAlgorithm = "SSTF" -> sstfSched(Seen, iCurrBlock)
            [] enAlgorithm = "CSCAN" -> cscanSched(Seen, iCurrBlock)

\* diskScheduler: unless the list is empty, take out the picked node and move to its block.
diskScheduler ==
  /\ list # <<>>
  /\ iCurrBlock' = list[Picked]
  /\ list' = RemoveAt(list, Picked)
  /\ arriving' = (arriving /\ Len(list) > 1)
  /\ UNCHANGED enAlgorithm

\* finishDiskTask: the whole list is freed.
finishDiskTask ==
  /\ list' = <<>>
  /\ arriving' = FALSE
  /\ UNCHANGED <<iCurrBlock, enAlgorithm>>

Next ==
  \/ diskScheduler
  \/ finishDiskTask
  \/ Count
  \/ \E b \in 0 .. LastBlock : addNodeInFront(b)

Spec == Init /\ [][Next]_vars

=============================================================================
