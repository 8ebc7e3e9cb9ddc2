----------------------------- MODULE RequestList -----------------------------
(***************************************************************************)
(* The doubly linked request list of src/ppos_disk.c with its nodes and    *)
(* pointers, one step per assignment: a tick may strike after any of them  *)
(* and let the other side run.  Callers insert with addNodeInFront, one at *)
(* a time under queueMutex; diskScheduler picks and calls removeNode,      *)
(* which does not take queueMutex; main's exit frees the whole list.       *)
(*                                                                         *)
(* Some interleavings really damage the list.  Torn names them; the model  *)
(* stops there, and the properties say that nothing else does any harm.    *)
(***************************************************************************)
EXTENDS DiskSched, FiniteSetsExt

CONSTANTS LastBlock,    \* blocks are 0 .. LastBlock
          MaxLength     \* bound: nodes allocated at a time

ASSUME ListAssumption ==
  /\ LastBlock \in Nat
  /\ MaxLength \in Nat \ {0}

NULL == 0
Nodes == 1 .. MaxLength
Pointers == Nodes \cup {NULL}

VARIABLES node,        \* prev, next and block of each ST_RequestNode that is allocated
          firstNode, lastNode, iSize,   \* gpstRequestList
          iCurrBlock,  \* disk.iCurrBlock
          enAlgorithm, \* the algorithm of diskScheduler's switch
          ins,         \* addNodeInFront under way: next statement, new node, last node, size read
          rem,         \* diskScheduler under way: next statement, node, shape seen, size read
          main         \* "running", "exited", or "interfered": exited during ins or rem

listVars == <<firstNode, lastNode, iSize>>
vars == <<node, listVars, iCurrBlock, enAlgorithm, ins, rem, main>>

EN_DiskAlgorithm == {"FCFS", "SSTF", "CSCAN"}
ST_RequestNode == [prev : Pointers, next : Pointers, block : 0 .. LastBlock]
NoInsertion == [at |-> "idle", new |-> NULL, last |-> NULL, size |-> 0]
NoRemoval == [at |-> "idle", node |-> NULL, block |-> 0, shape |-> "none", size |-> 0]

TypeOK ==
  /\ DOMAIN node \subseteq Nodes
  /\ node \in [DOMAIN node -> ST_RequestNode]
  /\ firstNode \in Pointers /\ lastNode \in Pointers
  /\ iSize \in -1 .. MaxLength + 1
  /\ iCurrBlock \in 0 .. LastBlock
  /\ enAlgorithm \in EN_DiskAlgorithm
  /\ ins \in [at : {"idle", "first", "loadFirst", "link", "last", "load", "store"},
              new : Pointers, last : Pointers, size : Int]
  /\ rem \in [at : {"idle", "test", "unlink", "relink", "free", "load", "store"}, node : Pointers,
              block : 0 .. LastBlock, shape : {"none", "only", "last", "first", "middle"}, size : Int]
  /\ main \in {"running", "exited", "interfered"}

\* createList.
Init ==
  /\ node = <<>>
  /\ firstNode = NULL /\ lastNode = NULL /\ iSize = 0
  /\ iCurrBlock = 0
  /\ enAlgorithm \in EN_DiskAlgorithm
  /\ ins = NoInsertion
  /\ rem = NoRemoval
  /\ main = "running"

\* The nodes met from n on through the pointers link, at most MaxLength of them.
Walk(n, link) ==
  LET met[k \in 1 .. MaxLength] ==
        IF k = 1 THEN n ELSE IF met[k - 1] = NULL THEN NULL ELSE link[met[k - 1]]
  IN  [k \in {i \in 1 .. MaxLength : met[i] # NULL} |-> met[k]]

Forward == Walk(firstNode, [n \in DOMAIN node |-> node[n].next])
Backward == Walk(lastNode, [n \in DOMAIN node |-> node[n].prev])

Blocks(nodes) == [i \in DOMAIN nodes |-> node[nodes[i]].block]

------------------------------------------------------------------------------
(* Interference *)

\* removeNode has seen that its node is the last one and has not stored lastNode yet, while
\* addNodeInFront, which has tested firstNode, is about to store next or lastNode.
\* One case is harmless: the node just put into an empty list is removed, and firstNode is
\* read back for lastNode = firstNode only after it has become NULL again.
Tearing ==
  /\ rem.at \in {"unlink", "relink"}
  /\ rem.shape \in {"last", "only"}
  /\ \/ ins.at = "link"
     \/ ins.at = "loadFirst" /\ rem.node # ins.new
     \/ ins.at = "last" /\ (rem.node # ins.new \/ ins.last # NULL)

\* Both have read iSize and neither has stored it.
Miscounting == rem.at = "store" /\ ins.at = "store"

Torn == Tearing \/ Miscounting \/ main = "interfered"

InsAt(labels) == ins.at \in labels /\ ~Torn
RemAt(labels) == rem.at \in labels /\ ~Torn

------------------------------------------------------------------------------
(* addNodeInFront, under queueMutex *)

\* createNode: the new node's prev is the last one.  malloc takes the lowest free node.
createNode(b) ==
  \E n \in Nodes \ DOMAIN node :
    /\ \A m \in Nodes \ DOMAIN node : n <= m
    /\ LET new == [prev |-> IF firstNode = NULL THEN NULL ELSE lastNode, next |-> NULL, block |-> b]
       IN  node' = [m \in DOMAIN node \cup {n} |-> IF m = n THEN new ELSE node[m]]
    /\ ins' = [ins EXCEPT !.at = IF firstNode = NULL THEN "first" ELSE "link", !.new = n]

addNodeInFront(b) ==
  /\ InsAt({"idle"})
  /\ createNode(b)
  /\ UNCHANGED <<listVars, iCurrBlock, enAlgorithm, rem, main>>

\* Into an empty list.
LinkFirst ==
  /\ InsAt({"first"})
  /\ firstNode' = ins.new
  /\ ins' = [ins EXCEPT !.at = "loadFirst"]
  /\ UNCHANGED <<node, lastNode, iSize, iCurrBlock, enAlgorithm, rem, main>>

\* lastNode = firstNode: the read.
LoadFirst ==
  /\ InsAt({"loadFirst"})
  /\ ins' = [ins EXCEPT !.at = "last", !.last = firstNode]
  /\ UNCHANGED <<node, listVars, iCurrBlock, enAlgorithm, rem, main>>

\* A bug to catch: the new node is reachable backwards only.
Mut_LinkNextNot ==
  /\ InsAt({"link"})
  /\ ins' = [ins EXCEPT !.at = "last", !.last = ins.new]
  /\ UNCHANGED <<node, listVars, iCurrBlock, enAlgorithm, rem, main>>

\* Behind the last node.
LinkNext ==
  /\ InsAt({"link"})
  /\ node' = [node EXCEPT ![lastNode].next = ins.new]
  /\ ins' = [ins EXCEPT !.at = "last", !.last = ins.new]
  /\ UNCHANGED <<listVars, iCurrBlock, enAlgorithm, rem, main>>

\* The store of lastNode: firstNode as it was read, or the new node.
SetLast ==
  /\ InsAt({"last"})
  /\ lastNode' = ins.last
  /\ ins' = [ins EXCEPT !.at = "load"]
  /\ UNCHANGED <<node, firstNode, iSize, iCurrBlock, enAlgorithm, rem, main>>

\* iSize++ reads and then writes.
InsReadSize ==
  /\ InsAt({"load"})
  /\ ins' = [ins EXCEPT !.at = "store", !.size = iSize]
  /\ UNCHANGED <<node, listVars, iCurrBlock, enAlgorithm, rem, main>>

InsWriteSize ==
  /\ InsAt({"store"})
  /\ iSize' = ins.size + 1
  /\ ins' = NoInsertion
  /\ UNCHANGED <<node, firstNode, lastNode, iCurrBlock, enAlgorithm, rem, main>>

------------------------------------------------------------------------------
(* diskScheduler and removeNode, without queueMutex *)

\* A bug to catch: the nodes are searched from the last one on.
Mut_PickedBackwards(nodes) ==
  LET back == Reverse(nodes)
      blocks == Blocks(back)
  IN  back[CASE enAlgorithm = "FCFS" -> fcfsSched(blocks, iCurrBlock)
             [] enAlgorithm = "SSTF" -> sstfSched(blocks, iCurrBlock)
             [] enAlgorithm = "CSCAN" -> cscanSched(blocks, iCurrBlock)]

\* A bug to catch: CSCAN has no case of its own and falls to the default.
Mut_PickedByDefault(nodes) ==
  LET blocks == Blocks(nodes)
  IN  nodes[IF enAlgorithm = "SSTF" THEN sstfSched(blocks, iCurrBlock) ELSE fcfsSched(blocks, iCurrBlock)]

\* A bug to catch: the loops run on to the end of the list, counted or not.
Mut_VisitedAll == Forward

\* The nodes the loops of sstfSched and cscanSched visit: at most iSize of them, and the
\* first one in any case, which is their candidate from the start.  They read iSize once
\* and the links later, but until the removal only a node behind these can be linked.
Visited == [i \in {j \in DOMAIN Forward : j = 1 \/ j <= iSize} |-> Forward[i]]

\* The node an algorithm returns.
Picked(nodes) ==
  LET blocks == Blocks(nodes)
  IN  nodes[CASE enAlgorithm = "FCFS" -> fcfsSched(blocks, iCurrBlock)
              [] enAlgorithm = "SSTF" -> sstfSched(blocks, iCurrBlock)
              [] enAlgorithm = "CSCAN" -> cscanSched(blocks, iCurrBlock)]

\* isEmpty, the switch and the call of removeNode.
diskScheduler ==
  /\ RemAt({"idle"})
  /\ firstNode # NULL
  /\ LET n == Picked(Visited)
     IN  rem' = [rem EXCEPT !.at = "test", !.node = n, !.block = node[n].block]
  /\ UNCHANGED <<node, listVars, iCurrBlock, enAlgorithm, ins, main>>

\* removeNode: which of the four cases applies.
removeNode ==
  /\ RemAt({"test"})
  /\ LET n == node[rem.node]
     IN  rem' = [rem EXCEPT !.at = "unlink",
                            !.shape = CASE n.next = NULL /\ n.prev = NULL -> "only"
                                        [] n.next = NULL /\ n.prev # NULL -> "last"
                                        [] n.next # NULL /\ n.prev = NULL -> "first"
                                        [] OTHER -> "middle"]
  /\ UNCHANGED <<node, listVars, iCurrBlock, enAlgorithm, ins, main>>

\* The first assignment of the case.
Unlink ==
  /\ RemAt({"unlink"})
  /\ LET n == node[rem.node]
     IN  CASE rem.shape = "only" -> firstNode' = NULL /\ UNCHANGED node
           [] rem.shape = "first" -> node' = [node EXCEPT ![n.next].prev = NULL] /\ UNCHANGED firstNode
           [] OTHER -> node' = [node EXCEPT ![n.prev].next = n.next] /\ UNCHANGED firstNode
  /\ rem' = [rem EXCEPT !.at = "relink"]
  /\ UNCHANGED <<lastNode, iSize, iCurrBlock, enAlgorithm, ins, main>>

\* A bug to catch: the node behind a removed one keeps pointing back at it.
Mut_RelinkForwardOnly ==
  /\ RemAt({"relink"})
  /\ firstNode' = IF rem.shape = "first" THEN node[rem.node].next ELSE firstNode
  /\ lastNode' = CASE rem.shape = "only" -> NULL
                   [] rem.shape = "last" -> node[rem.node].prev
                   [] OTHER -> lastNode
  /\ rem' = [rem EXCEPT !.at = "free"]
  /\ UNCHANGED <<node, iSize, iCurrBlock, enAlgorithm, ins, main>>

\* The second assignment of the case.
Relink ==
  /\ RemAt({"relink"})
  /\ LET n == node[rem.node]
     IN  /\ firstNode' = IF rem.shape = "first" THEN n.next ELSE firstNode
         /\ lastNode' = CASE rem.shape = "only" -> NULL
                          [] rem.shape = "last" -> n.prev
                          [] OTHER -> lastNode
         /\ node' = IF rem.shape = "middle" THEN [node EXCEPT ![n.next].prev = n.prev] ELSE node
  /\ rem' = [rem EXCEPT !.at = "free"]
  /\ UNCHANGED <<iSize, iCurrBlock, enAlgorithm, ins, main>>

Free ==
  /\ RemAt({"free"})
  /\ node' = Restrict(node, DOMAIN node \ {rem.node})
  /\ rem' = [rem EXCEPT !.at = "load"]
  /\ UNCHANGED <<listVars, iCurrBlock, enAlgorithm, ins, main>>

RemReadSize ==
  /\ RemAt({"load"})
  /\ rem' = [rem EXCEPT !.at = "store", !.size = iSize]
  /\ UNCHANGED <<node, listVars, iCurrBlock, enAlgorithm, ins, main>>

\* A bug to catch: iSize is not decremented.
Mut_RemWriteSizeNot ==
  /\ RemAt({"store"})
  /\ iCurrBlock' = rem.block
  /\ rem' = NoRemoval
  /\ UNCHANGED <<node, listVars, enAlgorithm, ins, main>>

\* iSize is stored; then, the disk being idle, diskScheduler moves the head.  It reads the
\* block from the freed node; what happens if the node has a new owner is in DiskManager.
RemWriteSize ==
  /\ RemAt({"store"})
  /\ iSize' = rem.size - 1
  /\ iCurrBlock' = rem.block
  /\ rem' = NoRemoval
  /\ UNCHANGED <<node, firstNode, lastNode, enAlgorithm, ins, main>>

------------------------------------------------------------------------------
\* finishDiskTask, at the exit of main.
finishDiskTask ==
  /\ main = "running" /\ ~Torn
  /\ IF ins.at = "idle" /\ rem.at = "idle"
     THEN /\ main' = "exited"
          /\ IF iSize # 0
             THEN /\ node' = Restrict(node, DOMAIN node \ Range(Forward))
                  /\ firstNode' = NULL /\ lastNode' = NULL /\ iSize' = 0
             ELSE UNCHANGED <<node, listVars>>
     ELSE main' = "interfered" /\ UNCHANGED <<node, listVars>>
  /\ UNCHANGED <<iCurrBlock, enAlgorithm, ins, rem>>

Insertion ==
  \/ \E b \in 0 .. LastBlock : addNodeInFront(b)
  \/ LinkFirst \/ LoadFirst \/ LinkNext \/ SetLast \/ InsReadSize \/ InsWriteSize

Removal ==
  diskScheduler \/ removeNode \/ Unlink \/ Relink \/ Free \/ RemReadSize \/ RemWriteSize

Next == Insertion \/ Removal \/ finishDiskTask \/ (Torn /\ UNCHANGED vars)

Spec == Init /\ [][Next]_vars

------------------------------------------------------------------------------
(* Properties *)

\* Whatever ticks have struck inside addNodeInFront and removeNode, as long as none tore
\* the list: when both are out of it, the nodes read backwards from lastNode are those
\* read forwards from firstNode, they are the allocated ones (nothing leaks, finishDiskTask
\* included), and iSize is their number, which is what finishDiskTask trusts.
WellLinked ==
  ~Torn /\ ins.at = "idle" /\ rem.at = "idle" =>
    /\ Backward = Reverse(Forward)
    /\ DOMAIN node = Range(Forward)
    /\ iSize = Len(Forward)

\* No statement of addNodeInFront or removeNode follows a null pointer or a pointer to a
\* freed node, although each may run between any two statements of the other.
DereferencesLiveNodes ==
  ~Torn =>
    /\ ins.at = "link" => lastNode \in DOMAIN node
    /\ rem.at \in {"test", "unlink", "relink", "free"} => rem.node \in DOMAIN node
    /\ rem.at \in {"unlink", "relink"} =>
         /\ rem.shape \in {"last", "middle"} => node[rem.node].prev \in DOMAIN node
         /\ rem.shape \in {"first", "middle"} => node[rem.node].next \in DOMAIN node

\* The queue of nodes that the list stands for: without the one being removed.  Once freed
\* its number may be that of a new node.
Pending ==
  LET nodes == Forward
      removed == IF rem.at \in {"load", "store"} THEN {}
                 ELSE {i \in DOMAIN nodes : nodes[i] = rem.node}
  IN  IF removed = {} THEN nodes ELSE RemoveAt(nodes, CHOOSE i \in removed : TRUE)

\* addNodeInFront has linked its node and not counted it in iSize yet.
Linked == ins.at \in {"loadFirst", "last", "load", "store"}
Uncounted == Linked /\ ins.new \in Range(Pending)

Order ==
  INSTANCE SeekOrder WITH
    list <- Blocks(Pending),
    arriving <- Uncounted,
    iCurrBlock <- IF rem.at = "idle" THEN iCurrBlock ELSE rem.block

\* Insertion takes effect at the store of firstNode or of next, a removal when its node is
\* picked: the list is the queue of SeekOrder however the two interleave.
ImplementsSeekOrder == Order!Spec

\* diskScheduler takes node n under one of the algorithms.
Picks(n, algorithm) == enAlgorithm = algorithm /\ rem.at = "idle" /\ rem'.at = "test" /\ rem'.node = n

\* The requests an algorithm has to choose among, by their places in the list: the ones
\* whose insertion is complete, or the one that is being inserted if it is alone.
Complete == {i \in DOMAIN Forward : Forward[i] # ins.new}
Candidates == IF Complete = {} THEN DOMAIN Forward ELSE Complete
Ahead == {i \in Candidates : node[Forward[i]].block >= iCurrBlock}

SeekDist(i) == Distance(node[Forward[i]].block, iCurrBlock)
BlockOf(i) == node[Forward[i]].block

\* Under SSTF the node diskScheduler takes is the oldest of the nearest complete requests,
\* wherever ticks have left addNodeInFront, whatever was removed before.
SSTFIsNearest ==
  [][\A i \in DOMAIN Forward : Picks(Forward[i], "SSTF") => IsFirstLeast(i, Candidates, SeekDist)]_vars

\* Under CSCAN, when every complete request is behind the head, diskScheduler restarts
\* from the oldest of the lowest ones.
CSCANRestarts ==
  [][\A i \in DOMAIN Forward :
       Picks(Forward[i], "CSCAN") /\ Ahead = {} => IsFirstLeast(i, Candidates, BlockOf)]_vars

\* Under CSCAN (the enum of ppos_disk.h: Circular SCAN) the head sweeps one way, as long
\* as the oldest request is not behind it: the minimum of cscanSched's loop starts from
\* that request.  The next block is then the nearest one at or beyond the head.
CSCANSweeps ==
  [][\A i \in DOMAIN Forward :
       Picks(Forward[i], "CSCAN") /\ 1 \in Ahead => IsFirstLeast(i, Ahead, BlockOf)]_vars

=============================================================================
