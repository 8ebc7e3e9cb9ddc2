------------------------------ MODULE DiskSched ------------------------------
(***************************************************************************)
(* The disk-arm scheduling algorithms of src/ppos_disk.c: which node of    *)
(* the request list is treated next.  A list is abstracted to the sequence *)
(* of the block numbers of its nodes, first node first; an algorithm       *)
(* returns the index of the node it picks.  Each loop over the list is a   *)
(* fold with the loop's variables as its accumulator.  The declarative     *)
(* definitions next to the loops say what each algorithm is for.           *)
(***************************************************************************)
EXTENDS Selection

Distance(a, b) == IF a < b THEN b - a ELSE a - b

\* fcfsSched: the first node.
fcfsSched(blocks, head) == 1

\* sstfSched: the loop keeps the first node that is strictly nearer than all before it.
sstfSched(blocks, head) ==
  LET Visit(acc, i) ==
        LET seekDist == Distance(blocks[i], head)
        IN  IF seekDist < acc.shortest THEN [shortest |-> seekDist, nearest |-> i] ELSE acc
  IN  FoldLeftDomain(Visit, [shortest |-> Distance(blocks[1], head), nearest |-> 1], blocks).nearest

\* A bug to catch: the candidate in front is the last one met, not the nearest.
Mut_cscanSchedLastInFront(blocks, head) ==
  LET Visit(acc, i) ==
        CASE blocks[i] >= head -> [acc EXCEPT !.isInFront = 1, !.front = i]
          [] blocks[i] < head /\ blocks[i] < acc.shortest ->
               [acc EXCEPT !.shortest = blocks[i], !.behind = i]
          [] OTHER -> acc
      End == FoldLeftDomain(Visit,
               [isInFront |-> 0, front |-> 1, shortest |-> blocks[1], behind |-> 1], blocks)
  IN  IF End.isInFront = 1 THEN End.front ELSE End.behind

\* cscanSched: both candidates and both minima start from the first node.
cscanSched(blocks, head) ==
  LET Visit(acc, i) ==
        CASE blocks[i] >= head /\ blocks[i] - head < acc.shortestFront ->
               [acc EXCEPT !.isInFront = 1, !.shortestFront = blocks[i] - head, !.front = i]
          [] blocks[i] >= head /\ blocks[i] - head >= acc.shortestFront ->
               [acc EXCEPT !.isInFront = 1]
          [] blocks[i] < head /\ blocks[i] < acc.shortest ->
               [acc EXCEPT !.shortest = blocks[i], !.behind = i]
          [] OTHER -> acc
      End == FoldLeftDomain(Visit,
               [isInFront |-> 0, shortestFront |-> blocks[1] - head, front |-> 1,
                shortest |-> blocks[1], behind |-> 1], blocks)
  IN  IF End.isInFront = 1 THEN End.front ELSE End.behind

------------------------------------------------------------------------------
\* Shortest seek time first: the oldest of the nodes nearest to the head.
IsNearest(i, blocks, head) ==
  LET SeekDist(j) == Distance(blocks[j], head)
  IN  IsFirstLeast(i, DOMAIN blocks, SeekDist)

\* Circular scan: the next block at or beyond the head; when none is left, the lowest.
InFront(blocks, head) == {j \in DOMAIN blocks : blocks[j] >= head}

=============================================================================
