--------------------------- MODULE DiskSchedProofs ---------------------------
(***************************************************************************)
(* What the loops of the disk-arm scheduling algorithms return, for every  *)
(* list and every head: proofs about the folds of DiskSched.  In each, the *)
(* recursive function behind the fold exists, its values on the prefixes   *)
(* of the indices are the loop's variables after so many nodes, and a loop *)
(* invariant holds of them.                                                *)
(***************************************************************************)
EXTENDS DiskSched, ListLemmas

\* sstfSched: of the nodes nearest to the head it returns the oldest.
THEOREM SSTFPicksNearest ==
  ASSUME NEW blocks \in Seq(Nat), blocks # <<>>, NEW head \in Nat
  PROVE  IsNearest(sstfSched(blocks, head), blocks, head)
<1> DEFINE n == Len(blocks)
           D(j) == Distance(blocks[j], head)
           A == [shortest : Nat, nearest : 1 .. n]
           base == [shortest |-> D(1), nearest |-> 1]
           Visit(acc, i) ==
             LET seekDist == D(i)
             IN  IF seekDist < acc.shortest THEN [shortest |-> seekDist, nearest |-> i] ELSE acc
           step == [p \in A \X (1 .. n) |-> Visit(p[1], p[2])]
           id == [i \in DOMAIN blocks |-> i]
           Loop(f) == f = [s \in SUBSET (DOMAIN id) |->
                             IF s = {} THEN base ELSE LET x == Max(s) IN Visit(f[s \ {x}], id[x])]
           after == CHOOSE f : Loop(f)
<1>1. sstfSched(blocks, head) = after[DOMAIN id].nearest
  BY DEF sstfSched, FoldLeftDomain, FoldLeft, MapThenFoldSet
<1>2. /\ n \in Nat /\ n >= 1 /\ DOMAIN id = 1 .. n /\ DOMAIN blocks = 1 .. n
      /\ \A i \in 1 .. n : D(i) \in Nat
  BY DEF Distance
<1>3. \A acc \in A : \A i \in 1 .. n : Visit(acc, i) \in A
  BY <1>2
<1>4. \E f : Loop(f)
  <2>1. base \in A
    BY <1>2
  <2>2. step \in [A \X (1 .. n) -> A]
    BY <1>3
  <2> HIDE DEF A, base
  <2>3. PICK f \in [SUBSET (1 .. n) -> A] : IsFold(n, base, step, f)
    <3> HIDE DEF step, n
    <3> QED
      BY <1>2, <2>1, <2>2, FoldExists
  <2>4. \A s \in SUBSET (1 .. n) : s # {} => Max(s) \in 1 .. n /\ s \ {Max(s)} \in SUBSET (1 .. n)
    <3> HIDE DEF n
    <3> QED
      BY <1>2, MaxIsIn
  <2>5. \A s \in SUBSET (1 .. n) : s # {} =>
           step[<<f[s \ {Max(s)}], Max(s)>>] = Visit(f[s \ {Max(s)}], id[Max(s)])
    BY <2>3, <2>4, <1>2
  <2>6. Loop(f)
    <3> HIDE DEF Visit, id, step
    <3> QED
      BY <2>3, <2>5, <1>2 DEF IsFold, FoldBody
  <2> QED
    BY <2>6
<1>5. Loop(after)
  BY <1>4
<1> HIDE DEF after
<1>6. after[{}] = base /\ \A k \in 0 .. n - 1 : after[1 .. k + 1] = Visit(after[1 .. k], k + 1)
  <2>1. after[{}] = base
    BY <1>5
  <2>2. ASSUME NEW k \in 0 .. n - 1 PROVE after[1 .. k + 1] = Visit(after[1 .. k], k + 1)
    <3>1. /\ 1 .. k + 1 \in SUBSET (1 .. n) /\ 1 .. k + 1 # {}
          /\ Max(1 .. k + 1) = k + 1 /\ (1 .. k + 1) \ {k + 1} = 1 .. k
      <4> HIDE DEF n
      <4> QED
        BY <1>2, IndexPrefixes
    <3>2. id[k + 1] = k + 1
      BY <1>2
    <3> HIDE DEF Visit, id, base
    <3> QED
      BY <1>5, <3>1, <3>2, <1>2
  <2> QED
    BY <2>1, <2>2
<1> DEFINE Best(k, acc) == /\ acc \in A
                           /\ acc.shortest = D(acc.nearest)
                           /\ acc.nearest = 1 \/ acc.nearest <= k
                           /\ \A j \in 1 .. k : /\ acc.shortest <= D(j)
                                                /\ j < acc.nearest => acc.shortest < D(j)
           S == {k \in 0 .. n : Best(k, after[1 .. k])}
<1>7. Best(0, after[1 .. 0])
  <2>1. 1 .. 0 = {}
    OBVIOUS
  <2>2. Best(0, base)
    BY <1>2
  <2> QED
    BY <2>1, <2>2, <1>6
<1>8. ASSUME NEW k \in 0 .. n - 1, NEW acc, Best(k, acc)
      PROVE  Best(k + 1, Visit(acc, k + 1))
  <2>1. /\ k + 1 \in 1 .. n /\ k \in Nat /\ D(k + 1) \in Nat
        /\ acc.shortest \in Nat /\ acc.nearest \in 1 .. n /\ acc.shortest = D(acc.nearest)
    BY <1>2, <1>8
  <2>2. \A j \in 1 .. k + 1 : j \in 1 .. k \/ j = k + 1
    BY <2>1
  <2>3. \A j \in 1 .. k : D(j) \in Nat
    BY <1>2, <2>1
  <2>4. CASE D(k + 1) < acc.shortest
    <3>1. Visit(acc, k + 1) = [shortest |-> D(k + 1), nearest |-> k + 1]
      BY <2>4
    <3>2. \A j \in 1 .. k + 1 : D(k + 1) <= D(j) /\ (j < k + 1 => D(k + 1) < D(j))
      <4> HIDE DEF D, Visit
      <4> QED
        BY <1>8, <2>1, <2>2, <2>3, <2>4
    <3> HIDE DEF D, Visit
    <3> QED
      BY <2>1, <3>1, <3>2
  <2>5. CASE ~(D(k + 1) < acc.shortest)
    <3>1. Visit(acc, k + 1) = acc
      BY <2>5
    <3>2. acc.nearest <= k + 1
      BY <1>8, <2>1
    <3> HIDE DEF D, Visit
    <3>3. \A j \in 1 .. k + 1 : acc.shortest <= D(j) /\ (j < acc.nearest => acc.shortest < D(j))
      BY <1>8, <2>1, <2>2, <2>3, <2>5
    <3> QED
      BY <1>8, <2>1, <3>1, <3>2, <3>3
  <2> QED
    BY <2>4, <2>5
<1>9. Best(n, after[1 .. n])
  <2>1. 0 \in S /\ \A k \in 0 .. n - 1 : k \in S => k + 1 \in S
    <3> HIDE DEF Best, Visit
    <3> QED
      BY <1>2, <1>6, <1>7, <1>8
  <2>2. 0 .. n \subseteq S
    <3> HIDE DEF S
    <3> QED
      BY <1>2, <2>1, IndexInduction
  <2>3. n \in S
    <3> HIDE DEF S, n
    <3> QED
      BY <2>2, <1>2
  <2> HIDE DEF Best
  <2> QED
    BY <2>3
<1> QED
  <2> HIDE DEF D
  <2>1. IsNearest(after[1 .. n].nearest, blocks, head)
    BY <1>2, <1>9 DEF IsNearest, IsFirstLeast, D
  <2> QED
    BY <2>1, <1>1, <1>2

------------------------------------------------------------------------------
(* cscanSched *)

\* The variables of the loop over n nodes, and its body at node i.
CSCANVariables(n) ==
  [isInFront : 0 .. 1, shortestFront : Int, front : 1 .. n, shortest : Nat, behind : 1 .. n]

CSCANStart(blocks, head) ==
  [isInFront |-> 0, shortestFront |-> blocks[1] - head, front |-> 1,
   shortest |-> blocks[1], behind |-> 1]

CSCANNearer(acc, d, i) == [acc EXCEPT !.isInFront = 1, !.shortestFront = d, !.front = i]

CSCANVisit(blocks, head, acc, i) ==
  CASE blocks[i] >= head /\ blocks[i] - head < acc.shortestFront ->
         CSCANNearer(acc, blocks[i] - head, i)
    [] blocks[i] >= head /\ blocks[i] - head >= acc.shortestFront ->
         [acc EXCEPT !.isInFront = 1]
    [] blocks[i] < head /\ blocks[i] < acc.shortest ->
         [acc EXCEPT !.shortest = blocks[i], !.behind = i]
    [] OTHER -> acc

\* A new candidate in front: three variables change, the others do not.
LEMMA NewCandidate ==
  ASSUME NEW n \in Nat, NEW acc \in CSCANVariables(n), NEW d \in Int, NEW i \in 1 .. n
  PROVE  LET new == CSCANNearer(acc, d, i)
         IN  /\ new \in CSCANVariables(n)
             /\ new.isInFront = 1 /\ new.shortestFront = d /\ new.front = i
             /\ new.shortest = acc.shortest /\ new.behind = acc.behind
<1>1. PICK first : first = [acc EXCEPT !.isInFront = 1]
  OBVIOUS
<1>2. /\ first \in CSCANVariables(n) /\ first.isInFront = 1
      /\ first.shortest = acc.shortest /\ first.behind = acc.behind
  BY <1>1 DEF CSCANVariables
<1>3. PICK second : second = [first EXCEPT !.shortestFront = d]
  OBVIOUS
<1>4. /\ second \in CSCANVariables(n) /\ second.isInFront = 1 /\ second.shortestFront = d
      /\ second.shortest = acc.shortest /\ second.behind = acc.behind
  BY <1>2, <1>3 DEF CSCANVariables
<1>5. PICK new : new = [second EXCEPT !.front = i]
  OBVIOUS
<1>6. /\ new \in CSCANVariables(n) /\ new.isInFront = 1 /\ new.shortestFront = d /\ new.front = i
      /\ new.shortest = acc.shortest /\ new.behind = acc.behind
  BY <1>4, <1>5 DEF CSCANVariables
<1>7. new = CSCANNearer(acc, d, i)
  BY <1>1, <1>3, <1>5 DEF CSCANNearer
<1> QED
  BY <1>6, <1>7

\* The body of the loop, one variable at a time.
LEMMA VisitEffect ==
  ASSUME NEW n \in Nat, NEW acc \in CSCANVariables(n), NEW i \in 1 .. n,
         NEW blocks, blocks[i] \in Nat, NEW head \in Nat
  PROVE  LET new == CSCANVisit(blocks, head, acc, i)
             b == blocks[i]
             nearer == b >= head /\ b - head < acc.shortestFront
             lower == b < head /\ b < acc.shortest
         IN  /\ new \in CSCANVariables(n)
             /\ new.isInFront = IF b >= head THEN 1 ELSE acc.isInFront
             /\ new.front = IF nearer THEN i ELSE acc.front
             /\ new.shortestFront = IF nearer THEN b - head ELSE acc.shortestFront
             /\ new.behind = IF lower THEN i ELSE acc.behind
             /\ new.shortest = IF lower THEN b ELSE acc.shortest
<1> DEFINE new == CSCANVisit(blocks, head, acc, i)
           d == blocks[i] - head
<1>1. acc.shortestFront \in Int /\ acc.shortest \in Nat /\ d \in Int
  BY DEF CSCANVariables
<1>2. CASE blocks[i] >= head /\ d < acc.shortestFront
  <2>1. new = CSCANNearer(acc, d, i)
    BY <1>1, <1>2 DEF CSCANVisit
  <2>2. /\ new \in CSCANVariables(n)
        /\ new.isInFront = 1 /\ new.shortestFront = d /\ new.front = i
        /\ new.shortest = acc.shortest /\ new.behind = acc.behind
    <3> HIDE DEF new, d
    <3> QED
      BY <1>1, <2>1, NewCandidate
  <2> HIDE DEF new
  <2> QED
    BY <1>1, <1>2, <2>2 DEF new
<1>3. CASE blocks[i] >= head /\ ~(d < acc.shortestFront)
  <2>1. new = [acc EXCEPT !.isInFront = 1]
    BY <1>1, <1>3 DEF CSCANVisit
  <2>2. /\ new \in CSCANVariables(n)
        /\ new.isInFront = 1 /\ new.shortestFront = acc.shortestFront /\ new.front = acc.front
        /\ new.shortest = acc.shortest /\ new.behind = acc.behind
    <3> HIDE DEF new
    <3> QED
      BY <2>1 DEF CSCANVariables
  <2> HIDE DEF new
  <2> QED
    BY <1>1, <1>3, <2>2 DEF new
<1>4. CASE blocks[i] < head /\ blocks[i] < acc.shortest
  <2>1. new = [acc EXCEPT !.shortest = blocks[i], !.behind = i]
    BY <1>1, <1>4 DEF CSCANVisit
  <2>2. /\ new \in CSCANVariables(n)
        /\ new.isInFront = acc.isInFront /\ new.shortestFront = acc.shortestFront
        /\ new.front = acc.front /\ new.shortest = blocks[i] /\ new.behind = i
    <3> HIDE DEF new
    <3> QED
      BY <2>1 DEF CSCANVariables
  <2> HIDE DEF new
  <2> QED
    BY <1>1, <1>4, <2>2 DEF new
<1>5. CASE blocks[i] < head /\ ~(blocks[i] < acc.shortest)
  <2>1. new = acc
    BY <1>1, <1>5 DEF CSCANVisit
  <2> HIDE DEF new
  <2> QED
    BY <1>1, <1>5, <2>1 DEF new
<1> QED
  BY <1>1, <1>2, <1>3, <1>4, <1>5

\* The loop invariant after k nodes: whether one is in front; as long as none is, the oldest of
\* the lowest; if the first is, the oldest of the nearest in front.
CSCANInv(blocks, head, k, acc) ==
  /\ acc \in CSCANVariables(Len(blocks))
  /\ acc.isInFront = 1 <=> \E j \in 1 .. k : blocks[j] >= head
  /\ (\A j \in 1 .. k : blocks[j] < head) =>
       /\ acc.shortest = blocks[acc.behind]
       /\ acc.behind = 1 \/ acc.behind <= k
       /\ \A j \in 1 .. k : /\ acc.shortest <= blocks[j]
                            /\ j < acc.behind => acc.shortest < blocks[j]
  /\ blocks[1] >= head =>
       /\ acc.shortestFront = blocks[acc.front] - head
       /\ blocks[acc.front] >= head
       /\ acc.front = 1 \/ acc.front <= k
       /\ \A j \in 1 .. k : blocks[j] >= head =>
            /\ acc.shortestFront <= blocks[j] - head
            /\ j < acc.front => acc.shortestFront < blocks[j] - head

\* Each node keeps it.
LEMMA VisitKeepsInv ==
  ASSUME NEW blocks \in Seq(Nat), NEW head \in Nat, NEW k \in 0 .. Len(blocks) - 1, NEW acc,
         CSCANInv(blocks, head, k, acc)
  PROVE  CSCANInv(blocks, head, k + 1, CSCANVisit(blocks, head, acc, k + 1))
<1> DEFINE n == Len(blocks)
           b == blocks[k + 1]
           nearer == b >= head /\ b - head < acc.shortestFront
           lower == b < head /\ b < acc.shortest
<1>1. /\ n \in Nat /\ k + 1 \in 1 .. n /\ b \in Nat /\ acc \in CSCANVariables(n)
      /\ \A j \in 1 .. n : blocks[j] \in Nat
  BY DEF CSCANInv
<1>2. PICK new : new = CSCANVisit(blocks, head, acc, k + 1)
  OBVIOUS
<1>3. /\ new \in CSCANVariables(n)
      /\ new.isInFront = IF b >= head THEN 1 ELSE acc.isInFront
      /\ new.front = IF nearer THEN k + 1 ELSE acc.front
      /\ new.shortestFront = IF nearer THEN b - head ELSE acc.shortestFront
      /\ new.behind = IF lower THEN k + 1 ELSE acc.behind
      /\ new.shortest = IF lower THEN b ELSE acc.shortest
  <2>1. PICK m, i : m = n /\ i = k + 1
    OBVIOUS
  <2>2. m \in Nat /\ i \in 1 .. m /\ acc \in CSCANVariables(m) /\ blocks[i] \in Nat
    BY <1>1, <2>1
  <2>3. LET at == CSCANVisit(blocks, head, acc, i)
            c == blocks[i]
            near == c >= head /\ c - head < acc.shortestFront
            low == c < head /\ c < acc.shortest
        IN  /\ at \in CSCANVariables(m)
            /\ at.isInFront = IF c >= head THEN 1 ELSE acc.isInFront
            /\ at.front = IF near THEN i ELSE acc.front
            /\ at.shortestFront = IF near THEN c - head ELSE acc.shortestFront
            /\ at.behind = IF low THEN i ELSE acc.behind
            /\ at.shortest = IF low THEN c ELSE acc.shortest
    <3> HIDE DEF n, b
    <3> QED
      BY <2>2, VisitEffect
  <2> QED
    BY <1>2, <2>1, <2>3
<1>4. \A j \in 1 .. k + 1 : j \in 1 .. k \/ j = k + 1
  OBVIOUS
<1>5. /\ acc.front \in 1 .. n /\ acc.behind \in 1 .. n /\ acc.shortestFront \in Int
      /\ acc.shortest \in Nat
      /\ blocks[acc.front] \in Nat /\ blocks[acc.behind] \in Nat
  BY <1>1 DEF CSCANVariables
<1>6. new.isInFront = 1 <=> \E j \in 1 .. k + 1 : blocks[j] >= head
  <2>1. acc.isInFront = 1 <=> \E j \in 1 .. k : blocks[j] >= head
    BY DEF CSCANInv
  <2> QED
    BY <1>1, <1>3, <1>4, <2>1
<1>7. ASSUME \A j \in 1 .. k + 1 : blocks[j] < head
      PROVE  /\ new.shortest = blocks[new.behind]
             /\ new.behind = 1 \/ new.behind <= k + 1
             /\ \A j \in 1 .. k + 1 : /\ new.shortest <= blocks[j]
                                      /\ j < new.behind => new.shortest < blocks[j]
  <2>1. b < head /\ \A j \in 1 .. k : blocks[j] < head /\ blocks[j] \in Nat
    BY <1>1, <1>7
  <2>2. /\ acc.shortest = blocks[acc.behind]
        /\ acc.behind = 1 \/ acc.behind <= k
        /\ \A j \in 1 .. k : /\ acc.shortest <= blocks[j]
                             /\ j < acc.behind => acc.shortest < blocks[j]
    BY <2>1 DEF CSCANInv
  <2>3. CASE lower
    <3>1. new.behind = k + 1 /\ new.shortest = b
      BY <1>3, <2>3
    <3>2. ASSUME NEW j \in 1 .. k PROVE b < blocks[j]
      <4>1. acc.shortest <= blocks[j] /\ blocks[j] \in Nat
        BY <2>1, <2>2
      <4> HIDE DEF b
      <4> QED
        BY <1>1, <1>5, <2>3, <4>1
    <3> QED
      BY <1>1, <1>4, <3>1, <3>2
  <2>4. CASE ~lower
    <3>1. new.behind = acc.behind /\ new.shortest = acc.shortest /\ acc.shortest <= b
      BY <1>1, <1>3, <1>5, <2>1, <2>4
    <3>2. ~(k + 1 < acc.behind)
      <4>1. acc.behind = 1 \/ acc.behind <= k
        BY <2>2
      <4> HIDE DEF b, nearer, lower
      <4> QED
        BY <1>1, <1>5, <4>1
    <3> QED
      <4>1. new.behind = 1 \/ new.behind <= k + 1
        <5>1. acc.behind = 1 \/ acc.behind <= k
          BY <2>2
        <5> HIDE DEF b, nearer, lower
        <5> QED
          BY <1>1, <1>5, <3>1, <5>1
      <4>2. \A j \in 1 .. k + 1 : /\ new.shortest <= blocks[j]
                                  /\ j < new.behind => new.shortest < blocks[j]
        BY <1>4, <2>2, <3>1, <3>2
      <4> QED
        BY <2>2, <3>1, <4>1, <4>2
  <2> QED
    BY <2>3, <2>4
<1>8. ASSUME blocks[1] >= head
      PROVE  /\ new.shortestFront = blocks[new.front] - head
             /\ blocks[new.front] >= head
             /\ new.front = 1 \/ new.front <= k + 1
             /\ \A j \in 1 .. k + 1 : blocks[j] >= head =>
                  /\ new.shortestFront <= blocks[j] - head
                  /\ j < new.front => new.shortestFront < blocks[j] - head
  <2>1. /\ acc.shortestFront = blocks[acc.front] - head
        /\ blocks[acc.front] >= head
        /\ acc.front = 1 \/ acc.front <= k
        /\ \A j \in 1 .. k : blocks[j] >= head =>
             /\ acc.shortestFront <= blocks[j] - head
             /\ j < acc.front => acc.shortestFront < blocks[j] - head
    BY <1>8 DEF CSCANInv
  <2>2. \A j \in 1 .. k : blocks[j] \in Nat
    BY <1>1
  <2>3. CASE nearer
    <3>1. new.front = k + 1 /\ new.shortestFront = b - head /\ b >= head
      BY <1>3, <2>3
    <3>2. ASSUME NEW j \in 1 .. k, blocks[j] >= head PROVE b - head < blocks[j] - head
      <4>1. acc.shortestFront <= blocks[j] - head /\ blocks[j] \in Nat
        BY <2>1, <2>2, <3>2
      <4>2. b \in Nat /\ acc.shortestFront \in Int /\ b - head < acc.shortestFront
        BY <1>1, <1>5, <2>3
      <4> HIDE DEF b
      <4> QED
        BY <4>1, <4>2
    <3> QED
      BY <1>1, <1>4, <3>1, <3>2
  <2>4. CASE ~nearer
    <3>1. /\ new.front = acc.front /\ new.shortestFront = acc.shortestFront
          /\ b >= head => acc.shortestFront <= b - head
      <4>1. new.front = acc.front /\ new.shortestFront = acc.shortestFront
        <5> HIDE DEF nearer
        <5> QED
          BY <1>3, <2>4
      <4> HIDE DEF b
      <4>2. b >= head => acc.shortestFront <= b - head
        BY <1>1, <1>5, <2>4
      <4> QED
        BY <4>1, <4>2
    <3>2. ~(k + 1 < acc.front)
      <4>1. acc.front = 1 \/ acc.front <= k
        BY <2>1
      <4> HIDE DEF b, nearer, lower
      <4> QED
        BY <1>1, <1>5, <4>1
    <3> QED
      BY <1>1, <1>4, <1>5, <2>1, <3>1, <3>2
  <2> QED
    BY <2>3, <2>4
<1> QED
  BY <1>2, <1>3, <1>6, <1>7, <1>8 DEF CSCANInv

\* The loop has the invariant after its last node.
LEMMA CSCANLoop ==
  ASSUME NEW blocks \in Seq(Nat), blocks # <<>>, NEW head \in Nat
  PROVE  \E end : /\ CSCANInv(blocks, head, Len(blocks), end)
                  /\ cscanSched(blocks, head) = IF end.isInFront = 1 THEN end.front ELSE end.behind
<1> DEFINE n == Len(blocks)
           A == CSCANVariables(n)
           base == CSCANStart(blocks, head)
           Visit(acc, i) == CSCANVisit(blocks, head, acc, i)
           step == [p \in A \X (1 .. n) |-> Visit(p[1], p[2])]
           id == [i \in DOMAIN blocks |-> i]
           Loop(f) == f = [s \in SUBSET (DOMAIN id) |->
                             IF s = {} THEN base ELSE LET x == Max(s) IN Visit(f[s \ {x}], id[x])]
           after == CHOOSE f : Loop(f)
           Good(k) == CSCANInv(blocks, head, k, after[1 .. k])
           S == {k \in 0 .. n : Good(k)}
<1>1. cscanSched(blocks, head) = IF after[DOMAIN id].isInFront = 1 THEN after[DOMAIN id].front
                                 ELSE after[DOMAIN id].behind
  BY DEF cscanSched, FoldLeftDomain, FoldLeft, MapThenFoldSet, CSCANStart, CSCANVisit, CSCANNearer
<1>2. /\ n \in Nat /\ n >= 1 /\ DOMAIN id = 1 .. n /\ DOMAIN blocks = 1 .. n
      /\ \A i \in 1 .. n : blocks[i] \in Nat
  OBVIOUS
<1>3. \A acc \in A : \A i \in 1 .. n : Visit(acc, i) \in A
  <2> HIDE DEF n
  <2> QED
    BY <1>2, VisitEffect
<1>4. \E f : Loop(f)
  <2>1. base \in A
    BY <1>2 DEF CSCANStart, CSCANVariables
  <2>2. step \in [A \X (1 .. n) -> A]
    BY <1>3
  <2> HIDE DEF A, base
  <2>3. PICK f \in [SUBSET (1 .. n) -> A] : IsFold(n, base, step, f)
    <3> HIDE DEF step, n
    <3> QED
      BY <1>2, <2>1, <2>2, FoldExists
  <2>4. \A s \in SUBSET (1 .. n) : s # {} => Max(s) \in 1 .. n /\ s \ {Max(s)} \in SUBSET (1 .. n)
    <3> HIDE DEF n
    <3> QED
      BY <1>2, MaxIsIn
  <2>5. \A s \in SUBSET (1 .. n) : s # {} =>
           step[<<f[s \ {Max(s)}], Max(s)>>] = Visit(f[s \ {Max(s)}], id[Max(s)])
    BY <2>3, <2>4, <1>2
  <2>6. Loop(f)
    <3> HIDE DEF Visit, id, step
    <3> QED
      BY <2>3, <2>5, <1>2 DEF IsFold, FoldBody
  <2> QED
    BY <2>6
<1>5. Loop(after)
  BY <1>4
<1> HIDE DEF after
<1>6. after[{}] = base
  BY <1>5
<1>7. ASSUME NEW k \in 0 .. n - 1
      PROVE  after[1 .. k + 1] = Visit(after[1 .. k], k + 1)
  <2>1. /\ 1 .. k + 1 \in SUBSET (1 .. n) /\ 1 .. k + 1 # {}
        /\ Max(1 .. k + 1) = k + 1 /\ (1 .. k + 1) \ {k + 1} = 1 .. k
    <3> HIDE DEF n
    <3> QED
      BY <1>2, IndexPrefixes
  <2>2. id[k + 1] = k + 1
    BY <1>2
  <2> HIDE DEF Visit, id, base
  <2> QED
    BY <1>5, <1>2, <2>1, <2>2
<1>8. Good(0)
  <2>1. 1 .. 0 = {}
    OBVIOUS
  <2>2. /\ base \in A /\ base.isInFront = 0 /\ base.front = 1 /\ base.behind = 1
        /\ base.shortest = blocks[1] /\ base.shortestFront = blocks[1] - head
    BY <1>2 DEF CSCANStart, CSCANVariables
  <2>3. \A acc : acc = base => CSCANInv(blocks, head, 0, acc)
    <3> HIDE DEF base
    <3> QED
      BY <1>2, <2>1, <2>2 DEF CSCANInv
  <2> QED
    BY <2>1, <2>3, <1>6
<1>9. 0 \in S /\ \A k \in 0 .. n - 1 : k \in S => k + 1 \in S
  <2>1. ASSUME NEW k \in 0 .. n - 1, Good(k) PROVE Good(k + 1)
    <3>1. CSCANInv(blocks, head, k + 1, Visit(after[1 .. k], k + 1))
      BY <2>1, VisitKeepsInv
    <3> HIDE DEF Visit
    <3> QED
      BY <3>1, <1>7
  <2> HIDE DEF Good
  <2> QED
    BY <1>2, <1>8, <2>1
<1>10. 0 .. n \subseteq S
  <2> HIDE DEF S
  <2> QED
    BY <1>2, <1>9, IndexInduction
<1>11. Good(n)
  BY <1>2, <1>10
<1> QED
  BY <1>1, <1>2, <1>11

\* cscanSched returns a node of the list.  When every block is behind the head, it is the
\* oldest of the lowest ones; when the first node is not behind the head, the oldest of the
\* nearest ones at or beyond it.
THEOREM CSCANPicks ==
  ASSUME NEW blocks \in Seq(Nat), blocks # <<>>, NEW head \in Nat
  PROVE  LET picked == cscanSched(blocks, head)
             Block(j) == blocks[j]
         IN  /\ picked \in DOMAIN blocks
             /\ InFront(blocks, head) = {} => IsFirstLeast(picked, DOMAIN blocks, Block)
             /\ 1 \in InFront(blocks, head) => IsFirstLeast(picked, InFront(blocks, head), Block)
<1> DEFINE n == Len(blocks)
           picked == cscanSched(blocks, head)
<1>1. PICK end : /\ CSCANInv(blocks, head, n, end)
                 /\ picked = IF end.isInFront = 1 THEN end.front ELSE end.behind
  BY CSCANLoop
<1> HIDE DEF picked
<1>2. /\ n \in Nat /\ n >= 1 /\ DOMAIN blocks = 1 .. n /\ \A i \in 1 .. n : blocks[i] \in Nat
  OBVIOUS
<1>3. end.front \in 1 .. n /\ end.behind \in 1 .. n /\ end.isInFront \in 0 .. 1
  BY <1>1 DEF CSCANInv, CSCANVariables
<1>4. end.isInFront = 1 <=> \E j \in 1 .. n : blocks[j] >= head
  BY <1>1 DEF CSCANInv
<1>5. ASSUME InFront(blocks, head) = {}
      PROVE  /\ picked \in 1 .. n
             /\ \A j \in 1 .. n : /\ blocks[picked] <= blocks[j]
                                  /\ j < picked => blocks[picked] < blocks[j]
  <2>1. \A j \in 1 .. n : blocks[j] < head
    BY <1>5, <1>2 DEF InFront
  <2>2. picked = end.behind
    BY <1>1, <1>2, <1>4, <2>1
  <2>3. /\ end.shortest = blocks[end.behind]
        /\ \A j \in 1 .. n : /\ end.shortest <= blocks[j]
                             /\ j < end.behind => end.shortest < blocks[j]
    BY <1>1, <2>1 DEF CSCANInv
  <2> QED
    BY <1>3, <2>2, <2>3
<1>6. ASSUME 1 \in InFront(blocks, head)
      PROVE  /\ picked \in InFront(blocks, head)
             /\ \A j \in InFront(blocks, head) : /\ blocks[picked] <= blocks[j]
                                                 /\ j < picked => blocks[picked] < blocks[j]
  <2>1. 1 \in 1 .. n /\ blocks[1] >= head
    BY <1>6, <1>2 DEF InFront
  <2>2. picked = end.front
    BY <1>1, <1>4, <2>1
  <2>3. /\ end.shortestFront = blocks[end.front] - head
        /\ blocks[end.front] >= head
        /\ \A j \in 1 .. n : blocks[j] >= head =>
             /\ end.shortestFront <= blocks[j] - head
             /\ j < end.front => end.shortestFront < blocks[j] - head
    BY <1>1, <2>1 DEF CSCANInv
  <2>4. \A j \in InFront(blocks, head) : j \in 1 .. n /\ blocks[j] \in Nat /\ blocks[j] >= head
    BY <1>2 DEF InFront
  <2>5. blocks[end.front] \in Nat /\ picked \in InFront(blocks, head)
    BY <1>2, <1>3, <2>2, <2>3 DEF InFront
  <2>6. ASSUME NEW j \in InFront(blocks, head)
        PROVE  /\ blocks[end.front] <= blocks[j]
               /\ j < end.front => blocks[end.front] < blocks[j]
    <3> DEFINE c == blocks[j]
               a == blocks[end.front]
               d == end.shortestFront
    <3>1. d = a - head /\ a \in Nat
      BY <2>3, <2>5
    <3>2. c \in Nat /\ d <= c - head /\ (j < end.front => d < c - head)
      BY <2>3, <2>4
    <3> HIDE DEF a, c, d
    <3>3. a <= c /\ (j < end.front => a < c)
      BY <3>1, <3>2
    <3> QED
      BY <3>3 DEF a, c
  <2> QED
    BY <2>2, <2>5, <2>6
<1>7. picked \in 1 .. n
  BY <1>1, <1>3
<1> QED
  BY <1>2, <1>5, <1>6, <1>7 DEF IsFirstLeast, picked

=============================================================================
