-------------------------- MODULE RequestListProofs --------------------------
(***************************************************************************)
(* Proofs about RequestList.  The inductive invariant says which sequence  *)
(* of nodes the pointers stand for, at every statement of addNodeInFront   *)
(* and of removeNode, and where the two may be with respect to it; every   *)
(* step either leaves the sequence alone, puts a node behind it or takes   *)
(* one out.  From it: type correctness, the safety properties, and that    *)
(* the list implements the queue of SeekOrder.                             *)
(***************************************************************************)
EXTENDS RequestList, DiskSchedProofs, FiniteSetTheorems

\* The k-th node of q, and the null pointer before its first and behind its last one.
Link(q, k) == IF k \in 1 .. Len(q) THEN q[k] ELSE NULL

\* The next pointers lead through the nodes of q, which are allocated.
Chain(q) ==
  /\ IsInjective(q)
  /\ Range(q) \subseteq DOMAIN node
  /\ firstNode = Link(q, 1)
  /\ \A k \in 1 .. Len(q) : node[q[k]].next = Link(q, k + 1)

Relinking(shapes) == rem.at = "relink" /\ rem.shape \in shapes

\* The prev pointers lead back, but for the one that Relink is about to set or has just
\* made useless.
Prevs(q) ==
  \A k \in 1 .. Len(q) :
    node[q[k]].prev = IF Relinking({"first"}) /\ k = 2 THEN NULL
                      ELSE IF Relinking({"middle"}) /\ q[k] = node[rem.node].next THEN rem.node
                      ELSE Link(q, k - 1)

\* lastNode is the last node, except just before it is stored.
LastIs(q) ==
  ins.at \notin {"loadFirst", "last"} /\ ~Relinking({"last", "only"}) => lastNode = Link(q, Len(q))

\* A node that addNodeInFront has allocated and not linked, and one that removeNode has
\* unlinked and not freed.
Fresh == ins.at \in {"first", "link"}
Detached == rem.at = "free" \/ Relinking({"only", "last", "middle"})

\* Nothing else is allocated.
Allocated(q) ==
  /\ DOMAIN node = Range(q) \cup (IF Fresh THEN {ins.new} ELSE {})
                            \cup (IF Detached THEN {rem.node} ELSE {})
  /\ Fresh => ins.new \notin Range(q)
  /\ Detached => rem.node \notin Range(q)
  /\ Fresh /\ Detached => ins.new # rem.node

\* iSize lags behind the list by the insertion and the removal that have not stored it.
Counted(q) ==
  /\ iSize = Len(q) - (IF Linked THEN 1 ELSE 0)
                    + (IF Detached \/ rem.at \in {"load", "store"} THEN 1 ELSE 0)
  /\ ins.at = "store" => ins.size = iSize
  /\ rem.at = "store" => rem.size = iSize

\* Where the node of addNodeInFront is.
Inserting(q) ==
  /\ ins.at = "first" => q = <<>> /\ node[ins.new].prev = NULL
  /\ ins.at = "link" => q # <<>> /\ node[ins.new].prev = Link(q, Len(q))
  /\ Fresh => node[ins.new].next = NULL
  /\ ins.at = "loadFirst" => Len(q) <= 1
  /\ ins.at = "last" => ins.last = Link(q, Len(q))
  /\ Linked => q = <<>> \/ q[Len(q)] = ins.new
  /\ Linked /\ rem.at \in {"test", "unlink"} /\ rem.node = ins.new => Len(q) = 1

\* The case of removeNode that applies to the k-th node.
ShapeAt(q, k) == IF k = 1 THEN IF Len(q) = 1 THEN "only" ELSE "first"
                 ELSE IF k = Len(q) THEN "last" ELSE "middle"

\* Where the node of removeNode is, and what it still points to.
Removing(q) ==
  /\ rem.at = "unlink" => \A k \in 1 .. Len(q) : q[k] = rem.node => rem.shape = ShapeAt(q, k)
  /\ Relinking({"first"}) => Len(q) > 1 /\ q[1] = rem.node
  /\ Relinking({"middle"}) => \E k \in 1 .. Len(q) - 1 : /\ node[rem.node].prev = q[k]
                                                         /\ node[rem.node].next = q[k + 1]
  /\ Relinking({"last"}) => q # <<>> /\ node[rem.node].prev = q[Len(q)]
  /\ Relinking({"only"}) => q = <<>>

\* Which nodes addNodeInFront and diskScheduler work on.
Chosen(q) ==
  /\ ins.at = "idle" => ins.new = NULL
  /\ rem.at = "idle" => rem.node = NULL
  /\ rem.at \in {"test", "unlink"} => rem.node \in Range(q)
  /\ rem.at = "relink" => rem.shape \in {"only", "last", "first", "middle"}

\* q is the list.
Listed(q) ==
  /\ Chain(q)
  /\ Allocated(q)
  /\ Counted(q)
  /\ Chosen(q)
  /\ ~Tearing => Prevs(q) /\ LastIs(q) /\ Inserting(q) /\ Removing(q)

IInv == TypeOK /\ \E q \in BoundedSeq(Nodes, MaxLength) : Listed(q)

------------------------------------------------------------------------------
(* Lists of nodes *)

\* A list without repetitions is no longer than there are nodes.
LEMMA ListLength ==
  ASSUME NEW q \in Seq(Nodes), IsInjective(q)
  PROVE  /\ Len(q) \in 0 .. MaxLength
         /\ q \in BoundedSeq(Nodes, MaxLength)
<1>1. MaxLength \in Nat /\ Len(q) \in Nat /\ DOMAIN q = 1 .. Len(q) /\ q \in [1 .. Len(q) -> Nodes]
  BY ListAssumption
<1>2. /\ IsFiniteSet(Nodes) /\ Cardinality(Nodes) = MaxLength
      /\ IsFiniteSet(1 .. Len(q)) /\ Cardinality(1 .. Len(q)) = Len(q)
  <2>1. ASSUME NEW m \in Nat PROVE IsFiniteSet(1 .. m) /\ Cardinality(1 .. m) = m
    <3>1. 1 \in Int /\ m \in Int
      BY <2>1
    <3>2. IsFiniteSet(1 .. m) /\ Cardinality(1 .. m) = IF 1 > m THEN 0 ELSE m - 1 + 1
      BY <3>1, FS_Interval, Zenon
    <3> QED
      BY <3>2
  <2> QED
    BY <1>1, <2>1 DEF Nodes
<1>3. Len(q) <= MaxLength
  <2>1. SUFFICES ASSUME Cardinality(Nodes) < Cardinality(1 .. Len(q)) PROVE FALSE
    BY <1>1, <1>2
  <2>2. PICK x \in 1 .. Len(q), y \in 1 .. Len(q) : x # y /\ q[x] = q[y]
    BY <1>1, <1>2, <2>1, FS_PigeonHole
  <2> QED
    BY <1>1, <2>2 DEF IsInjective
<1>4. q \in BoundedSeq(Nodes, MaxLength)
  <2>1. Len(q) \in 0 .. MaxLength
    BY <1>1, <1>3
  <2>2. q \in UNION {[1 .. m -> Nodes] : m \in 0 .. MaxLength}
    BY <1>1, <2>1, Zenon
  <2> QED
    BY <2>2 DEF BoundedSeq, SeqOf
<1> QED
  BY <1>1, <1>3, <1>4

\* The nodes of a list are no null pointers.
LEMMA NodesOf ==
  ASSUME NEW q \in Seq(Nodes)
  PROVE  /\ DOMAIN q = 1 .. Len(q) /\ Len(q) \in Nat
         /\ \A k \in 1 .. Len(q) : q[k] \in Nodes /\ q[k] \in Range(q) /\ q[k] # NULL
<1>1. DOMAIN q = 1 .. Len(q) /\ Len(q) \in Nat /\ \A k \in 1 .. Len(q) : q[k] \in Nodes
  OBVIOUS
<1>2. \A n \in Nodes : n # NULL
  BY ListAssumption DEF Nodes, NULL
<1> QED
  BY <1>1, <1>2 DEF Range

\* The members of a bounded sequence.
LEMMA BoundedSeqIsSeq ==
  ASSUME NEW S, NEW n \in Nat, NEW q \in BoundedSeq(S, n)
  PROVE  q \in Seq(S)
<1>1. PICK m \in 0 .. n : q \in [1 .. m -> S]
  BY DEF BoundedSeq, SeqOf
<1> QED
  BY <1>1

\* Walk finds the list that the pointers lead through.
LEMMA WalkIs ==
  ASSUME NEW q \in Seq(Nodes), Len(q) <= MaxLength, NEW n, NEW link, n = Link(q, 1),
         \A k \in 1 .. Len(q) : link[q[k]] = Link(q, k + 1)
  PROVE  Walk(n, link) = q
<1> DEFINE M == MaxLength
           Met(f) == f = [k \in 1 .. M |-> IF k = 1 THEN n
                                           ELSE IF f[k - 1] = NULL THEN NULL ELSE link[f[k - 1]]]
           met == CHOOSE f : Met(f)
           g == [k \in 1 .. M |-> Link(q, k)]
           S == {k \in 0 .. M : k >= 1 => met[k] = Link(q, k)}
<1>1. /\ M \in Nat /\ M >= 1 /\ Len(q) \in 0 .. M
      /\ \A k \in 1 .. Len(q) : q[k] \in Nodes /\ q[k] # NULL
      /\ q = [k \in 1 .. Len(q) |-> q[k]]
  BY ListAssumption DEF Nodes, NULL
<1>2. \A k \in 1 .. M : Link(q, k) = IF k = 1 THEN n
                                     ELSE IF Link(q, k - 1) = NULL THEN NULL ELSE link[Link(q, k - 1)]
  BY <1>1 DEF Link
<1>3. Met(g)
  <2>1. \A k \in 1 .. M : k # 1 => k - 1 \in 1 .. M
    BY <1>1
  <2> QED
    BY <1>2, <2>1
<1>4. Met(met)
  BY <1>3
<1> HIDE DEF met
<1>5. 0 \in S /\ \A k \in 0 .. M - 1 : k \in S => k + 1 \in S
  <2>1. ASSUME NEW k \in 0 .. M - 1, k >= 1 => met[k] = Link(q, k)
        PROVE  met[k + 1] = Link(q, k + 1)
    <3>1. k + 1 \in 1 .. M /\ k + 1 - 1 = k
      BY <1>1
    <3>2. met[k + 1] = IF k + 1 = 1 THEN n ELSE IF met[k] = NULL THEN NULL ELSE link[met[k]]
      <4>1. \A j \in 1 .. M : met[j] = IF j = 1 THEN n
                                       ELSE IF met[j - 1] = NULL THEN NULL ELSE link[met[j - 1]]
        <5> HIDE DEF M
        <5> QED
          BY <1>4
      <4> HIDE DEF M
      <4>2. PICK j : j = k + 1
        OBVIOUS
      <4> QED
        BY <3>1, <4>1, <4>2
    <3> QED
      BY <1>2, <2>1, <3>1, <3>2
  <2> QED
    BY <1>1, <2>1
<1>6. \A k \in 1 .. M : met[k] = Link(q, k)
  <2>1. 0 .. M \subseteq S
    <3> HIDE DEF S, M
    <3> QED
      BY <1>1, <1>5, IndexInduction
  <2> QED
    BY <1>1, <2>1
<1>7. Walk(n, link) = [k \in {i \in 1 .. M : met[i] # NULL} |-> met[k]]
  BY DEF Walk, met
<1>8. {i \in 1 .. M : met[i] # NULL} = 1 .. Len(q)
  BY <1>1, <1>6 DEF Link
<1>9. \A k \in 1 .. Len(q) : met[k] = q[k]
  BY <1>1, <1>6 DEF Link
<1> QED
  BY <1>1, <1>7, <1>8, <1>9

\* Forward is the list.
LEMMA ForwardIs ==
  ASSUME NEW q \in Seq(Nodes), Chain(q)
  PROVE  Forward = q
<1>1. Len(q) <= MaxLength /\ DOMAIN q = 1 .. Len(q)
  BY ListLength, ListAssumption DEF Chain
<1> DEFINE link == [n \in DOMAIN node |-> node[n].next]
<1>2. \A k \in 1 .. Len(q) : link[q[k]] = Link(q, k + 1)
  BY <1>1 DEF Chain, Range
<1>3. firstNode = Link(q, 1)
  BY DEF Chain
<1>4. Forward = Walk(firstNode, link)
  BY DEF Forward
<1> HIDE DEF link
<1> QED
  BY <1>1, <1>2, <1>3, <1>4, WalkIs

------------------------------------------------------------------------------
(* Steps that leave the pointers alone *)

\* The chain depends on the next pointers and on firstNode only.
LEMMA SameChain ==
  ASSUME NEW q, Chain(q), node' = node, firstNode' = firstNode
  PROVE  Chain(q)'
BY DEF Chain, Link

\* iSize++: the read.
LEMMA InsReadSizeKeeps ==
  ASSUME TypeOK, NEW q \in Seq(Nodes), Listed(q), InsReadSize
  PROVE  TypeOK' /\ Listed(q)'
<1>1. /\ ins.at = "load" /\ ~Tearing
      /\ ins'.at = "store" /\ ins'.size = iSize /\ ins'.new = ins.new
      /\ node' = node /\ firstNode' = firstNode /\ lastNode' = lastNode /\ iSize' = iSize
      /\ rem' = rem /\ main' = main /\ iCurrBlock' = iCurrBlock /\ enAlgorithm' = enAlgorithm
  BY DEF InsReadSize, InsAt, Torn, TypeOK, listVars
<1>2. TypeOK'
  <2>1. ins' \in [at : {"idle", "first", "loadFirst", "link", "last", "load", "store"},
                  new : Pointers, last : Pointers, size : Int]
    <3>1. iSize \in Int
      BY ListAssumption DEF TypeOK
    <3>2. ins' = [ins EXCEPT !.at = "store", !.size = iSize]
      BY DEF InsReadSize
    <3> QED
      BY <3>1, <3>2 DEF TypeOK
  <2> QED
    BY <1>1, <2>1 DEF TypeOK
<1>3. Chain(q)'
  BY <1>1, SameChain DEF Listed
<1>4. Allocated(q)'
  BY <1>1 DEF Listed, Allocated, Fresh, Detached, Relinking
<1>5. Counted(q)'
  BY <1>1 DEF Listed, Counted, Linked, Detached, Relinking
<1>6. Chosen(q)'
  BY <1>1 DEF Listed, Chosen
<1>7. Prevs(q)'
  BY <1>1 DEF Listed, Prevs, Relinking, Link
<1>8. LastIs(q)'
  BY <1>1 DEF Listed, LastIs, Relinking, Link
<1>9. Inserting(q)'
  BY <1>1 DEF Listed, Inserting, Linked, Fresh, Link
<1>10. Removing(q)'
  BY <1>1 DEF Listed, Removing, Relinking, ShapeAt
<1> QED
  BY <1>2, <1>3, <1>4, <1>5, <1>6, <1>7, <1>8, <1>9, <1>10 DEF Listed


\* iSize++: the write.
LEMMA InsWriteSizeKeeps ==
  ASSUME TypeOK, NEW q \in Seq(Nodes), Listed(q), InsWriteSize
  PROVE  TypeOK' /\ Listed(q)'
<1>1. /\ ins.at = "store" /\ ~Tearing /\ rem.at # "store"
      /\ ins' = NoInsertion /\ iSize' = ins.size + 1
      /\ node' = node /\ firstNode' = firstNode /\ lastNode' = lastNode
      /\ rem' = rem /\ main' = main /\ iCurrBlock' = iCurrBlock /\ enAlgorithm' = enAlgorithm
  BY DEF InsWriteSize, InsAt, Torn, Miscounting, TypeOK, listVars
<1>2. ins'.at = "idle" /\ Len(q) \in Nat
  BY <1>1 DEF NoInsertion
<1>3. Chain(q)'
  BY <1>1, SameChain DEF Listed
<1>4. Allocated(q)'
  BY <1>1, <1>2 DEF Listed, Allocated, Fresh, Detached, Relinking
<1>5. Counted(q)'
  BY <1>1, <1>2 DEF Listed, Counted, Linked, Detached, Relinking
<1>6. Chosen(q)'
  BY <1>1 DEF Listed, Chosen, NoInsertion
<1>7. Prevs(q)'
  BY <1>1 DEF Listed, Prevs, Relinking, Link
<1>8. LastIs(q)'
  BY <1>1 DEF Listed, LastIs, Relinking, Link
<1>9. Inserting(q)'
  BY <1>1, <1>2 DEF Inserting, Linked, Fresh
<1>10. Removing(q)'
  BY <1>1 DEF Listed, Removing, Relinking, ShapeAt
<1>11. TypeOK'
  <2>1. iSize' \in -1 .. MaxLength + 1
    <3>1. Len(q) \in 0 .. MaxLength /\ MaxLength \in Nat
      BY ListLength, ListAssumption DEF Listed, Chain
    <3> QED
      BY <3>1, <1>5 DEF Counted, Linked
  <2>2. ins' \in [at : {"idle", "first", "loadFirst", "link", "last", "load", "store"},
                  new : Pointers, last : Pointers, size : Int]
    BY <1>1 DEF NoInsertion, Pointers
  <2> QED
    BY <1>1, <2>1, <2>2 DEF TypeOK
<1> QED
  BY <1>3, <1>4, <1>5, <1>6, <1>7, <1>8, <1>9, <1>10, <1>11 DEF Listed

\* iSize--: the read.
LEMMA RemReadSizeKeeps ==
  ASSUME TypeOK, NEW q \in Seq(Nodes), Listed(q), RemReadSize
  PROVE  TypeOK' /\ Listed(q)'
<1>1. /\ rem.at = "load" /\ ~Tearing
      /\ rem'.at = "store" /\ rem'.size = iSize
      /\ node' = node /\ firstNode' = firstNode /\ lastNode' = lastNode /\ iSize' = iSize
      /\ ins' = ins /\ main' = main /\ iCurrBlock' = iCurrBlock /\ enAlgorithm' = enAlgorithm
  BY DEF RemReadSize, RemAt, Torn, TypeOK, listVars
<1>2. TypeOK'
  <2>1. rem' \in [at : {"idle", "test", "unlink", "relink", "free", "load", "store"}, node : Pointers,
                  block : 0 .. LastBlock, shape : {"none", "only", "last", "first", "middle"},
                  size : Int]
    <3>1. iSize \in Int
      BY ListAssumption DEF TypeOK
    <3>2. rem' = [rem EXCEPT !.at = "store", !.size = iSize]
      BY DEF RemReadSize
    <3> QED
      BY <3>1, <3>2 DEF TypeOK
  <2> QED
    BY <1>1, <2>1 DEF TypeOK
<1>3. Chain(q)'
  BY <1>1, SameChain DEF Listed
<1>4. Allocated(q)'
  BY <1>1 DEF Listed, Allocated, Fresh, Detached, Relinking
<1>5. Counted(q)'
  BY <1>1 DEF Listed, Counted, Linked, Detached, Relinking
<1>6. Chosen(q)'
  BY <1>1 DEF Listed, Chosen
<1>7. Prevs(q)'
  BY <1>1 DEF Listed, Prevs, Relinking, Link
<1>8. LastIs(q)'
  BY <1>1 DEF Listed, LastIs, Relinking, Link
<1>9. Inserting(q)'
  BY <1>1 DEF Listed, Inserting, Linked, Fresh, Link
<1>10. Removing(q)'
  BY <1>1 DEF Removing, Relinking
<1> QED
  BY <1>1, <1>2, <1>3, <1>4, <1>5, <1>6, <1>7, <1>8, <1>9, <1>10 DEF Listed

\* iSize--: the write.
LEMMA RemWriteSizeKeeps ==
  ASSUME TypeOK, NEW q \in Seq(Nodes), Listed(q), RemWriteSize
  PROVE  TypeOK' /\ Listed(q)'
<1>1. /\ rem.at = "store" /\ ~Tearing /\ ins.at # "store"
      /\ rem' = NoRemoval /\ iSize' = rem.size - 1 /\ iCurrBlock' = rem.block
      /\ node' = node /\ firstNode' = firstNode /\ lastNode' = lastNode
      /\ ins' = ins /\ main' = main /\ enAlgorithm' = enAlgorithm
  BY DEF RemWriteSize, RemAt, Torn, Miscounting, TypeOK
<1>2. rem'.at = "idle" /\ rem'.node = NULL /\ Len(q) \in Nat
  BY <1>1 DEF NoRemoval
<1>3. Chain(q)'
  BY <1>1, SameChain DEF Listed
<1>4. Allocated(q)'
  BY <1>1, <1>2 DEF Listed, Allocated, Fresh, Detached, Relinking
<1>5. Counted(q)'
  BY <1>1, <1>2 DEF Listed, Counted, Linked, Detached, Relinking
<1>6. Chosen(q)'
  BY <1>1, <1>2 DEF Listed, Chosen
<1>7. Prevs(q)'
  BY <1>1, <1>2 DEF Listed, Prevs, Relinking, Link
<1>8. LastIs(q)'
  BY <1>1, <1>2 DEF Listed, LastIs, Relinking, Link
<1>9. Inserting(q)'
  BY <1>1, <1>2 DEF Listed, Inserting, Linked, Fresh, Link
<1>10. Removing(q)'
  BY <1>2 DEF Removing, Relinking
<1>11. TypeOK'
  <2>1. iSize' \in -1 .. MaxLength + 1
    <3>1. Len(q) \in 0 .. MaxLength /\ MaxLength \in Nat
      BY ListLength, ListAssumption DEF Listed, Chain
    <3> QED
      BY <3>1, <1>5 DEF Counted, Linked
  <2>2. rem' \in [at : {"idle", "test", "unlink", "relink", "free", "load", "store"}, node : Pointers,
                  block : 0 .. LastBlock, shape : {"none", "only", "last", "first", "middle"},
                  size : Int]
    BY <1>1, ListAssumption DEF NoRemoval, Pointers
  <2>3. iCurrBlock' \in 0 .. LastBlock
    BY <1>1 DEF TypeOK
  <2> QED
    BY <1>1, <2>1, <2>2, <2>3 DEF TypeOK
<1> QED
  BY <1>3, <1>4, <1>5, <1>6, <1>7, <1>8, <1>9, <1>10, <1>11 DEF Listed

\* lastNode = firstNode: the read.
LEMMA LoadFirstKeeps ==
  ASSUME TypeOK, NEW q \in Seq(Nodes), Listed(q), LoadFirst
  PROVE  TypeOK' /\ Listed(q)'
<1>1. /\ ins.at = "loadFirst" /\ ~Tearing
      /\ ins'.at = "last" /\ ins'.new = ins.new /\ ins'.last = firstNode
      /\ node' = node /\ firstNode' = firstNode /\ lastNode' = lastNode /\ iSize' = iSize
      /\ rem' = rem /\ main' = main /\ iCurrBlock' = iCurrBlock /\ enAlgorithm' = enAlgorithm
  BY DEF LoadFirst, InsAt, Torn, TypeOK, listVars
<1>2. TypeOK'
  <2>1. ins' \in [at : {"idle", "first", "loadFirst", "link", "last", "load", "store"},
                  new : Pointers, last : Pointers, size : Int]
    BY DEF LoadFirst, TypeOK
  <2> QED
    BY <1>1, <2>1 DEF TypeOK
<1>3. Chain(q)'
  BY <1>1, SameChain DEF Listed
<1>4. Allocated(q)'
  BY <1>1 DEF Listed, Allocated, Fresh, Detached, Relinking
<1>5. Counted(q)'
  BY <1>1 DEF Listed, Counted, Linked, Detached, Relinking
<1>6. Chosen(q)'
  BY <1>1 DEF Listed, Chosen
<1>7. Prevs(q)'
  BY <1>1 DEF Listed, Prevs, Relinking, Link
<1>8. LastIs(q)'
  BY <1>1 DEF LastIs
<1>9. Inserting(q)'
  <2>1. Len(q) \in Nat /\ Len(q) <= 1 /\ firstNode = Link(q, 1)
    BY <1>1 DEF Listed, Inserting, Linked, Chain
  <2>2. ins'.last = Link(q, Len(q))
    BY <1>1, <2>1 DEF Link
  <2>3. /\ q = <<>> \/ q[Len(q)] = ins.new
        /\ rem.at \in {"test", "unlink"} /\ rem.node = ins.new => Len(q) = 1
    BY <1>1 DEF Listed, Inserting, Linked
  <2> QED
    BY <1>1, <2>2, <2>3 DEF Inserting, Linked, Fresh, Link
<1>10. Removing(q)'
  BY <1>1 DEF Listed, Removing, Relinking, ShapeAt
<1> QED
  BY <1>2, <1>3, <1>4, <1>5, <1>6, <1>7, <1>8, <1>9, <1>10 DEF Listed

\* lastNode is stored: it is the last one of the list again.
LEMMA SetLastKeeps ==
  ASSUME TypeOK, NEW q \in Seq(Nodes), Listed(q), SetLast
  PROVE  TypeOK' /\ Listed(q)'
<1>1. /\ ins.at = "last" /\ ~Tearing
      /\ ins'.at = "load" /\ ins'.new = ins.new
      /\ lastNode' = ins.last
      /\ node' = node /\ firstNode' = firstNode /\ iSize' = iSize
      /\ rem' = rem /\ main' = main /\ iCurrBlock' = iCurrBlock /\ enAlgorithm' = enAlgorithm
  BY DEF SetLast, InsAt, Torn, TypeOK
<1>2. TypeOK'
  <2>1. ins' \in [at : {"idle", "first", "loadFirst", "link", "last", "load", "store"},
                  new : Pointers, last : Pointers, size : Int]
    BY DEF SetLast, TypeOK
  <2>2. lastNode' \in Pointers
    BY <1>1 DEF TypeOK
  <2> QED
    BY <1>1, <2>1, <2>2 DEF TypeOK
<1>3. Chain(q)'
  BY <1>1, SameChain DEF Listed
<1>4. Allocated(q)'
  BY <1>1 DEF Listed, Allocated, Fresh, Detached, Relinking
<1>5. Counted(q)'
  BY <1>1 DEF Listed, Counted, Linked, Detached, Relinking
<1>6. Chosen(q)'
  BY <1>1 DEF Listed, Chosen
<1>7. Prevs(q)'
  BY <1>1 DEF Listed, Prevs, Relinking, Link
<1>8. LastIs(q)'
  <2>1. lastNode' = Link(q, Len(q))
    BY <1>1 DEF Listed, Inserting, Linked
  <2> QED
    BY <1>1, <2>1 DEF LastIs, Link
<1>9. Inserting(q)'
  BY <1>1 DEF Listed, Inserting, Linked, Fresh, Link
<1>10. Removing(q)'
  BY <1>1 DEF Listed, Removing, Relinking, ShapeAt
<1> QED
  BY <1>2, <1>3, <1>4, <1>5, <1>6, <1>7, <1>8, <1>9, <1>10 DEF Listed


\* removeNode finds the case from the position of its node.
LEMMA removeNodeKeeps ==
  ASSUME TypeOK, NEW q \in Seq(Nodes), Listed(q), removeNode
  PROVE  TypeOK' /\ Listed(q)'
<1> DEFINE n == node[rem.node]
           shape == CASE n.next = NULL /\ n.prev = NULL -> "only"
                      [] n.next = NULL /\ n.prev # NULL -> "last"
                      [] n.next # NULL /\ n.prev = NULL -> "first"
                      [] OTHER -> "middle"
<1>1. /\ rem.at = "test" /\ ~Tearing
      /\ rem' = [rem EXCEPT !.at = "unlink", !.shape = shape]
      /\ node' = node /\ firstNode' = firstNode /\ lastNode' = lastNode /\ iSize' = iSize
      /\ ins' = ins /\ main' = main /\ iCurrBlock' = iCurrBlock /\ enAlgorithm' = enAlgorithm
  BY DEF removeNode, RemAt, Torn, listVars
<1>2. shape \in {"only", "last", "first", "middle"}
  OBVIOUS
<1>3. /\ rem'.at = "unlink" /\ rem'.shape = shape /\ rem'.node = rem.node
      /\ rem' \in [at : {"idle", "test", "unlink", "relink", "free", "load", "store"}, node : Pointers,
                   block : 0 .. LastBlock, shape : {"none", "only", "last", "first", "middle"},
                   size : Int]
  <2> HIDE DEF shape
  <2> QED
    BY <1>1, <1>2 DEF TypeOK
<1>4. TypeOK'
  BY <1>1, <1>3 DEF TypeOK
<1>5. Chain(q)'
  BY <1>1, SameChain DEF Listed
<1>6. Allocated(q)'
  BY <1>1, <1>3 DEF Listed, Allocated, Fresh, Detached, Relinking
<1>7. Counted(q)'
  BY <1>1, <1>3 DEF Listed, Counted, Linked, Detached, Relinking
<1>8. Chosen(q)'
  BY <1>1, <1>3 DEF Listed, Chosen
<1>9. Prevs(q)'
  BY <1>1, <1>3 DEF Listed, Prevs, Relinking, Link
<1>10. LastIs(q)'
  BY <1>1, <1>3 DEF Listed, LastIs, Relinking, Link
<1>11. Inserting(q)'
  BY <1>1 DEF Listed, Inserting, Linked, Fresh, Link
<1>12. ASSUME NEW k \in 1 .. Len(q), q[k] = rem.node
       PROVE  shape = ShapeAt(q, k)
  <2>1. n.prev = Link(q, k - 1) /\ n.next = Link(q, k + 1)
    BY <1>1, <1>12 DEF Listed, Prevs, Chain, Relinking
  <2>2. \A i \in 1 .. Len(q) : q[i] # NULL
    BY NodesOf
  <2>3. /\ n.prev = NULL <=> k = 1
        /\ n.next = NULL <=> k = Len(q)
    BY <2>1, <2>2 DEF Link
  <2> HIDE DEF n
  <2> QED
    BY <2>3 DEF ShapeAt
<1>13. Removing(q)'
  <2> HIDE DEF shape
  <2> QED
    BY <1>3, <1>12 DEF Removing, Relinking, ShapeAt
<1> QED
  BY <1>4, <1>5, <1>6, <1>7, <1>8, <1>9, <1>10, <1>11, <1>13 DEF Listed

\* The blocks of a list of allocated nodes.
LEMMA BlocksOf ==
  ASSUME TypeOK, NEW q \in Seq(Nodes), Range(q) \subseteq DOMAIN node
  PROVE  /\ Blocks(q) \in Seq(0 .. LastBlock) /\ Blocks(q) \in Seq(Nat)
         /\ Len(Blocks(q)) = Len(q)
         /\ \A i \in 1 .. Len(q) : Blocks(q)[i] = node[q[i]].block
<1>1. DOMAIN q = 1 .. Len(q) /\ Len(q) \in Nat
  OBVIOUS
<1>2. \A i \in 1 .. Len(q) : node[q[i]].block \in 0 .. LastBlock
  <2>1. \A i \in 1 .. Len(q) : q[i] \in DOMAIN node
    BY <1>1 DEF Range
  <2> QED
    BY <2>1 DEF TypeOK, ST_RequestNode
<1>3. Blocks(q) = [i \in 1 .. Len(q) |-> node[q[i]].block]
  BY <1>1 DEF Blocks
<1> QED
  BY <1>1, <1>2, <1>3

\* Every algorithm of the switch returns a node of the list.
LEMMA PickedIsListed ==
  ASSUME NEW alg \in EN_DiskAlgorithm, NEW blocks \in Seq(Nat), blocks # <<>>, NEW head \in Nat
  PROVE  (CASE alg = "FCFS" -> fcfsSched(blocks, head)
            [] alg = "SSTF" -> sstfSched(blocks, head)
            [] alg = "CSCAN" -> cscanSched(blocks, head)) \in 1 .. Len(blocks)
<1>1. fcfsSched(blocks, head) \in 1 .. Len(blocks)
  BY DEF fcfsSched
<1>2. sstfSched(blocks, head) \in 1 .. Len(blocks)
  <2>1. IsNearest(sstfSched(blocks, head), blocks, head)
    BY SSTFPicksNearest
  <2>2. sstfSched(blocks, head) \in DOMAIN blocks
    BY <2>1, Zenon DEF IsNearest, IsFirstLeast
  <2> QED
    BY <2>2
<1>3. cscanSched(blocks, head) \in 1 .. Len(blocks)
  <2>1. cscanSched(blocks, head) \in DOMAIN blocks
    BY CSCANPicks, Zenon
  <2> QED
    BY <2>1
<1> QED
  BY <1>1, <1>2, <1>3 DEF EN_DiskAlgorithm

\* The node that diskScheduler takes out is in the list, where the algorithm finds it.
LEMMA PickedIndex ==
  ASSUME TypeOK, NEW q \in Seq(Nodes), q # <<>>, Range(q) \subseteq DOMAIN node
  PROVE  \E i \in 1 .. Len(q) :
           /\ Picked(q) = q[i]
           /\ i = CASE enAlgorithm = "FCFS" -> fcfsSched(Blocks(q), iCurrBlock)
                    [] enAlgorithm = "SSTF" -> sstfSched(Blocks(q), iCurrBlock)
                    [] enAlgorithm = "CSCAN" -> cscanSched(Blocks(q), iCurrBlock)
<1> DEFINE index == CASE enAlgorithm = "FCFS" -> fcfsSched(Blocks(q), iCurrBlock)
                      [] enAlgorithm = "SSTF" -> sstfSched(Blocks(q), iCurrBlock)
                      [] enAlgorithm = "CSCAN" -> cscanSched(Blocks(q), iCurrBlock)
<1>1. /\ Blocks(q) \in Seq(Nat) /\ Len(Blocks(q)) = Len(q) /\ Blocks(q) # <<>>
  BY BlocksOf
<1>2. enAlgorithm \in EN_DiskAlgorithm /\ iCurrBlock \in Nat
  BY ListAssumption DEF TypeOK
<1>3. index \in 1 .. Len(q)
  BY <1>1, <1>2, PickedIsListed
<1>4. Picked(q) = q[index]
  BY DEF Picked
<1> QED
  BY <1>3, <1>4

\* The loops of the algorithms visit the list but for a last node that is not counted yet.
LEMMA VisitedIs ==
  ASSUME TypeOK, NEW q \in Seq(Nodes), Listed(q), q # <<>>, rem.at = "idle"
  PROVE  \E v \in Seq(Nodes) :
           /\ v = Visited
           /\ v # <<>> /\ Len(v) \in 1 .. Len(q) /\ Range(v) \subseteq DOMAIN node
           /\ \A i \in 1 .. Len(v) : v[i] = q[i]
           /\ Len(v) = IF Linked /\ Len(q) > 1 THEN Len(q) - 1 ELSE Len(q)
<1>1. Chain(q) /\ Forward = q
  BY ForwardIs DEF Listed
<1>2. PICK e \in Nat : e = Len(q) /\ e >= 1 /\ DOMAIN q = 1 .. e
  BY EmptySeq
<1>3. iSize = e - (IF Linked THEN 1 ELSE 0)
  BY <1>2 DEF Listed, Counted, Detached, Relinking
<1>4. PICK m \in 1 .. e : m = IF Linked /\ e > 1 THEN e - 1 ELSE e
  BY <1>2
<1>5. {j \in 1 .. e : j = 1 \/ j <= iSize} = 1 .. m
  BY <1>2, <1>3, <1>4
<1>6. Visited = [i \in 1 .. m |-> q[i]]
  BY <1>1, <1>2, <1>5 DEF Visited
<1>7. PICK v \in Seq(Nodes) : v = [i \in 1 .. m |-> q[i]]
  <2>1. m \in Nat /\ \A i \in 1 .. m : q[i] \in Nodes
    BY <1>2
  <2>2. [i \in 1 .. m |-> q[i]] \in Seq(Nodes)
    BY <2>1
  <2> QED
    BY <2>2
<1>8. Len(v) = m /\ \A i \in 1 .. m : v[i] = q[i]
  BY <1>7
<1>9. Range(v) \subseteq DOMAIN node
  BY <1>1, <1>2, <1>8 DEF Chain, Range
<1>10. v # <<>>
  BY <1>8
<1> QED
  BY <1>2, <1>4, <1>6, <1>7, <1>8, <1>9, <1>10

\* diskScheduler picks.
LEMMA diskSchedulerKeeps ==
  ASSUME TypeOK, NEW q \in Seq(Nodes), Listed(q), diskScheduler
  PROVE  TypeOK' /\ Listed(q)'
<1> DEFINE n == Picked(Visited)
<1>1. Chain(q)
  BY DEF Listed
<1>2. /\ rem.at = "idle" /\ ~Tearing /\ firstNode # NULL
      /\ rem' = [rem EXCEPT !.at = "test", !.node = n, !.block = node[n].block]
      /\ node' = node /\ firstNode' = firstNode /\ lastNode' = lastNode /\ iSize' = iSize
      /\ ins' = ins /\ main' = main /\ iCurrBlock' = iCurrBlock /\ enAlgorithm' = enAlgorithm
  BY DEF diskScheduler, RemAt, Torn, listVars
<1>3. /\ n \in Range(q) /\ n \in DOMAIN node
      /\ Linked /\ n = ins.new => Len(q) = 1
  <2>1. q # <<>> /\ Range(q) \subseteq DOMAIN node /\ IsInjective(q)
    BY <1>1, <1>2 DEF Chain, Link
  <2>2. PICK v \in Seq(Nodes) :
          /\ v = Visited
          /\ v # <<>> /\ Len(v) \in 1 .. Len(q) /\ Range(v) \subseteq DOMAIN node
          /\ \A i \in 1 .. Len(v) : v[i] = q[i]
          /\ Len(v) = IF Linked /\ Len(q) > 1 THEN Len(q) - 1 ELSE Len(q)
    BY <1>2, <2>1, VisitedIs
  <2>3. PICK i \in 1 .. Len(v) : Picked(v) = v[i]
    BY <2>2, PickedIndex
  <2>4. i \in 1 .. Len(q) /\ n = q[i]
    BY <2>2, <2>3
  <2>5. Linked => q[Len(q)] = ins.new
    BY <1>2, <2>1 DEF Listed, Inserting
  <2>6. ASSUME Linked, n = ins.new PROVE Len(q) = 1
    <3>1. Len(q) \in Nat /\ Len(q) \in DOMAIN q /\ i \in DOMAIN q /\ q[i] = q[Len(q)]
      BY <2>1, <2>4, <2>5, <2>6, EmptySeq
    <3>2. i = Len(q)
      BY <2>1, <3>1 DEF IsInjective
    <3> QED
      BY <2>2, <2>3, <2>6, <3>1, <3>2
  <2> QED
    BY <2>1, <2>4, <2>6 DEF Range
<1> HIDE DEF n
<1>4. n \in Pointers /\ node[n].block \in 0 .. LastBlock
  BY <1>3 DEF TypeOK, ST_RequestNode, Pointers
<1>5. /\ rem'.at = "test" /\ rem'.node = n
      /\ rem' \in [at : {"idle", "test", "unlink", "relink", "free", "load", "store"}, node : Pointers,
                   block : 0 .. LastBlock, shape : {"none", "only", "last", "first", "middle"},
                   size : Int]
  <2>1. PICK b : b = node[n].block
    OBVIOUS
  <2>2. PICK first : first = [rem EXCEPT !.at = "test"]
    OBVIOUS
  <2>3. PICK second : second = [first EXCEPT !.node = n]
    OBVIOUS
  <2>4. rem' = [second EXCEPT !.block = b]
    BY <1>2, <2>1, <2>2, <2>3
  <2>5. /\ first.at = "test"
        /\ first \in [at : {"idle", "test", "unlink", "relink", "free", "load", "store"},
                      node : Pointers, block : 0 .. LastBlock,
                      shape : {"none", "only", "last", "first", "middle"}, size : Int]
    BY <2>2 DEF TypeOK
  <2>6. /\ second.at = "test" /\ second.node = n
        /\ second \in [at : {"idle", "test", "unlink", "relink", "free", "load", "store"},
                       node : Pointers, block : 0 .. LastBlock,
                       shape : {"none", "only", "last", "first", "middle"}, size : Int]
    BY <1>4, <2>3, <2>5
  <2> QED
    BY <1>4, <2>1, <2>4, <2>6
<1>6. TypeOK'
  BY <1>2, <1>5 DEF TypeOK
<1>7. Chain(q)'
  BY <1>1, <1>2, SameChain
<1>8. Allocated(q)'
  BY <1>2, <1>5 DEF Listed, Allocated, Fresh, Detached, Relinking
<1>9. Counted(q)'
  BY <1>2, <1>5 DEF Listed, Counted, Linked, Detached, Relinking
<1>10. Chosen(q)'
  BY <1>2, <1>3, <1>5 DEF Listed, Chosen
<1>11. Prevs(q)'
  BY <1>2, <1>5 DEF Listed, Prevs, Relinking, Link
<1>12. LastIs(q)'
  BY <1>2, <1>5 DEF Listed, LastIs, Relinking, Link
<1>13. Inserting(q)'
  BY <1>2, <1>3, <1>5 DEF Listed, Inserting, Linked, Fresh, Link
<1>14. Removing(q)'
  BY <1>5 DEF Removing, Relinking
<1> QED
  BY <1>6, <1>7, <1>8, <1>9, <1>10, <1>11, <1>12, <1>13, <1>14 DEF Listed

------------------------------------------------------------------------------
(* Steps that allocate, link, unlink or free a node *)

\* The removed node is freed: no pointer led to it any more.
LEMMA FreeKeeps ==
  ASSUME TypeOK, NEW q \in Seq(Nodes), Listed(q), Free
  PROVE  TypeOK' /\ Listed(q)'
<1>1. /\ rem.at = "free" /\ ~Tearing
      /\ rem' = [rem EXCEPT !.at = "load"]
      /\ node' = [n \in DOMAIN node \ {rem.node} |-> node[n]]
      /\ firstNode' = firstNode /\ lastNode' = lastNode /\ iSize' = iSize
      /\ ins' = ins /\ main' = main /\ iCurrBlock' = iCurrBlock /\ enAlgorithm' = enAlgorithm
  BY DEF Free, RemAt, Torn, listVars, Restrict
<1>2. rem'.at = "load"
  BY <1>1 DEF TypeOK
<1>3. /\ rem.node \notin Range(q)
      /\ DOMAIN node' = DOMAIN node \ {rem.node}
      /\ \A n \in DOMAIN node' : node'[n] = node[n]
      /\ \A k \in 1 .. Len(q) : q[k] \in DOMAIN node' /\ node'[q[k]] = node[q[k]]
  <2>1. rem.node \notin Range(q) /\ \A k \in 1 .. Len(q) : q[k] \in Range(q) /\ q[k] \in DOMAIN node
    BY <1>1 DEF Listed, Allocated, Detached, Chain, Range
  <2> QED
    BY <1>1, <2>1
<1>4. TypeOK'
  <2>1. node' \in [DOMAIN node' -> ST_RequestNode] /\ DOMAIN node' \subseteq Nodes
    BY <1>1 DEF TypeOK
  <2>2. rem' \in [at : {"idle", "test", "unlink", "relink", "free", "load", "store"}, node : Pointers,
                  block : 0 .. LastBlock, shape : {"none", "only", "last", "first", "middle"},
                  size : Int]
    BY <1>1 DEF TypeOK
  <2> QED
    BY <1>1, <2>1, <2>2 DEF TypeOK
<1>5. Chain(q)'
  BY <1>1, <1>3 DEF Listed, Chain, Link, Range
<1>6. Allocated(q)'
  BY <1>1, <1>2, <1>3 DEF Listed, Allocated, Fresh, Detached, Relinking
<1>7. Counted(q)'
  BY <1>1, <1>2 DEF Listed, Counted, Linked, Detached, Relinking
<1>8. Chosen(q)'
  BY <1>1, <1>2 DEF Listed, Chosen
<1>9. Prevs(q)'
  BY <1>1, <1>2, <1>3 DEF Listed, Prevs, Relinking, Link
<1>10. LastIs(q)'
  BY <1>1, <1>2 DEF Listed, LastIs, Relinking, Link
<1>11. Inserting(q)'
  <2>1. Fresh => ins.new \in DOMAIN node /\ ins.new # rem.node
    BY <1>1 DEF Listed, Allocated, Detached
  <2> QED
    BY <1>1, <1>3, <2>1 DEF Listed, Inserting, Linked, Fresh, Link
<1>12. Removing(q)'
  BY <1>2 DEF Removing, Relinking
<1> QED
  BY <1>4, <1>5, <1>6, <1>7, <1>8, <1>9, <1>10, <1>11, <1>12 DEF Listed


\* createNode: a new node, with prev the last one, unless removeNode has made lastNode stale.
LEMMA addNodeInFrontKeeps ==
  ASSUME TypeOK, NEW q \in Seq(Nodes), Listed(q), NEW b \in 0 .. LastBlock, addNodeInFront(b)
  PROVE  TypeOK' /\ Listed(q)'
<1> DEFINE last == IF firstNode = NULL THEN NULL ELSE lastNode
           label == IF firstNode = NULL THEN "first" ELSE "link"
<1>1. PICK n \in Nodes \ DOMAIN node :
         /\ node' = [m \in DOMAIN node \cup {n} |->
                       IF m = n THEN [prev |-> last, next |-> NULL, block |-> b] ELSE node[m]]
         /\ ins' = [ins EXCEPT !.at = label, !.new = n]
  BY DEF addNodeInFront, createNode
<1>2. /\ ins.at = "idle" /\ ~Tearing
      /\ firstNode' = firstNode /\ lastNode' = lastNode /\ iSize' = iSize
      /\ rem' = rem /\ main' = main /\ iCurrBlock' = iCurrBlock /\ enAlgorithm' = enAlgorithm
  BY DEF addNodeInFront, InsAt, Torn, listVars
<1>3. /\ DOMAIN node' = DOMAIN node \cup {n}
      /\ node'[n] = [prev |-> last, next |-> NULL, block |-> b]
      /\ \A m \in DOMAIN node : node'[m] = node[m]
      /\ node' = [m \in DOMAIN node \cup {n} |-> node'[m]]
  <2>1. PICK r : r = [prev |-> last, next |-> NULL, block |-> b]
    OBVIOUS
  <2>2. node' = [m \in DOMAIN node \cup {n} |-> IF m = n THEN r ELSE node[m]]
    BY <1>1, <2>1
  <2> QED
    BY <2>1, <2>2
<1>4. /\ ins'.at = label /\ ins'.new = n
      /\ ins' \in [at : {"idle", "first", "loadFirst", "link", "last", "load", "store"},
                   new : Pointers, last : Pointers, size : Int]
  BY <1>1 DEF TypeOK, Pointers
<1>5. TypeOK'
  <2>1. last \in Pointers /\ NULL \in Pointers
    BY DEF TypeOK, Pointers
  <2>2. node'[n] \in ST_RequestNode
    <3> HIDE DEF last
    <3> QED
      BY <1>3, <2>1 DEF ST_RequestNode
  <2>3. \A m \in DOMAIN node : node[m] \in ST_RequestNode
    BY DEF TypeOK
  <2>4. node' \in [DOMAIN node' -> ST_RequestNode] /\ DOMAIN node' \subseteq Nodes
    BY <1>3, <2>2, <2>3 DEF TypeOK
  <2> QED
    BY <1>2, <1>4, <2>4 DEF TypeOK
<1>6. /\ n \notin Range(q) /\ Range(q) \subseteq DOMAIN node
      /\ \A k \in 1 .. Len(q) : q[k] \in DOMAIN node /\ node'[q[k]] = node[q[k]]
      /\ Detached => /\ rem.node \in DOMAIN node /\ rem.node # n
                     /\ node'[rem.node] = node[rem.node]
  <2>1. Range(q) \subseteq DOMAIN node /\ \A k \in 1 .. Len(q) : q[k] \in Range(q)
    BY NodesOf DEF Listed, Chain
  <2>2. Detached => rem.node \in DOMAIN node
    BY DEF Listed, Allocated
  <2> QED
    BY <1>3, <2>1, <2>2
<1>7. Chain(q)'
  BY <1>2, <1>3, <1>6 DEF Listed, Chain, Link
<1>8. Allocated(q)'
  BY <1>2, <1>3, <1>4, <1>6 DEF Listed, Allocated, Fresh, Detached, Relinking
<1>9. Counted(q)'
  BY <1>2, <1>4 DEF Listed, Counted, Linked, Detached, Relinking
<1>10. Chosen(q)'
  BY <1>2, <1>4 DEF Listed, Chosen
<1>11. Prevs(q)'
  BY <1>2, <1>6 DEF Listed, Prevs, Relinking, Link, Detached
<1>12. LastIs(q)'
  BY <1>2, <1>4 DEF Listed, LastIs, Relinking, Link
<1>13. ASSUME ~Tearing' PROVE Inserting(q)'
  <2>1. node'[n].next = NULL /\ node'[n].prev = last
    BY <1>3
  <2>2. CASE firstNode = NULL
    <3>1. q = <<>>
      BY <2>2, NodesOf DEF Listed, Chain, Link
    <3> QED
      BY <1>4, <2>1, <2>2, <3>1 DEF Inserting, Linked, Fresh
  <2>3. CASE firstNode # NULL
    <3>1. q # <<>> /\ ins'.at = "link"
      BY <1>4, <2>3 DEF Listed, Chain, Link
    <3>2. ~Relinking({"last", "only"})
      BY <1>2, <1>13, <3>1 DEF Tearing, Relinking
    <3>3. lastNode = Link(q, Len(q))
      BY <1>2, <3>2 DEF Listed, LastIs
    <3> QED
      BY <1>4, <2>1, <2>3, <3>1, <3>3 DEF Inserting, Linked, Fresh, Link
  <2> QED
    BY <2>2, <2>3
<1>14. Removing(q)'
  BY <1>2, <1>6 DEF Listed, Removing, Relinking, ShapeAt, Detached
<1> QED
  BY <1>5, <1>7, <1>8, <1>9, <1>10, <1>11, <1>12, <1>13, <1>14 DEF Listed

\* Into an empty list: firstNode is the new node.
LEMMA LinkFirstKeeps ==
  ASSUME TypeOK, NEW q \in Seq(Nodes), Listed(q), LinkFirst
  PROVE  TypeOK' /\ q = <<>> /\ \E p \in Seq(Nodes) : p = <<ins.new>> /\ Listed(p)'
<1>1. /\ ins.at = "first" /\ ~Tearing
      /\ ins' = [ins EXCEPT !.at = "loadFirst"]
      /\ firstNode' = ins.new
      /\ node' = node /\ lastNode' = lastNode /\ iSize' = iSize
      /\ rem' = rem /\ main' = main /\ iCurrBlock' = iCurrBlock /\ enAlgorithm' = enAlgorithm
  BY DEF LinkFirst, InsAt, Torn
<1>2. /\ ins'.at = "loadFirst" /\ ins'.new = ins.new
      /\ ins' \in [at : {"idle", "first", "loadFirst", "link", "last", "load", "store"},
                   new : Pointers, last : Pointers, size : Int]
  BY <1>1 DEF TypeOK
<1>3. /\ q = <<>> /\ Range(q) = {} /\ Len(q) = 0
      /\ ins.new \in DOMAIN node /\ ins.new \in Nodes
      /\ node[ins.new].next = NULL /\ node[ins.new].prev = NULL
  <2>1. q = <<>> /\ ins.new \in DOMAIN node /\ node[ins.new].next = NULL /\ node[ins.new].prev = NULL
    BY <1>1 DEF Listed, Inserting, Linked, Fresh, Allocated
  <2> QED
    BY <2>1 DEF TypeOK, Range
<1>4. PICK p \in Seq(Nodes) : p = <<ins.new>>
  <2>1. \A n \in Nodes : <<n>> \in Seq(Nodes)
    OBVIOUS
  <2> QED
    BY <1>3, <2>1
<1>5. Len(p) = 1 /\ p[1] = ins.new /\ Range(p) = {ins.new} /\ IsInjective(p)
  BY <1>4 DEF Range, IsInjective
<1>6. Chain(p)'
  BY <1>1, <1>3, <1>5 DEF Chain, Link
<1>7. Allocated(p)'
  BY <1>1, <1>2, <1>3, <1>5 DEF Listed, Allocated, Fresh, Detached, Relinking
<1>8. Counted(p)'
  BY <1>1, <1>2, <1>3, <1>5 DEF Listed, Counted, Linked, Detached, Relinking
<1>9. Chosen(p)'
  BY <1>1, <1>3 DEF Listed, Chosen
<1>10. Prevs(p)'
  <2>1. ~Relinking({"middle"})
    BY <1>1, <1>3 DEF Listed, Removing
  <2> QED
    BY <1>1, <1>3, <1>5, <2>1 DEF Prevs, Relinking, Link
<1>11. LastIs(p)'
  BY <1>2 DEF LastIs
<1>12. Inserting(p)'
  BY <1>2, <1>5 DEF Inserting, Linked, Fresh
<1>13. ASSUME ~Tearing' PROVE Removing(p)'
  <2>1. rem.at # "unlink" /\ ~Relinking({"first"}) /\ ~Relinking({"middle"}) /\ ~Relinking({"last"})
    BY <1>1, <1>3 DEF Listed, Removing, Chosen
  <2>2. ~Relinking({"only"})
    <3>1. Relinking({"only"}) => ins.new # rem.node
      BY <1>1 DEF Listed, Allocated, Fresh, Detached, Relinking
    <3> QED
      BY <1>1, <1>2, <1>13, <3>1 DEF Tearing, Relinking
  <2> QED
    BY <1>1, <2>1, <2>2 DEF Removing, Relinking
<1>14. TypeOK'
  BY <1>1, <1>2, <1>3 DEF TypeOK, Pointers
<1> QED
  BY <1>3, <1>4, <1>6, <1>7, <1>8, <1>9, <1>10, <1>11, <1>12, <1>13, <1>14 DEF Listed


\* The assignment of one pointer of one node.
LEMMA NextSet ==
  ASSUME NEW D, NEW f \in [D -> ST_RequestNode], NEW m \in D, NEW x \in Pointers, NEW g,
         g = [f EXCEPT ![m].next = x]
  PROVE  /\ g \in [D -> ST_RequestNode]
         /\ g[m].next = x /\ g[m].prev = f[m].prev
         /\ \A n \in D : n # m => g[n] = f[n]
         /\ \A n \in D : g[n].prev = f[n].prev
BY DEF ST_RequestNode

LEMMA PrevSet ==
  ASSUME NEW D, NEW f \in [D -> ST_RequestNode], NEW m \in D, NEW x \in Pointers, NEW g,
         g = [f EXCEPT ![m].prev = x]
  PROVE  /\ g \in [D -> ST_RequestNode]
         /\ g[m].prev = x /\ g[m].next = f[m].next
         /\ \A n \in D : n # m => g[n] = f[n]
         /\ \A n \in D : g[n].next = f[n].next
BY DEF ST_RequestNode

\* Behind the last node: its next is the new one.
LEMMA LinkNextKeeps ==
  ASSUME TypeOK, NEW q \in Seq(Nodes), Listed(q), LinkNext
  PROVE  TypeOK' /\ ins.new \in Nodes \ Range(q)
         /\ \E p \in Seq(Nodes) : p = Append(q, ins.new) /\ Listed(p)'
<1>1. /\ ins.at = "link" /\ ~Tearing
      /\ ins' = [ins EXCEPT !.at = "last", !.last = ins.new]
      /\ node' = [node EXCEPT ![lastNode].next = ins.new]
      /\ firstNode' = firstNode /\ lastNode' = lastNode /\ iSize' = iSize
      /\ rem' = rem /\ main' = main /\ iCurrBlock' = iCurrBlock /\ enAlgorithm' = enAlgorithm
  BY DEF LinkNext, InsAt, Torn, listVars
<1>2. /\ ins'.at = "last" /\ ins'.new = ins.new /\ ins'.last = ins.new
      /\ ins' \in [at : {"idle", "first", "loadFirst", "link", "last", "load", "store"},
                   new : Pointers, last : Pointers, size : Int]
  BY <1>1 DEF TypeOK
<1> DEFINE n == ins.new
           e == Len(q)
<1>3. /\ ~Relinking({"last", "only"})
      /\ rem.at = "unlink" => rem.shape \notin {"last", "only"}
  BY <1>1 DEF Tearing, Relinking
<1>4. /\ e \in Nat /\ e >= 1 /\ lastNode = q[e] /\ lastNode \in Range(q) /\ lastNode \in DOMAIN node
      /\ Range(q) \subseteq DOMAIN node /\ IsInjective(q)
      /\ \A k \in 1 .. e : q[k] \in Range(q) /\ q[k] \in DOMAIN node
  <2>1. q # <<>> /\ lastNode = Link(q, e)
    BY <1>1, <1>3 DEF Listed, LastIs, Inserting
  <2> QED
    BY <2>1, NodesOf DEF Listed, Chain, Link
<1>5. /\ n \in DOMAIN node /\ n \in Nodes /\ n \notin Range(q) /\ n # lastNode
      /\ node[n].next = NULL /\ node[n].prev = q[e]
      /\ Detached => rem.node \in DOMAIN node /\ rem.node # n /\ rem.node # lastNode
  <2>1. /\ n \in DOMAIN node /\ n \notin Range(q)
        /\ Detached => rem.node \in DOMAIN node /\ rem.node # n /\ rem.node \notin Range(q)
    BY <1>1 DEF Listed, Allocated, Fresh
  <2>2. node[n].next = NULL /\ node[n].prev = Link(q, e)
    BY <1>1 DEF Listed, Inserting, Linked, Fresh
  <2> QED
    BY <1>4, <2>1, <2>2 DEF TypeOK, Link
<1>6. /\ node' \in [DOMAIN node -> ST_RequestNode]
      /\ node'[lastNode].next = n
      /\ \A m \in DOMAIN node : m # lastNode => node'[m] = node[m]
      /\ \A m \in DOMAIN node : node'[m].prev = node[m].prev
  <2>1. node \in [DOMAIN node -> ST_RequestNode] /\ n \in Pointers
    BY DEF TypeOK
  <2> QED
    BY <1>1, <1>4, <2>1, NextSet
<1>7. PICK p \in Seq(Nodes) : p = Append(q, n)
  <2>1. Append(q, n) \in Seq(Nodes)
    BY <1>5, AppendRange
  <2> QED
    BY <2>1
<1>8. /\ Len(p) = e + 1 /\ p[e + 1] = n /\ \A k \in 1 .. e : p[k] = q[k]
      /\ Range(p) = Range(q) \cup {n} /\ IsInjective(p)
  BY <1>4, <1>5, <1>7, AppendRange, AppendNew
<1>9. \A k \in 1 .. e - 1 : q[k] # lastNode
  BY <1>4 DEF IsInjective
<1> HIDE DEF n
<1>10. Chain(p)'
  <2>1. Range(p) \subseteq DOMAIN node'
    BY <1>4, <1>5, <1>6, <1>8
  <2>2. firstNode' = Link(p, 1)
    BY <1>1, <1>4, <1>8 DEF Listed, Chain, Link
  <2>3. ASSUME NEW k \in 1 .. e + 1 PROVE node'[p[k]].next = Link(p, k + 1)
    <3>1. CASE k = e + 1
      BY <1>4, <1>5, <1>6, <1>8, <3>1 DEF Link
    <3>2. CASE k = e
      BY <1>4, <1>6, <1>8, <3>2 DEF Link
    <3>3. CASE k \in 1 .. e - 1
      <4>1. node'[q[k]] = node[q[k]] /\ node[q[k]].next = q[k + 1]
        BY <1>4, <1>6, <1>9, <3>3 DEF Listed, Chain, Link
      <4> QED
        BY <1>4, <1>8, <3>3, <4>1 DEF Link
    <3> QED
      BY <1>4, <3>1, <3>2, <3>3
  <2> QED
    BY <1>8, <2>1, <2>2, <2>3 DEF Chain, Link
<1>11. Allocated(p)'
  BY <1>1, <1>2, <1>5, <1>6, <1>8 DEF Listed, Allocated, Fresh, Detached, Relinking, n
<1>12. Counted(p)'
  <2>1. /\ iSize = e + (IF Detached \/ rem.at \in {"load", "store"} THEN 1 ELSE 0)
        /\ rem.at = "store" => rem.size = iSize
    BY <1>1, <1>4 DEF Listed, Counted, Linked
  <2>2. Detached' <=> Detached
    BY <1>1 DEF Detached, Relinking
  <2>3. /\ iSize' = e + 1 - 1 + (IF Detached' \/ rem'.at \in {"load", "store"} THEN 1 ELSE 0)
        /\ rem'.at = "store" => rem'.size = iSize'
    BY <1>1, <1>4, <2>1, <2>2
  <2> QED
    BY <1>2, <1>8, <2>3 DEF Counted, Linked
<1>13. Chosen(p)'
  BY <1>1, <1>8 DEF Listed, Chosen
<1>14. Prevs(p)'
  <2>1. Relinking({"first"}) => e > 1
    BY <1>1 DEF Listed, Removing
  <2>2. Relinking({"middle"}) => /\ node[rem.node].next \in Range(q)
                                 /\ node'[rem.node] = node[rem.node]
    BY <1>1, <1>4, <1>5, <1>6 DEF Listed, Removing, Detached, Relinking
  <2>3. ASSUME NEW k \in 1 .. e
        PROVE node'[p[k]].prev = IF Relinking({"first"}) /\ k = 2 THEN NULL
                                 ELSE IF Relinking({"middle"}) /\ p[k] = node'[rem.node].next
                                      THEN rem.node ELSE Link(p, k - 1)
    <3>1. node[q[k]].prev = IF Relinking({"first"}) /\ k = 2 THEN NULL
                            ELSE IF Relinking({"middle"}) /\ q[k] = node[rem.node].next THEN rem.node
                            ELSE Link(q, k - 1)
      BY <1>1 DEF Listed, Prevs
    <3>2. p[k] = q[k] /\ node'[q[k]].prev = node[q[k]].prev
      BY <1>4, <1>6, <1>8
    <3>3. Link(p, k - 1) = Link(q, k - 1)
      BY <1>4, <1>8 DEF Link
    <3> QED
      BY <2>2, <3>1, <3>2, <3>3
  <2>4. node'[n].prev = q[e] /\ Link(p, e) = q[e] /\ n \notin Range(q)
    BY <1>4, <1>5, <1>6, <1>8 DEF Link
  <2> QED
    BY <1>1, <1>4, <1>8, <2>1, <2>2, <2>3, <2>4 DEF Prevs, Relinking, Link
<1>15. LastIs(p)'
  BY <1>2 DEF LastIs
<1>16. Inserting(p)'
  <2>1. rem.at \in {"test", "unlink"} => rem.node # n
    BY <1>5 DEF Listed, Chosen
  <2> QED
    BY <1>1, <1>2, <1>4, <1>8, <2>1 DEF Inserting, Linked, Fresh, Link, n
<1>17. Removing(p)'
  <2>1. ASSUME rem.at = "unlink", NEW k \in 1 .. e + 1, p[k] = rem.node
        PROVE  rem.shape = ShapeAt(p, k)
    <3>1. k \in 1 .. e /\ q[k] = rem.node
      BY <1>4, <1>5, <1>8, <2>1 DEF Listed, Chosen
    <3>2. rem.shape = ShapeAt(q, k)
      BY <1>1, <2>1, <3>1 DEF Listed, Removing
    <3> QED
      BY <1>3, <1>4, <1>8, <2>1, <3>1, <3>2 DEF ShapeAt
  <2>2. Relinking({"first"}) => Len(p) > 1 /\ p[1] = rem.node
    BY <1>1, <1>4, <1>8 DEF Listed, Removing
  <2>3. Relinking({"middle"}) => \E k \in 1 .. Len(p) - 1 : /\ node'[rem.node].prev = p[k]
                                                            /\ node'[rem.node].next = p[k + 1]
    <3>1. SUFFICES ASSUME Relinking({"middle"})
                   PROVE  \E k \in 1 .. Len(p) - 1 : /\ node'[rem.node].prev = p[k]
                                                     /\ node'[rem.node].next = p[k + 1]
      OBVIOUS
    <3>2. PICK k \in 1 .. e - 1 : node[rem.node].prev = q[k] /\ node[rem.node].next = q[k + 1]
      BY <1>1, <3>1 DEF Listed, Removing
    <3>3. node'[rem.node] = node[rem.node]
      BY <1>5, <1>6, <3>1 DEF Detached, Relinking
    <3> QED
      BY <1>4, <1>8, <3>2, <3>3
  <2> QED
    BY <1>1, <1>3, <1>8, <2>1, <2>2, <2>3 DEF Removing, Relinking
<1>18. TypeOK'
  BY <1>1, <1>2, <1>6 DEF TypeOK
<1> QED
  BY <1>5, <1>7, <1>10, <1>11, <1>12, <1>13, <1>14, <1>15, <1>16, <1>17, <1>18 DEF Listed, n


\* Where Unlink finds its node: at the place its case says, with its neighbours around it.
LEMMA UnlinkAt ==
  ASSUME TypeOK, NEW q \in Seq(Nodes), Listed(q), Unlink
  PROVE  /\ rem.at = "unlink" /\ ~Tearing
         /\ rem'.at = "relink" /\ rem'.node = rem.node /\ rem'.shape = rem.shape
         /\ rem' \in [at : {"idle", "test", "unlink", "relink", "free", "load", "store"},
                      node : Pointers, block : 0 .. LastBlock,
                      shape : {"none", "only", "last", "first", "middle"}, size : Int]
         /\ lastNode' = lastNode /\ iSize' = iSize
         /\ ins' = ins /\ main' = main /\ iCurrBlock' = iCurrBlock /\ enAlgorithm' = enAlgorithm
         /\ IsInjective(q) /\ Range(q) \subseteq DOMAIN node
         /\ \A k \in 1 .. Len(q) : q[k] \in Nodes /\ q[k] \in DOMAIN node /\ q[k] # NULL
         /\ ~Detached
         /\ \A k \in 1 .. Len(q) : node[q[k]].prev = Link(q, k - 1) /\ node[q[k]].next = Link(q, k + 1)
         /\ \E k \in 1 .. Len(q) : q[k] = rem.node /\ rem.shape = ShapeAt(q, k)
<1>1. rem.at = "unlink" /\ ~Tearing
  BY DEF Unlink, RemAt, Torn
<1>2. /\ rem' = [rem EXCEPT !.at = "relink"]
      /\ lastNode' = lastNode /\ iSize' = iSize
      /\ ins' = ins /\ main' = main /\ iCurrBlock' = iCurrBlock /\ enAlgorithm' = enAlgorithm
  BY DEF Unlink, listVars
<1>3. /\ rem'.at = "relink" /\ rem'.node = rem.node /\ rem'.shape = rem.shape
      /\ rem' \in [at : {"idle", "test", "unlink", "relink", "free", "load", "store"},
                   node : Pointers, block : 0 .. LastBlock,
                   shape : {"none", "only", "last", "first", "middle"}, size : Int]
  BY <1>2 DEF TypeOK
<1>4. IsInjective(q) /\ Range(q) \subseteq DOMAIN node
  BY DEF Listed, Chain
<1>5. \A k \in 1 .. Len(q) : q[k] \in Nodes /\ q[k] \in DOMAIN node /\ q[k] # NULL
  BY <1>4, NodesOf
<1>6. ~Detached
  BY <1>1 DEF Detached, Relinking
<1>7. \A k \in 1 .. Len(q) : node[q[k]].prev = Link(q, k - 1) /\ node[q[k]].next = Link(q, k + 1)
  BY <1>1 DEF Listed, Prevs, Chain, Relinking
<1>8. \E k \in 1 .. Len(q) : q[k] = rem.node /\ rem.shape = ShapeAt(q, k)
  <2>1. PICK k \in 1 .. Len(q) : q[k] = rem.node
    BY <1>1, NodesOf DEF Listed, Chosen, Range
  <2> QED
    BY <1>1, <2>1 DEF Listed, Removing
<1> QED
  BY <1>1, <1>2, <1>3, <1>4, <1>5, <1>6, <1>7, <1>8

\* The only node: the list is empty.
LEMMA UnlinkOnlyKeeps ==
  ASSUME TypeOK, NEW q \in Seq(Nodes), Listed(q), Unlink, rem.shape = "only"
  PROVE  TypeOK' /\ Len(q) = 1 /\ q[1] = rem.node
         /\ \E p \in Seq(Nodes) : p = <<>> /\ Listed(p)'
<1>1. /\ rem.at = "unlink" /\ ~Tearing /\ ~Detached
      /\ rem'.at = "relink" /\ rem'.node = rem.node /\ rem'.shape = "only"
      /\ ins' = ins /\ iSize' = iSize
  BY UnlinkAt
<1>2. node' = node /\ firstNode' = NULL
  BY DEF Unlink
<1>3. Len(q) = 1 /\ q[1] = rem.node
  <2>1. PICK k \in 1 .. Len(q) : q[k] = rem.node /\ rem.shape = ShapeAt(q, k)
    BY UnlinkAt
  <2> QED
    BY <2>1 DEF ShapeAt
<1>4. Range(q) = {rem.node} /\ rem.node \in DOMAIN node
  BY <1>3, UnlinkAt, NodesOf DEF Range
<1>5. PICK p \in Seq(Nodes) : p = <<>>
  <2>1. <<>> \in Seq(Nodes)
    OBVIOUS
  <2> QED
    BY <2>1
<1>6. Len(p) = 0 /\ Range(p) = {} /\ IsInjective(p)
  BY <1>5, ShortQueues
<1>7. Chain(p)'
  BY <1>2, <1>6 DEF Chain, Link
<1>8. Allocated(p)'
  <2>1. Fresh => ins.new \notin Range(q)
    BY DEF Listed, Allocated
  <2> QED
    BY <1>1, <1>2, <1>4, <1>6, <2>1 DEF Listed, Allocated, Fresh, Detached, Relinking
<1>9. Counted(p)'
  <2>1. Detached'
    BY <1>1 DEF Detached, Relinking
  <2> QED
    BY <1>1, <1>3, <1>6, <2>1 DEF Listed, Counted, Linked
<1>10. Chosen(p)'
  BY <1>1 DEF Listed, Chosen
<1>11. Prevs(p)'
  BY <1>6 DEF Prevs
<1>12. LastIs(p)'
  BY <1>1 DEF LastIs, Relinking
<1>13. Inserting(p)'
  <2>1. ins.at \notin {"first", "link"} /\ (ins.at = "last" => ins.last = NULL)
    <3>1. q # <<>>
      BY <1>3
    <3>2. ins.at # "first"
      BY <1>1, <3>1 DEF Listed, Inserting, Linked
    <3>3. ins.at = "link" => rem.node # ins.new
      BY <1>4 DEF Listed, Allocated, Fresh
    <3> QED
      BY <1>1, <3>2, <3>3 DEF Tearing
  <2> QED
    BY <1>1, <1>5, <1>6, <2>1 DEF Inserting, Linked, Fresh, Link
<1>14. Removing(p)'
  BY <1>1, <1>5 DEF Removing, Relinking
<1>15. TypeOK'
  BY <1>2, UnlinkAt DEF TypeOK, Pointers
<1> QED
  BY <1>3, <1>5, <1>7, <1>8, <1>9, <1>10, <1>11, <1>12, <1>13, <1>14, <1>15 DEF Listed

\* The first of several nodes: the second one loses its prev.
LEMMA UnlinkFirstKeeps ==
  ASSUME TypeOK, NEW q \in Seq(Nodes), Listed(q), Unlink, rem.shape = "first"
  PROVE  TypeOK' /\ q[1] = rem.node /\ Listed(q)'
<1>1. /\ rem.at = "unlink" /\ ~Tearing /\ ~Detached
      /\ rem'.at = "relink" /\ rem'.node = rem.node /\ rem'.shape = "first"
      /\ ins' = ins /\ iSize' = iSize /\ lastNode' = lastNode
  BY UnlinkAt
<1>2. node' = [node EXCEPT ![node[rem.node].next].prev = NULL] /\ firstNode' = firstNode
  BY DEF Unlink
<1>3. Len(q) \in Nat /\ Len(q) > 1 /\ q[1] = rem.node
  <2>1. PICK k \in 1 .. Len(q) : q[k] = rem.node /\ rem.shape = ShapeAt(q, k)
    BY UnlinkAt
  <2> QED
    BY <2>1 DEF ShapeAt
<1>4. /\ IsInjective(q) /\ Range(q) \subseteq DOMAIN node /\ DOMAIN q = 1 .. Len(q)
      /\ \A k \in 1 .. Len(q) : /\ q[k] \in Nodes /\ q[k] \in DOMAIN node
                                /\ node[q[k]].prev = Link(q, k - 1) /\ node[q[k]].next = Link(q, k + 1)
  BY UnlinkAt
<1>5. node[rem.node].next = q[2] /\ q[2] \in DOMAIN node
  BY <1>3, <1>4 DEF Link
<1>6. /\ node' \in [DOMAIN node -> ST_RequestNode]
      /\ node'[q[2]].prev = NULL
      /\ \A m \in DOMAIN node : m # q[2] => node'[m] = node[m]
      /\ \A m \in DOMAIN node : node'[m].next = node[m].next
  <2>1. node \in [DOMAIN node -> ST_RequestNode] /\ NULL \in Pointers
    BY DEF TypeOK, Pointers
  <2> QED
    BY <1>2, <1>5, <2>1, PrevSet
<1>7. Chain(q)'
  BY <1>2, <1>4, <1>6 DEF Listed, Chain, Link
<1>8. Allocated(q)'
  BY <1>1, <1>6 DEF Listed, Allocated, Fresh, Detached, Relinking
<1>9. Counted(q)'
  <2>1. ~Detached'
    BY <1>1 DEF Detached, Relinking
  <2> QED
    BY <1>1, <2>1 DEF Listed, Counted, Linked
<1>10. Chosen(q)'
  BY <1>1 DEF Listed, Chosen
<1>11. Prevs(q)'
  <2>1. ASSUME NEW k \in 1 .. Len(q), k # 2 PROVE node'[q[k]].prev = Link(q, k - 1)
    <3>1. q[k] # q[2]
      BY <1>3, <1>4, <2>1 DEF IsInjective
    <3> QED
      BY <1>4, <1>6, <3>1
  <2> QED
    BY <1>1, <1>6, <2>1 DEF Prevs, Relinking, Link
<1>12. LastIs(q)'
  BY <1>1 DEF Listed, LastIs, Relinking, Link
<1>13. Inserting(q)'
  <2>1. Fresh => ins.new \in DOMAIN node /\ ins.new # q[2]
    <3>1. q[2] \in Range(q)
      BY <1>3, NodesOf
    <3> QED
      BY <3>1 DEF Listed, Allocated
  <2> QED
    BY <1>1, <1>6, <2>1 DEF Listed, Inserting, Linked, Fresh, Link
<1>14. Removing(q)'
  BY <1>1, <1>3 DEF Removing, Relinking
<1>15. TypeOK'
  BY <1>2, <1>6, UnlinkAt DEF TypeOK
<1> QED
  BY <1>3, <1>7, <1>8, <1>9, <1>10, <1>11, <1>12, <1>13, <1>14, <1>15 DEF Listed


\* A node behind another one: that one's next passes over it.
LEMMA UnlinkBehindKeeps ==
  ASSUME TypeOK, NEW q \in Seq(Nodes), Listed(q), Unlink, rem.shape \in {"last", "middle"}
  PROVE  TypeOK' /\ \E k \in 1 .. Len(q), p \in Seq(Nodes) :
                      q[k] = rem.node /\ p = RemoveAt(q, k) /\ Listed(p)'
<1>1. /\ rem.at = "unlink" /\ ~Tearing /\ ~Detached
      /\ rem'.at = "relink" /\ rem'.node = rem.node /\ rem'.shape = rem.shape
      /\ ins' = ins /\ iSize' = iSize /\ lastNode' = lastNode
  BY UnlinkAt
<1>2. node' = [node EXCEPT ![node[rem.node].prev].next = node[rem.node].next] /\ firstNode' = firstNode
  BY DEF Unlink
<1>3. PICK e \in Nat : e = Len(q)
  OBVIOUS
<1>4. PICK k \in 1 .. e : q[k] = rem.node /\ rem.shape = ShapeAt(q, k)
  BY <1>3, UnlinkAt
<1>5. /\ e > 1 /\ k \in 2 .. e
      /\ rem.shape = "last" <=> k = e
  BY <1>3, <1>4 DEF ShapeAt
<1>6. /\ Range(q) \subseteq DOMAIN node
      /\ \A j \in 1 .. e : q[j] \in Nodes /\ q[j] \in DOMAIN node /\ q[j] \in Range(q)
      /\ \A i, j \in 1 .. e : q[i] = q[j] => i = j
  <2>1. DOMAIN q = 1 .. e /\ IsInjective(q)
    BY <1>3, UnlinkAt, NodesOf
  <2> QED
    BY <1>3, <2>1, UnlinkAt, NodesOf DEF IsInjective
<1>7. /\ \A j \in 1 .. e : node[q[j]].prev = Link(q, j - 1)
      /\ \A j \in 1 .. e : node[q[j]].next = Link(q, j + 1)
      /\ \A j \in 1 .. e : Link(q, j) = q[j]
      /\ \A j \in Int : j < 1 \/ j > e => Link(q, j) = NULL
  <2>1. /\ \A j \in 1 .. e : node[q[j]].prev = Link(q, j - 1)
        /\ \A j \in 1 .. e : node[q[j]].next = Link(q, j + 1)
    BY <1>3, UnlinkAt
  <2>2. \A j \in Int : Link(q, j) = IF 1 <= j /\ j <= e THEN q[j] ELSE NULL
    BY <1>3 DEF Link
  <2> QED
    BY <2>1, <2>2
<1>8. PICK before : before = q[k - 1]
  OBVIOUS
<1>9. /\ before \in DOMAIN node /\ before # rem.node /\ rem.node \in DOMAIN node
      /\ node[rem.node].prev = before /\ node[rem.node].next = Link(q, k + 1)
      /\ Link(q, k + 1) \in Pointers
  <2>1. k - 1 \in 1 .. e /\ k - 1 # k
    BY <1>5
  <2>2. before \in DOMAIN node /\ before # rem.node /\ rem.node \in DOMAIN node
    BY <1>4, <1>6, <1>8, <2>1
  <2>3. node[rem.node].prev = before /\ node[rem.node].next = Link(q, k + 1)
    BY <1>4, <1>7, <1>8, <2>1
  <2>4. node[rem.node].next \in Pointers
    BY <2>2 DEF TypeOK, ST_RequestNode
  <2> QED
    BY <2>2, <2>3, <2>4
<1>10. /\ node' \in [DOMAIN node -> ST_RequestNode]
       /\ node'[before].next = Link(q, k + 1)
       /\ \A m \in DOMAIN node : m # before => node'[m] = node[m]
       /\ \A m \in DOMAIN node : node'[m].prev = node[m].prev
  <2>1. node \in [DOMAIN node -> ST_RequestNode]
    BY DEF TypeOK
  <2> QED
    <3>1. PICK x \in Pointers : x = Link(q, k + 1)
      BY <1>9
    <3>2. node' = [node EXCEPT ![before].next = x]
      BY <1>2, <1>9, <3>1
    <3> QED
      BY <1>9, <2>1, <3>1, <3>2, NextSet
<1>11. /\ node'[rem.node] = node[rem.node] /\ node'[q[k - 1]].next = Link(q, k + 1)
       /\ \A j \in 1 .. e : node'[q[j]].prev = Link(q, j - 1)
       /\ \A j \in 1 .. e : j # k - 1 => node'[q[j]].next = Link(q, j + 1)
  <2>1. ASSUME NEW j \in 1 .. e, j # k - 1 PROVE q[j] # before
    BY <1>5, <1>6, <1>8, <2>1
  <2> QED
    BY <1>6, <1>7, <1>8, <1>9, <1>10, <2>1
<1>12. PICK p \in Seq(Nodes) : p = RemoveAt(q, k)
  <2>1. k \in DOMAIN q
    BY <1>3
  <2> QED
    BY <2>1, RemoveAtElements
<1>13. /\ Len(p) = e - 1
       /\ \A j \in 1 .. k - 1 : p[j] = q[j]
       /\ \A j \in k .. e - 1 : p[j] = q[j + 1]
       /\ IsInjective(p) /\ Range(p) \subseteq Range(q) /\ rem.node \notin Range(p)
       /\ Range(q) = Range(p) \cup {rem.node}
  <2>1. k \in DOMAIN q /\ IsInjective(q)
    BY <1>3, UnlinkAt
  <2>2. /\ Len(p) = e - 1
        /\ \A j \in 1 .. k - 1 : p[j] = q[j]
        /\ \A j \in k .. e - 1 : p[j] = q[j + 1]
    BY <1>3, <1>12, <2>1, RemoveAtElements
  <2>3. /\ IsInjective(p) /\ Range(p) \subseteq Range(q) /\ rem.node \notin Range(p)
        /\ Range(q) \subseteq Range(p) \cup {rem.node}
    BY <1>4, <1>12, <2>1, RemoveAtProperties
  <2> QED
    BY <1>4, <1>6, <2>2, <2>3
<1>14. /\ \A j \in 1 .. k - 1 : Link(p, j) = Link(q, j)
       /\ \A j \in k .. e - 1 : Link(p, j) = q[j + 1]
       /\ Link(p, 0) = NULL /\ Link(p, e) = NULL
       /\ p # <<>> /\ Link(p, Len(p)) = p[Len(p)]
  <2>1. \A j \in Int : Link(p, j) = IF 1 <= j /\ j <= e - 1 THEN p[j] ELSE NULL
    BY <1>13 DEF Link
  <2>2. Link(p, e) = NULL /\ Link(p, 0) = NULL /\ Link(p, e - 1) = p[e - 1]
    BY <1>5, <2>1
  <2>3. p # <<>>
    BY <1>5, <1>13
  <2>4. ASSUME NEW j \in 1 .. k - 1 PROVE Link(p, j) = Link(q, j)
    <3>1. j \in Int /\ 1 <= j /\ j <= e - 1 /\ j \in 1 .. e
      BY <1>5
    <3>2. p[j] = q[j] /\ Link(q, j) = q[j]
      BY <1>7, <1>13, <3>1
    <3> QED
      BY <2>1, <3>1, <3>2
  <2>5. ASSUME NEW j \in k .. e - 1 PROVE Link(p, j) = q[j + 1]
    <3>1. j \in Int /\ 1 <= j /\ j <= e - 1
      BY <1>5
    <3>2. p[j] = q[j + 1]
      BY <1>13
    <3> QED
      BY <2>1, <3>1, <3>2
  <2> QED
    BY <1>13, <2>2, <2>3, <2>4, <2>5
<1>15. Chain(p)'
  <2>1. Range(p) \subseteq DOMAIN node'
    BY <1>6, <1>10, <1>13
  <2>2. firstNode' = Link(p, 1)
    <3>1. firstNode = Link(q, 1)
      BY DEF Listed, Chain
    <3>2. 1 \in 1 .. k - 1
      BY <1>5
    <3> QED
      BY <1>2, <1>14, <3>1, <3>2
  <2>3. ASSUME NEW j \in 1 .. e - 1 PROVE node'[p[j]].next = Link(p, j + 1)
    <3>1. CASE j < k - 1
      <4>1. p[j] = q[j] /\ Link(p, j + 1) = Link(q, j + 1) /\ j \in 1 .. e
        BY <1>5, <1>13, <1>14, <3>1
      <4> QED
        BY <1>11, <3>1, <4>1
    <3>2. CASE j = k - 1
      <4>1. p[j] = q[k - 1]
        BY <1>5, <1>13, <3>2
      <4>2. Link(p, k) = Link(q, k + 1)
        <5>1. CASE k = e
          BY <1>5, <1>7, <1>14, <5>1
        <5>2. CASE k # e
          <6>1. k \in k .. e - 1 /\ k + 1 \in 1 .. e
            BY <1>5, <5>2
          <6> QED
            BY <1>7, <1>14, <6>1
        <5> QED
          BY <5>1, <5>2
      <4> QED
        BY <1>11, <3>2, <4>1, <4>2
    <3>3. CASE j >= k
      <4>1. p[j] = q[j + 1] /\ j + 1 \in 1 .. e /\ j + 1 # k - 1
        BY <1>5, <1>13, <3>3
      <4>2. Link(p, j + 1) = Link(q, j + 2)
        <5>1. CASE j = e - 1
          <6>1. Link(p, j + 1) = NULL
            BY <1>14, <5>1
          <6>2. j + 2 \in Int /\ j + 2 > e
            BY <5>1
          <6> QED
            BY <1>7, <6>1, <6>2
        <5>2. CASE j # e - 1
          <6>1. j + 1 \in k .. e - 1 /\ j + 1 + 1 = j + 2 /\ j + 2 \in 1 .. e
            BY <1>5, <3>3, <5>2
          <6> QED
            BY <1>7, <1>14, <6>1
        <5> QED
          BY <5>1, <5>2
      <4> QED
        <5>1. j + 1 + 1 = j + 2
          OBVIOUS
        <5> QED
          BY <1>11, <4>1, <4>2, <5>1
    <3> QED
      BY <1>5, <3>1, <3>2, <3>3
  <2> QED
    BY <1>13, <2>1, <2>2, <2>3 DEF Chain, Link
<1>16. Detached'
  BY <1>1 DEF Detached, Relinking
<1>17. Allocated(p)'
  <2>1. DOMAIN node' = DOMAIN node
    BY <1>10
  <2>2. /\ Fresh => ins.new \notin Range(q)
        /\ DOMAIN node = Range(q) \cup (IF Fresh THEN {ins.new} ELSE {})
    BY <1>1 DEF Listed, Allocated
  <2>3. rem.node \in Range(q)
    BY <1>4, <1>6
  <2> QED
    BY <1>1, <1>13, <1>16, <2>1, <2>2, <2>3 DEF Allocated, Fresh
<1>18. Counted(p)'
  <2>1. /\ iSize = e - (IF Linked THEN 1 ELSE 0)
        /\ ins.at = "store" => ins.size = iSize
    BY <1>1, <1>3 DEF Listed, Counted, Linked
  <2>2. iSize = e - 1 - (IF Linked THEN 1 ELSE 0) + 1
    BY <2>1
  <2> QED
    BY <1>1, <1>13, <1>16, <2>1, <2>2 DEF Counted, Linked
<1>19. Chosen(p)'
  BY <1>1 DEF Listed, Chosen
<1>20. Prevs(p)'
  <2>1. ASSUME NEW j \in 1 .. e - 1
        PROVE  node'[p[j]].prev = IF rem.shape = "middle" /\ p[j] = node'[rem.node].next THEN rem.node
                                  ELSE Link(p, j - 1)
    <3>1. CASE j <= k - 1
      <4>1. p[j] = q[j] /\ Link(p, j - 1) = Link(q, j - 1) /\ j \in 1 .. e
        BY <1>5, <1>7, <1>13, <1>14, <3>1
      <4>2. rem.shape = "middle" => p[j] # node'[rem.node].next
        <5>1. SUFFICES ASSUME rem.shape = "middle" PROVE p[j] # node'[rem.node].next
          OBVIOUS
        <5>2. k + 1 \in 1 .. e /\ j # k + 1
          BY <1>5, <3>1, <5>1
        <5>3. node'[rem.node].next = q[k + 1]
          BY <1>7, <1>9, <1>11, <5>2
        <5> QED
          BY <1>6, <4>1, <5>2, <5>3
      <4> QED
        BY <1>11, <4>1, <4>2
    <3>2. CASE j = k
      <4>1. k + 1 \in 1 .. e /\ p[j] = q[k + 1] /\ rem.shape = "middle"
        BY <1>3, <1>4, <1>5, <1>13, <3>2 DEF ShapeAt
      <4>2. node'[q[k + 1]].prev = rem.node
        BY <1>4, <1>7, <1>11, <4>1
      <4>3. node'[rem.node].next = q[k + 1]
        BY <1>7, <1>9, <1>11, <4>1
      <4> QED
        BY <4>1, <4>2, <4>3
    <3>3. CASE j > k
      <4>1. p[j] = q[j + 1] /\ j + 1 \in 1 .. e /\ j - 1 \in k .. e - 1 /\ j - 1 + 1 = j
            /\ k + 1 \in 1 .. e /\ j + 1 # k + 1
        BY <1>5, <1>13, <3>3
      <4>2. Link(p, j - 1) = q[j]
        BY <1>14, <4>1
      <4>3. node'[q[j + 1]].prev = q[j]
        BY <1>7, <1>11, <4>1
      <4>4. node'[rem.node].next = q[k + 1] /\ q[j + 1] # q[k + 1]
        BY <1>6, <1>7, <1>9, <1>11, <4>1
      <4> QED
        BY <4>1, <4>2, <4>3, <4>4
    <3> QED
      BY <1>5, <3>1, <3>2, <3>3
  <2> QED
    BY <1>1, <1>13, <2>1 DEF Prevs, Relinking, Link
<1>21. LastIs(p)'
  <2>1. SUFFICES ASSUME ins.at \notin {"loadFirst", "last"}, rem.shape # "last"
                 PROVE  lastNode = Link(p, e - 1)
    BY <1>1, <1>13 DEF LastIs, Relinking, Link
  <2>2. lastNode = Link(q, e)
    BY <1>1, <1>3, <2>1 DEF Listed, LastIs, Relinking
  <2>3. e - 1 \in k .. e - 1 /\ e - 1 + 1 = e
    BY <1>5, <2>1
  <2> QED
    BY <1>5, <1>7, <1>14, <2>2, <2>3
<1>22. Inserting(p)'
  <2>1. q # <<>> /\ ~(Len(q) <= 1)
    BY <1>3, <1>5
  <2>2. ins.at # "first" /\ ins.at # "loadFirst"
    BY <1>1, <2>1 DEF Listed, Inserting, Linked
  <2>9. Linked => q[e] = ins.new /\ rem.node # ins.new
    BY <1>1, <1>3, <2>1 DEF Listed, Inserting, Linked
  <2>3. ASSUME ins.at = "link" \/ Linked PROVE p[Len(p)] = q[e]
    <3>1. k # e
      <4>1. CASE ins.at = "link"
        BY <1>1, <1>4, <1>5, <1>6, <4>1 DEF Tearing, Listed, Allocated, Fresh
      <4>2. CASE Linked
        BY <1>4, <2>9, <4>2
      <4> QED
        BY <2>3, <4>1, <4>2
    <3>2. e - 1 \in k .. e - 1 /\ e - 1 + 1 = e
      BY <1>5, <3>1
    <3> QED
      BY <1>13, <3>2
  <2>4. Fresh => node'[ins.new] = node[ins.new]
    <3>1. Fresh => ins.new \in DOMAIN node /\ ins.new \notin Range(q)
      BY DEF Listed, Allocated
    <3>2. before \in Range(q)
      BY <1>5, <1>6, <1>8
    <3> QED
      BY <1>10, <3>1, <3>2
  <2>5. Link(q, Len(q)) = q[e] /\ q[Len(q)] = q[e]
    BY <1>3, <1>5, <1>7
  <2>6. ins.at = "link" => node[ins.new].prev = q[e]
    BY <1>1, <2>5 DEF Listed, Inserting, Linked
  <2>7. ins.at = "last" => ins.last = q[e]
    BY <1>1, <2>5 DEF Listed, Inserting, Linked
  <2>8. Fresh => node[ins.new].next = NULL
    BY <1>1 DEF Listed, Inserting, Linked
  <2> QED
    BY <1>1, <1>14, <2>2, <2>3, <2>4, <2>6, <2>7, <2>8, <2>9 DEF Inserting, Linked, Fresh, Link
<1>23. Removing(p)'
  <2>1. CASE k = e
    <3>1. p[Len(p)] = before
      BY <1>5, <1>8, <1>13, <2>1
    <3>2. rem.shape = "last" /\ node'[rem.node].prev = before
      BY <1>5, <1>9, <1>11, <2>1
    <3> QED
      BY <1>1, <1>14, <3>1, <3>2 DEF Removing, Relinking
  <2>2. CASE k # e
    <3>1. /\ k - 1 \in 1 .. Len(p) - 1 /\ k - 1 + 1 = k
          /\ k \in k .. e - 1 /\ k - 1 \in 1 .. k - 1 /\ k + 1 \in 1 .. e
      BY <1>5, <1>13, <2>2
    <3>2. p[k - 1] = before /\ p[k] = q[k + 1] /\ Link(q, k + 1) = q[k + 1]
      BY <1>7, <1>8, <1>13, <3>1
    <3>3. \E j \in 1 .. Len(p) - 1 : /\ node'[rem.node].prev = p[j]
                                     /\ node'[rem.node].next = p[j + 1]
      BY <1>9, <1>11, <3>1, <3>2
    <3>4. rem.shape = "middle"
      BY <1>5, <2>2
    <3> QED
      BY <1>1, <3>3, <3>4 DEF Removing, Relinking
  <2> QED
    BY <2>1, <2>2
<1>24. TypeOK'
  BY <1>2, <1>10, UnlinkAt DEF TypeOK
<1> QED
  BY <1>3, <1>4, <1>12, <1>15, <1>17, <1>18, <1>19, <1>20, <1>21, <1>22, <1>23, <1>24 DEF Listed


\* What Relink changes besides the pointers.
LEMMA RelinkAt ==
  ASSUME TypeOK, NEW q \in Seq(Nodes), Listed(q), Relink
  PROVE  /\ rem.at = "relink" /\ ~Tearing /\ rem.shape \in {"only", "last", "first", "middle"}
         /\ rem'.at = "free" /\ rem'.node = rem.node
         /\ rem' \in [at : {"idle", "test", "unlink", "relink", "free", "load", "store"},
                      node : Pointers, block : 0 .. LastBlock,
                      shape : {"none", "only", "last", "first", "middle"}, size : Int]
         /\ iSize' = iSize
         /\ ins' = ins /\ main' = main /\ iCurrBlock' = iCurrBlock /\ enAlgorithm' = enAlgorithm
         /\ firstNode' = IF rem.shape = "first" THEN node[rem.node].next ELSE firstNode
         /\ lastNode' = IF rem.shape = "only" THEN NULL
                        ELSE IF rem.shape = "last" THEN node[rem.node].prev ELSE lastNode
         /\ node' = IF rem.shape = "middle"
                    THEN [node EXCEPT ![node[rem.node].next].prev = node[rem.node].prev] ELSE node
<1>1. rem.at = "relink" /\ ~Tearing /\ rem.shape \in {"only", "last", "first", "middle"}
  BY DEF Relink, RemAt, Torn, Listed, Chosen
<1>2. /\ rem' = [rem EXCEPT !.at = "free"]
      /\ iSize' = iSize
      /\ ins' = ins /\ main' = main /\ iCurrBlock' = iCurrBlock /\ enAlgorithm' = enAlgorithm
      /\ firstNode' = IF rem.shape = "first" THEN node[rem.node].next ELSE firstNode
      /\ lastNode' = CASE rem.shape = "only" -> NULL
                       [] rem.shape = "last" -> node[rem.node].prev
                       [] OTHER -> lastNode
      /\ node' = IF rem.shape = "middle"
                 THEN [node EXCEPT ![node[rem.node].next].prev = node[rem.node].prev] ELSE node
  BY DEF Relink
<1>3. /\ rem'.at = "free" /\ rem'.node = rem.node
      /\ rem' \in [at : {"idle", "test", "unlink", "relink", "free", "load", "store"},
                   node : Pointers, block : 0 .. LastBlock,
                   shape : {"none", "only", "last", "first", "middle"}, size : Int]
  BY <1>2 DEF TypeOK
<1>4. lastNode' = IF rem.shape = "only" THEN NULL
                  ELSE IF rem.shape = "last" THEN node[rem.node].prev ELSE lastNode
  BY <1>2
<1> QED
  BY <1>1, <1>2, <1>3, <1>4

\* The first of several nodes: the second one is the first now.
LEMMA RelinkFirstKeeps ==
  ASSUME TypeOK, NEW q \in Seq(Nodes), Listed(q), Relink, rem.shape = "first"
  PROVE  TypeOK' /\ q # <<>> /\ q[1] = rem.node
         /\ \E p \in Seq(Nodes) : p = RemoveAt(q, 1) /\ Listed(p)'
<1>1. /\ rem.at = "relink" /\ ~Tearing
      /\ rem'.at = "free" /\ rem'.node = rem.node
      /\ ins' = ins /\ iSize' = iSize
      /\ firstNode' = node[rem.node].next /\ lastNode' = lastNode /\ node' = node
  BY RelinkAt
<1>2. Relinking({"first"}) /\ ~Relinking({"middle"}) /\ ~Relinking({"last", "only"}) /\ ~Detached
  BY <1>1 DEF Relinking, Detached
<1>3. PICK e \in Nat : e = Len(q)
  OBVIOUS
<1>4. e > 1 /\ q[1] = rem.node
  BY <1>1, <1>2, <1>3 DEF Listed, Removing
<1>5. /\ IsInjective(q) /\ Range(q) \subseteq DOMAIN node /\ DOMAIN q = 1 .. e
      /\ \A j \in 1 .. e : q[j] \in Nodes /\ q[j] \in DOMAIN node /\ q[j] \in Range(q)
  BY <1>3, NodesOf DEF Listed, Chain
<1>6. /\ \A j \in 1 .. e : node[q[j]].next = Link(q, j + 1)
      /\ \A j \in 1 .. e : node[q[j]].prev = IF j = 2 THEN NULL ELSE Link(q, j - 1)
      /\ \A j \in Int : Link(q, j) = IF 1 <= j /\ j <= e THEN q[j] ELSE NULL
  <2>1. \A j \in 1 .. e : node[q[j]].next = Link(q, j + 1)
    BY <1>3 DEF Listed, Chain
  <2>2. \A j \in 1 .. e : node[q[j]].prev = IF j = 2 THEN NULL ELSE Link(q, j - 1)
    BY <1>1, <1>2, <1>3 DEF Listed, Prevs
  <2>3. \A j \in Int : Link(q, j) = IF 1 <= j /\ j <= e THEN q[j] ELSE NULL
    BY <1>3 DEF Link
  <2> QED
    BY <2>1, <2>2, <2>3
<1>7. PICK p \in Seq(Nodes) : p = RemoveAt(q, 1)
  <2>1. 1 \in DOMAIN q
    BY <1>4, <1>5
  <2> QED
    BY <2>1, RemoveAtElements
<1>8. /\ Len(p) = e - 1
      /\ \A j \in 1 .. e - 1 : p[j] = q[j + 1]
      /\ IsInjective(p) /\ Range(p) \subseteq Range(q) /\ rem.node \notin Range(p)
      /\ Range(q) = Range(p) \cup {rem.node}
  <2>1. 1 \in DOMAIN q
    BY <1>4, <1>5
  <2>2. Len(p) = e - 1 /\ \A j \in 1 .. e - 1 : p[j] = q[j + 1]
    BY <1>3, <1>7, <2>1, RemoveAtElements
  <2>3. /\ IsInjective(p) /\ Range(p) \subseteq Range(q) /\ rem.node \notin Range(p)
        /\ Range(q) \subseteq Range(p) \cup {rem.node}
    BY <1>4, <1>5, <1>7, <2>1, RemoveAtProperties
  <2>4. rem.node \in Range(q)
    BY <1>4, <1>5
  <2> QED
    BY <2>2, <2>3, <2>4
<1>9. \A j \in Int : Link(p, j) = IF 1 <= j /\ j <= e - 1 THEN q[j + 1] ELSE NULL
  BY <1>8 DEF Link
<1>10. Chain(p)'
  <2>1. firstNode' = Link(p, 1)
    BY <1>1, <1>4, <1>6, <1>9
  <2>2. ASSUME NEW j \in 1 .. e - 1 PROVE node[p[j]].next = Link(p, j + 1)
    <3>1. j + 1 \in 1 .. e /\ p[j] = q[j + 1]
      BY <1>8
    <3>2. node[q[j + 1]].next = Link(q, j + 1 + 1)
      BY <1>6, <3>1
    <3> QED
      BY <1>6, <1>9, <3>1, <3>2
  <2> QED
    BY <1>1, <1>5, <1>8, <2>1, <2>2 DEF Chain, Link
<1>11. Detached'
  BY <1>1 DEF Detached
<1>12. Allocated(p)'
  <2>1. /\ Fresh => ins.new \notin Range(q)
        /\ DOMAIN node = Range(q) \cup (IF Fresh THEN {ins.new} ELSE {})
    BY <1>2 DEF Listed, Allocated
  <2> QED
    BY <1>1, <1>4, <1>5, <1>8, <1>11, <2>1 DEF Allocated, Fresh
<1>13. Counted(p)'
  <2>1. /\ iSize = e - (IF Linked THEN 1 ELSE 0)
        /\ ins.at = "store" => ins.size = iSize
    BY <1>1, <1>2, <1>3 DEF Listed, Counted, Linked
  <2>2. iSize = e - 1 - (IF Linked THEN 1 ELSE 0) + 1
    BY <2>1
  <2> QED
    BY <1>1, <1>8, <1>11, <2>1, <2>2 DEF Counted, Linked
<1>14. Chosen(p)'
  BY <1>1 DEF Listed, Chosen
<1>15. Prevs(p)'
  <2>1. ASSUME NEW j \in 1 .. e - 1 PROVE node[p[j]].prev = Link(p, j - 1)
    <3>1. j + 1 \in 1 .. e /\ p[j] = q[j + 1] /\ j + 1 - 1 = j
      BY <1>8
    <3>2. node[q[j + 1]].prev = IF j + 1 = 2 THEN NULL ELSE Link(q, j)
      <4>1. PICK i \in 1 .. e : i = j + 1
        BY <3>1
      <4>2. node[q[i]].prev = IF i = 2 THEN NULL ELSE Link(q, i - 1)
        BY <1>6
      <4> QED
        BY <3>1, <4>1, <4>2
    <3> QED
      BY <1>6, <1>9, <3>1, <3>2
  <2> QED
    BY <1>1, <1>8, <2>1 DEF Prevs, Relinking, Link
<1>16. p # <<>> /\ Link(p, Len(p)) = q[e] /\ p[Len(p)] = q[e] /\ Link(q, Len(q)) = q[e]
  BY <1>3, <1>4, <1>6, <1>8, <1>9
<1>17. LastIs(p)'
  BY <1>1, <1>2, <1>16 DEF Listed, LastIs, Relinking, Link
<1>18. Inserting(p)'
  <2>1. q # <<>> /\ ~(Len(q) <= 1)
    BY <1>3, <1>4
  <2>2. ins.at # "first" /\ ins.at # "loadFirst"
    BY <1>1, <2>1 DEF Listed, Inserting, Linked
  <2>3. /\ ins.at = "link" => node[ins.new].prev = q[e]
        /\ ins.at = "last" => ins.last = q[e]
        /\ Linked => q[e] = ins.new
        /\ Fresh => node[ins.new].next = NULL
    BY <1>1, <1>3, <1>16, <2>1 DEF Listed, Inserting, Linked
  <2> QED
    BY <1>1, <1>16, <2>2, <2>3 DEF Inserting, Linked, Fresh, Link
<1>19. Removing(p)'
  BY <1>1 DEF Removing, Relinking
<1>20. TypeOK'
  <2>1. firstNode' \in Pointers
    BY <1>1, <1>4, <1>5 DEF TypeOK, ST_RequestNode
  <2> QED
    BY <1>1, <2>1, RelinkAt DEF TypeOK
<1> QED
  BY <1>3, <1>4, <1>7, <1>10, <1>12, <1>13, <1>14, <1>15, <1>17, <1>18, <1>19, <1>20 DEF Listed

\* Any other node: it is out of the list already, and the second pointer follows.
LEMMA RelinkBehindKeeps ==
  ASSUME TypeOK, NEW q \in Seq(Nodes), Listed(q), Relink, rem.shape # "first"
  PROVE  TypeOK' /\ Listed(q)'
<1>1. /\ rem.at = "relink" /\ ~Tearing /\ rem.shape \in {"only", "last", "middle"}
      /\ rem'.at = "free" /\ rem'.node = rem.node
      /\ ins' = ins /\ iSize' = iSize
      /\ firstNode' = firstNode
      /\ lastNode' = IF rem.shape = "only" THEN NULL
                     ELSE IF rem.shape = "last" THEN node[rem.node].prev ELSE lastNode
      /\ node' = IF rem.shape = "middle"
                 THEN [node EXCEPT ![node[rem.node].next].prev = node[rem.node].prev] ELSE node
  BY RelinkAt
<1>2. Detached /\ Detached'
  BY <1>1 DEF Detached, Relinking
<1>3. /\ IsInjective(q) /\ Range(q) \subseteq DOMAIN node /\ DOMAIN q = 1 .. Len(q) /\ Len(q) \in Nat
      /\ \A j \in 1 .. Len(q) : q[j] \in Nodes /\ q[j] \in DOMAIN node /\ q[j] \in Range(q)
      /\ \A i, j \in 1 .. Len(q) : q[i] = q[j] => i = j
      /\ rem.node \in DOMAIN node /\ rem.node \notin Range(q)
      /\ Fresh => ins.new \in DOMAIN node /\ ins.new \notin Range(q)
  <2>1. IsInjective(q) /\ Range(q) \subseteq DOMAIN node
    BY DEF Listed, Chain
  <2>2. /\ DOMAIN q = 1 .. Len(q) /\ Len(q) \in Nat
        /\ \A j \in 1 .. Len(q) : q[j] \in Nodes /\ q[j] \in DOMAIN node /\ q[j] \in Range(q)
    BY <2>1, NodesOf
  <2>3. \A i, j \in 1 .. Len(q) : q[i] = q[j] => i = j
    BY <2>1, <2>2 DEF IsInjective
  <2>4. /\ rem.node \in DOMAIN node /\ rem.node \notin Range(q)
        /\ Fresh => ins.new \in DOMAIN node /\ ins.new \notin Range(q)
    BY <1>2 DEF Listed, Allocated
  <2> QED
    BY <2>1, <2>2, <2>3, <2>4
<1>4. /\ \A j \in 1 .. Len(q) : node[q[j]].next = Link(q, j + 1)
      /\ \A j \in 1 .. Len(q) : node[q[j]].prev =
           IF rem.shape = "middle" /\ q[j] = node[rem.node].next THEN rem.node ELSE Link(q, j - 1)
  BY <1>1 DEF Listed, Chain, Prevs, Relinking
<1>5. /\ DOMAIN node' = DOMAIN node /\ node' \in [DOMAIN node -> ST_RequestNode]
      /\ \A m \in DOMAIN node : m \notin Range(q) => node'[m] = node[m]
      /\ \A m \in DOMAIN node : node'[m].next = node[m].next
      /\ \A j \in 1 .. Len(q) : node'[q[j]].prev = Link(q, j - 1)
  <2>1. node \in [DOMAIN node -> ST_RequestNode]
    BY DEF TypeOK
  <2>2. CASE rem.shape # "middle"
    BY <1>1, <1>4, <2>1, <2>2
  <2>3. CASE rem.shape = "middle"
    <3>1. PICK k \in 1 .. Len(q) - 1 : node[rem.node].prev = q[k] /\ node[rem.node].next = q[k + 1]
      BY <1>1, <2>3 DEF Listed, Removing, Relinking
    <3>2. k \in 1 .. Len(q) /\ k + 1 \in 1 .. Len(q) /\ Link(q, k) = q[k]
      BY <1>3 DEF Link
    <3>3. q[k] \in Pointers /\ q[k + 1] \in DOMAIN node /\ q[k + 1] \in Range(q)
      BY <1>3, <3>2 DEF Pointers
    <3>4. node' = [node EXCEPT ![q[k + 1]].prev = q[k]]
      BY <1>1, <2>3, <3>1
    <3>5. /\ node' \in [DOMAIN node -> ST_RequestNode]
          /\ node'[q[k + 1]].prev = q[k]
          /\ \A m \in DOMAIN node : m # q[k + 1] => node'[m] = node[m]
          /\ \A m \in DOMAIN node : node'[m].next = node[m].next
      BY <2>1, <3>3, <3>4, PrevSet
    <3>6. ASSUME NEW j \in 1 .. Len(q) PROVE node'[q[j]].prev = Link(q, j - 1)
      <4>1. CASE j = k + 1
        <5>1. j - 1 = k
          BY <4>1
        <5> QED
          BY <3>2, <3>5, <4>1, <5>1
      <4>2. CASE j # k + 1
        <5>1. q[j] # q[k + 1]
          BY <1>3, <3>2, <4>2
        <5> QED
          BY <1>3, <1>4, <3>1, <3>5, <5>1
      <4> QED
        BY <4>1, <4>2
    <3>7. DOMAIN node' = DOMAIN node
      BY <3>5
    <3>8. \A m \in DOMAIN node : m \notin Range(q) => node'[m] = node[m]
      BY <3>3, <3>5
    <3> QED
      BY <3>5, <3>6, <3>7, <3>8
  <2> QED
    BY <2>2, <2>3
<1>6. Chain(q)'
  BY <1>1, <1>3, <1>4, <1>5 DEF Listed, Chain, Link
<1>7. Allocated(q)'
  BY <1>1, <1>2, <1>5 DEF Listed, Allocated, Fresh
<1>8. Counted(q)'
  BY <1>1, <1>2 DEF Listed, Counted, Linked
<1>9. Chosen(q)'
  BY <1>1 DEF Listed, Chosen
<1>10. Prevs(q)'
  BY <1>1, <1>5 DEF Prevs, Relinking, Link
<1>11. LastIs(q)'
  <2>1. CASE rem.shape = "only"
    <3>1. q = <<>>
      BY <1>1, <2>1 DEF Listed, Removing, Relinking
    <3> QED
      BY <1>1, <2>1, <3>1 DEF LastIs, Link
  <2>2. CASE rem.shape = "last"
    <3>1. q # <<>> /\ node[rem.node].prev = q[Len(q)]
      BY <1>1, <2>2 DEF Listed, Removing, Relinking
    <3> QED
      BY <1>1, <2>2, <3>1 DEF LastIs, Link
  <2>3. CASE rem.shape = "middle"
    BY <1>1, <2>3 DEF Listed, LastIs, Relinking, Link
  <2> QED
    BY <1>1, <2>1, <2>2, <2>3
<1>12. Inserting(q)'
  <2>1. Fresh => node'[ins.new] = node[ins.new]
    BY <1>3, <1>5
  <2> QED
    BY <1>1, <2>1 DEF Listed, Inserting, Linked, Fresh, Link
<1>13. Removing(q)'
  BY <1>1 DEF Removing, Relinking
<1>14. TypeOK'
  <2>1. lastNode' \in Pointers
    <3>1. node[rem.node].prev \in Pointers
      BY <1>3 DEF TypeOK, ST_RequestNode
    <3> QED
      BY <1>1, <3>1 DEF TypeOK, Pointers
  <2> QED
    BY <1>1, <1>5, <2>1, RelinkAt DEF TypeOK
<1> QED
  BY <1>6, <1>7, <1>8, <1>9, <1>10, <1>11, <1>12, <1>13, <1>14 DEF Listed


\* The exit of main: the list is emptied if nobody works on it, and left alone otherwise.
LEMMA finishDiskTaskKeeps ==
  ASSUME TypeOK, NEW q \in Seq(Nodes), Listed(q), finishDiskTask
  PROVE  TypeOK' /\ \E p \in Seq(Nodes) : p \in {q, <<>>} /\ Listed(p)'
<1>1. /\ ~Tearing /\ iCurrBlock' = iCurrBlock /\ enAlgorithm' = enAlgorithm
      /\ ins' = ins /\ rem' = rem /\ main' \in {"running", "exited", "interfered"}
  BY DEF finishDiskTask, Torn
<1>2. CASE node' = node /\ firstNode' = firstNode /\ lastNode' = lastNode /\ iSize' = iSize
  <2>1. Chain(q)'
    BY <1>2, SameChain DEF Listed
  <2>2. Allocated(q)' /\ Counted(q)' /\ Chosen(q)'
    BY <1>1, <1>2 DEF Listed, Allocated, Counted, Linked, Chosen, Fresh, Detached, Relinking
  <2>3. Prevs(q)' /\ LastIs(q)'
    BY <1>1, <1>2 DEF Listed, Prevs, LastIs, Relinking, Link
  <2>4. Inserting(q)' /\ Removing(q)'
    BY <1>1, <1>2 DEF Listed, Inserting, Linked, Removing, Fresh, Relinking, Link, ShapeAt
  <2>5. TypeOK'
    BY <1>1, <1>2 DEF TypeOK
  <2> QED
    BY <2>1, <2>2, <2>3, <2>4, <2>5 DEF Listed
<1>3. CASE /\ ins.at = "idle" /\ rem.at = "idle"
           /\ node' = Restrict(node, DOMAIN node \ Range(Forward))
           /\ firstNode' = NULL /\ lastNode' = NULL /\ iSize' = 0
  <2>1. Forward = q
    BY ForwardIs DEF Listed
  <2>2. ~Fresh /\ ~Detached /\ ~Fresh' /\ ~Detached'
    BY <1>1, <1>3 DEF Fresh, Detached, Relinking
  <2>3. DOMAIN node = Range(q)
    BY <2>2 DEF Listed, Allocated
  <2>4. node' = [n \in {} |-> node[n]]
    BY <1>3, <2>1, <2>3 DEF Restrict
  <2>5. DOMAIN node' = {} /\ node' \in [DOMAIN node' -> ST_RequestNode]
    BY <2>4
  <2>6. PICK p \in Seq(Nodes) : p = <<>>
    <3>1. <<>> \in Seq(Nodes)
      OBVIOUS
    <3> QED
      BY <3>1
  <2>7. Len(p) = 0 /\ Range(p) = {} /\ IsInjective(p) /\ \A k \in Int : Link(p, k) = NULL
    <3>1. Len(p) = 0 /\ Range(p) = {} /\ IsInjective(p)
      BY <2>6, ShortQueues
    <3> QED
      BY <3>1 DEF Link
  <2>8. Chain(p)'
    BY <1>3, <2>7 DEF Chain, Link
  <2>9. Allocated(p)'
    BY <2>2, <2>5, <2>7 DEF Allocated
  <2>10. Counted(p)' /\ Chosen(p)'
    BY <1>1, <1>3, <2>2, <2>7 DEF Listed, Counted, Linked, Chosen
  <2>11. Prevs(p)' /\ LastIs(p)'
    BY <1>3, <2>7 DEF Prevs, LastIs, Link
  <2>12. Inserting(p)' /\ Removing(p)'
    BY <1>1, <1>3, <2>2 DEF Inserting, Linked, Removing, Relinking
  <2>13. TypeOK'
    <3>1. NULL \in Pointers /\ 0 \in -1 .. MaxLength + 1
      BY ListAssumption DEF Pointers
    <3> QED
      BY <1>1, <1>3, <2>5, <3>1 DEF TypeOK
  <2> QED
    BY <2>6, <2>8, <2>9, <2>10, <2>11, <2>12, <2>13 DEF Listed
<1> QED
  BY <1>2, <1>3 DEF finishDiskTask, listVars

------------------------------------------------------------------------------
(* The invariant *)

\* Of createList: the empty list.
LEMMA InitIsListed == Init => TypeOK /\ Listed(<<>>)
<1> SUFFICES ASSUME Init PROVE TypeOK /\ Listed(<<>>)
  OBVIOUS
<1>1. /\ ins.at = "idle" /\ rem.at = "idle" /\ rem.node = NULL
      /\ DOMAIN node = {} /\ node \in [DOMAIN node -> ST_RequestNode]
  BY DEF Init, NoInsertion, NoRemoval
<1>2. PICK p \in Seq(Nodes) : p = <<>>
  <2>1. <<>> \in Seq(Nodes)
    OBVIOUS
  <2> QED
    BY <2>1
<1>3. Len(p) = 0 /\ Range(p) = {} /\ IsInjective(p)
  BY <1>2, ShortQueues
<1>4. Chain(p)
  BY <1>3 DEF Chain, Link, Init
<1>5. ~Fresh /\ ~Detached
  BY <1>1 DEF Fresh, Detached, Relinking
<1>6. Allocated(p) /\ Counted(p) /\ Chosen(p)
  BY <1>1, <1>3, <1>5 DEF Allocated, Counted, Linked, Chosen, Init, NoInsertion
<1>7. Prevs(p) /\ LastIs(p)
  BY <1>3 DEF Prevs, LastIs, Link, Init
<1>8. Inserting(p) /\ Removing(p)
  BY <1>1, <1>5 DEF Inserting, Linked, Removing, Relinking
<1>9. TypeOK
  <2>1. 0 \in -1 .. MaxLength + 1 /\ 0 \in 0 .. LastBlock /\ NULL \in Pointers
    BY ListAssumption DEF Pointers
  <2>2. ins \in [at : {"idle", "first", "loadFirst", "link", "last", "load", "store"},
                 new : Pointers, last : Pointers, size : Int]
    BY <2>1 DEF Init, NoInsertion
  <2>3. rem \in [at : {"idle", "test", "unlink", "relink", "free", "load", "store"}, node : Pointers,
                 block : 0 .. LastBlock, shape : {"none", "only", "last", "first", "middle"},
                 size : Int]
    BY <2>1 DEF Init, NoRemoval
  <2> QED
    BY <1>1, <2>1, <2>2, <2>3 DEF TypeOK, Init
<1> QED
  BY <1>2, <1>4, <1>6, <1>7, <1>8, <1>9 DEF Listed

\* A step after which nothing has changed.
LEMMA StutterKeeps ==
  ASSUME TypeOK, NEW q \in Seq(Nodes), Listed(q), UNCHANGED vars
  PROVE  TypeOK' /\ Listed(q)'
<1>1. /\ node' = node /\ firstNode' = firstNode /\ lastNode' = lastNode /\ iSize' = iSize
      /\ iCurrBlock' = iCurrBlock /\ enAlgorithm' = enAlgorithm
      /\ ins' = ins /\ rem' = rem /\ main' = main
  BY DEF vars, listVars
<1>2. Chain(q)'
  BY <1>1, SameChain DEF Listed
<1>3. Allocated(q)' /\ Counted(q)' /\ Chosen(q)'
  BY <1>1 DEF Listed, Allocated, Counted, Linked, Chosen, Fresh, Detached, Relinking
<1>4. ~Tearing' => Prevs(q)' /\ LastIs(q)'
  BY <1>1 DEF Listed, Prevs, LastIs, Relinking, Link, Tearing
<1>5. ~Tearing' => Inserting(q)' /\ Removing(q)'
  BY <1>1 DEF Listed, Inserting, Linked, Removing, Fresh, Relinking, Link, ShapeAt, Tearing
<1>6. TypeOK'
  BY <1>1 DEF TypeOK
<1> QED
  BY <1>2, <1>3, <1>4, <1>5, <1>6 DEF Listed

\* After every step the pointers stand for some list again.
LEMMA NextKeeps ==
  ASSUME TypeOK, NEW q \in Seq(Nodes), Listed(q), [Next]_vars
  PROVE  TypeOK' /\ \E p \in Seq(Nodes) : Listed(p)'
<1>1. CASE \E b \in 0 .. LastBlock : addNodeInFront(b)
  BY <1>1, addNodeInFrontKeeps
<1>2. CASE LinkFirst
  BY <1>2, LinkFirstKeeps
<1>3. CASE LinkNext
  BY <1>3, LinkNextKeeps
<1>4. CASE LoadFirst \/ SetLast
  BY <1>4, LoadFirstKeeps, SetLastKeeps
<1>5. CASE InsReadSize
  BY <1>5, InsReadSizeKeeps
<1>6. CASE InsWriteSize
  BY <1>6, InsWriteSizeKeeps
<1>7. CASE diskScheduler
  BY <1>7, diskSchedulerKeeps
<1>8. CASE removeNode
  BY <1>8, removeNodeKeeps
<1>9. CASE Unlink
  <2>1. PICK k \in 1 .. Len(q) : rem.shape = ShapeAt(q, k)
    BY <1>9, UnlinkAt
  <2>2. rem.shape \in {"only", "first", "last", "middle"}
    BY <2>1 DEF ShapeAt
  <2> QED
    BY <1>9, <2>2, UnlinkOnlyKeeps, UnlinkFirstKeeps, UnlinkBehindKeeps
<1>10. CASE Relink
  BY <1>10, RelinkFirstKeeps, RelinkBehindKeeps
<1>11. CASE Free
  BY <1>11, FreeKeeps
<1>12. CASE RemReadSize
  BY <1>12, RemReadSizeKeeps
<1>13. CASE RemWriteSize
  BY <1>13, RemWriteSizeKeeps
<1>14. CASE finishDiskTask
  BY <1>14, finishDiskTaskKeeps
<1>15. CASE UNCHANGED vars
  BY <1>15, StutterKeeps
<1> QED
  BY <1>1, <1>2, <1>3, <1>4, <1>5, <1>6, <1>7, <1>8, <1>9, <1>10, <1>11, <1>12, <1>13, <1>14, <1>15
  DEF Next, Insertion, Removal

\* The invariant names the list, by a sequence no longer than there are nodes.
LEMMA IInvList ==
  ASSUME IInv
  PROVE  TypeOK /\ \E q \in Seq(Nodes) : Listed(q)
<1>1. PICK q \in BoundedSeq(Nodes, MaxLength) : Listed(q)
  BY DEF IInv
<1>2. q \in Seq(Nodes)
  BY BoundedSeqIsSeq, ListAssumption
<1> QED
  BY <1>1, <1>2 DEF IInv

\* The pointers stand for a list at every step, however the two sides interleave.
THEOREM Invariance == Spec => []IInv
<1>1. Init => IInv
  <2> SUFFICES ASSUME Init PROVE IInv
    OBVIOUS
  <2>1. TypeOK /\ Listed(<<>>) /\ <<>> \in Seq(Nodes)
    BY InitIsListed
  <2>2. <<>> \in BoundedSeq(Nodes, MaxLength)
    BY <2>1, ListLength DEF Listed, Chain
  <2> QED
    BY <2>1, <2>2 DEF IInv
<1>2. IInv /\ [Next]_vars => IInv'
  <2> SUFFICES ASSUME IInv, [Next]_vars PROVE IInv'
    OBVIOUS
  <2>1. PICK q \in Seq(Nodes) : Listed(q)
    BY IInvList
  <2>2. TypeOK
    BY DEF IInv
  <2>3. TypeOK' /\ \E p \in Seq(Nodes) : Listed(p)'
    BY <2>1, <2>2, NextKeeps
  <2>4. PICK p \in Seq(Nodes) : Listed(p)'
    BY <2>3
  <2>5. p \in BoundedSeq(Nodes, MaxLength)
    BY <2>4, ListLength DEF Listed, Chain
  <2> QED
    BY <2>3, <2>4, <2>5 DEF IInv
<1> QED
  BY <1>1, <1>2, PTL DEF Spec

\* Every variable keeps its type; iSize is never more than one off the length of a list
\* that is never longer than there are nodes.
THEOREM TypeCorrect == Spec => []TypeOK
<1>1. IInv => TypeOK
  BY DEF IInv
<1> QED
  BY <1>1, Invariance, PTL

------------------------------------------------------------------------------
(* What the list is good for *)

\* addNodeInFront and removeNode follow pointers to allocated nodes only.
THEOREM NoDanglingPointer == Spec => []DereferencesLiveNodes
<1>1. ASSUME TypeOK, NEW q \in Seq(Nodes), Listed(q), ~Torn PROVE DereferencesLiveNodes
  <2>1. ~Tearing
    BY <1>1 DEF Torn
  <2>2. PICK e \in Nat : e = Len(q)
    OBVIOUS
  <2>3. /\ \A j \in 1 .. e : q[j] \in DOMAIN node
        /\ \A j \in 1 .. e : Link(q, j) = q[j]
        /\ \A n \in Range(q) : \E j \in 1 .. e : q[j] = n
        /\ Range(q) \subseteq DOMAIN node
    BY <1>1, <2>2, NodesOf DEF Listed, Chain, Link, Range
  <2>4. ASSUME ins.at = "link" PROVE lastNode \in DOMAIN node
    <3>1. ~Relinking({"last", "only"})
      BY <2>1, <2>4 DEF Tearing, Relinking
    <3>2. lastNode = Link(q, e) /\ q # <<>>
      BY <1>1, <2>1, <2>2, <2>4, <3>1 DEF Listed, LastIs, Inserting
    <3>3. e \in 1 .. e
      BY <2>2, <3>2
    <3> QED
      BY <2>3, <3>2, <3>3
  <2>5. ASSUME rem.at \in {"test", "unlink", "relink", "free"} PROVE rem.node \in DOMAIN node
    <3>1. CASE rem.at \in {"test", "unlink"}
      BY <1>1, <2>3, <3>1 DEF Listed, Chosen
    <3>2. CASE Relinking({"first"})
      <4>1. Len(q) > 1 /\ q[1] = rem.node
        BY <1>1, <2>1, <3>2 DEF Listed, Removing
      <4> QED
        BY <2>2, <2>3, <4>1
    <3>3. CASE Detached
      BY <1>1, <3>3 DEF Listed, Allocated
    <3> QED
      BY <1>1, <2>5, <3>1, <3>2, <3>3 DEF Listed, Chosen, Relinking, Detached
  <2>6. ASSUME rem.at = "unlink"
        PROVE  /\ rem.shape \in {"last", "middle"} => node[rem.node].prev \in DOMAIN node
               /\ rem.shape \in {"first", "middle"} => node[rem.node].next \in DOMAIN node
    <3>1. PICK k \in 1 .. e : q[k] = rem.node
      BY <1>1, <2>3, <2>6 DEF Listed, Chosen
    <3>2. rem.shape = ShapeAt(q, k)
      BY <1>1, <2>1, <2>2, <2>6, <3>1 DEF Listed, Removing
    <3>3. node[rem.node].prev = Link(q, k - 1) /\ node[rem.node].next = Link(q, k + 1)
      BY <1>1, <2>1, <2>2, <2>6, <3>1 DEF Listed, Prevs, Chain, Relinking
    <3>4. rem.shape \in {"last", "middle"} => k - 1 \in 1 .. e
      BY <2>2, <3>1, <3>2 DEF ShapeAt
    <3>5. rem.shape \in {"first", "middle"} => k + 1 \in 1 .. e
      BY <2>2, <3>1, <3>2 DEF ShapeAt
    <3> QED
      BY <2>3, <3>3, <3>4, <3>5
  <2>7. ASSUME rem.at = "relink"
        PROVE  /\ rem.shape \in {"last", "middle"} => node[rem.node].prev \in DOMAIN node
               /\ rem.shape \in {"first", "middle"} => node[rem.node].next \in DOMAIN node
    <3>1. CASE rem.shape = "first"
      <4>1. e > 1 /\ q[1] = rem.node
        BY <1>1, <2>1, <2>2, <2>7, <3>1 DEF Listed, Removing, Relinking
      <4>2. node[rem.node].next = Link(q, 2)
        BY <1>1, <2>2, <4>1 DEF Listed, Chain
      <4> QED
        BY <2>3, <3>1, <4>1, <4>2
    <3>2. CASE rem.shape = "last"
      <4>1. q # <<>> /\ node[rem.node].prev = q[e]
        BY <1>1, <2>1, <2>2, <2>7, <3>2 DEF Listed, Removing, Relinking
      <4>2. e \in 1 .. e
        BY <2>2, <4>1
      <4> QED
        BY <2>3, <3>2, <4>1, <4>2
    <3>3. CASE rem.shape = "middle"
      <4>1. PICK k \in 1 .. e - 1 : node[rem.node].prev = q[k] /\ node[rem.node].next = q[k + 1]
        BY <1>1, <2>1, <2>2, <2>7, <3>3 DEF Listed, Removing, Relinking
      <4>2. k \in 1 .. e /\ k + 1 \in 1 .. e
        OBVIOUS
      <4> QED
        BY <2>3, <4>1, <4>2
    <3> QED
      BY <3>1, <3>2, <3>3
  <2> QED
    BY <2>4, <2>5, <2>6, <2>7 DEF DereferencesLiveNodes
<1>2. IInv => DereferencesLiveNodes
  BY <1>1, IInvList DEF DereferencesLiveNodes
<1> QED
  BY <1>2, Invariance, PTL

\* Read from its last node, the list is the same, backwards.
LEMMA BackwardIs ==
  ASSUME NEW q \in Seq(Nodes), Chain(q), lastNode = Link(q, Len(q)),
         \A k \in 1 .. Len(q) : node[q[k]].prev = Link(q, k - 1)
  PROVE  Backward = Reverse(q)
<1> DEFINE link == [n \in DOMAIN node |-> node[n].prev]
<1>1. PICK e \in Nat : e = Len(q)
  OBVIOUS
<1>2. e <= MaxLength
  BY <1>1, ListLength, ListAssumption DEF Chain
<1>3. PICK r : r = Reverse(q)
  OBVIOUS
<1>4. r \in Seq(Nodes) /\ Len(r) = e /\ \A k \in 1 .. e : r[k] = q[e - k + 1]
  <2>1. r = [k \in 1 .. e |-> q[e - k + 1]]
    BY <1>1, <1>3 DEF Reverse
  <2>2. \A k \in 1 .. e : e - k + 1 \in 1 .. e
    OBVIOUS
  <2>3. \A k \in 1 .. e : q[k] \in Nodes
    BY <1>1
  <2> QED
    BY <2>1, <2>2, <2>3
<1>5. \A k \in Int : /\ Link(q, k) = IF 1 <= k /\ k <= e THEN q[k] ELSE NULL
                     /\ Link(r, k) = IF 1 <= k /\ k <= e THEN r[k] ELSE NULL
  BY <1>1, <1>4 DEF Link
<1>6. lastNode = Link(r, 1)
  BY <1>1, <1>4, <1>5
<1>7. ASSUME NEW k \in 1 .. e PROVE link[r[k]] = Link(r, k + 1)
  <2>1. PICK j \in 1 .. e : j = e - k + 1
    OBVIOUS
  <2>2. r[k] = q[j] /\ q[j] \in DOMAIN node
    BY <1>1, <1>4, <2>1, NodesOf DEF Chain
  <2>3. link[r[k]] = Link(q, j - 1)
    BY <1>1, <2>2
  <2>4. Link(r, k + 1) = Link(q, j - 1)
    <3>1. CASE k = e
      BY <1>5, <2>1, <3>1
    <3>2. CASE k # e
      <4>1. k + 1 \in 1 .. e /\ j - 1 \in 1 .. e /\ e - (k + 1) + 1 = j - 1
        BY <2>1, <3>2
      <4>2. r[k + 1] = q[j - 1]
        BY <1>4, <4>1
      <4> QED
        BY <1>5, <4>1, <4>2
    <3> QED
      BY <3>1, <3>2
  <2> QED
    BY <2>3, <2>4
<1>8. Backward = Walk(lastNode, link)
  BY DEF Backward
<1> HIDE DEF link
<1>9. Walk(lastNode, link) = r
  <2>1. r \in Seq(Nodes) /\ Len(r) = e /\ Len(r) <= MaxLength
    BY <1>2, <1>4
  <2>2. \A k \in 1 .. Len(r) : link[r[k]] = Link(r, k + 1)
    BY <1>7, <2>1
  <2> QED
    BY <1>6, <2>1, <2>2, WalkIs
<1> QED
  BY <1>3, <1>8, <1>9

\* When nobody works on it, the list is well linked, nothing has leaked and iSize is its length.
THEOREM ListIsWellLinked == Spec => []WellLinked
<1>1. ASSUME TypeOK, NEW q \in Seq(Nodes), Listed(q), ~Torn, ins.at = "idle", rem.at = "idle"
      PROVE  /\ Backward = Reverse(Forward)
             /\ DOMAIN node = Range(Forward)
             /\ iSize = Len(Forward)
  <2>1. ~Tearing /\ Forward = q /\ Chain(q)
    BY <1>1, ForwardIs DEF Torn, Listed
  <2>2. ~Fresh /\ ~Detached
    BY <1>1 DEF Fresh, Detached, Relinking
  <2>3. lastNode = Link(q, Len(q))
    BY <1>1, <2>1 DEF Listed, LastIs, Relinking
  <2>4. \A k \in 1 .. Len(q) : node[q[k]].prev = Link(q, k - 1)
    BY <1>1, <2>1 DEF Listed, Prevs, Relinking
  <2>5. Backward = Reverse(q)
    BY <2>1, <2>3, <2>4, BackwardIs
  <2>6. DOMAIN node = Range(q)
    BY <1>1, <2>2 DEF Listed, Allocated
  <2>7. iSize = Len(q)
    BY <1>1, <2>2 DEF Listed, Counted, Linked
  <2> QED
    BY <2>1, <2>5, <2>6, <2>7
<1>2. IInv => WellLinked
  BY <1>1, IInvList DEF WellLinked
<1> QED
  BY <1>2, Invariance, PTL

------------------------------------------------------------------------------
(* The queue that the list stands for *)

\* A list without the node that removeNode works on, unless it has been freed.
Without(q, at, n) ==
  LET removed == IF at \in {"load", "store"} THEN {} ELSE {i \in DOMAIN q : q[i] = n}
  IN  IF removed = {} THEN q ELSE RemoveAt(q, CHOOSE i \in removed : TRUE)

\* Without takes out one node or none.
LEMMA WithoutIs ==
  ASSUME NEW q \in Seq(Nodes), IsInjective(q), NEW at, NEW n
  PROVE  /\ at \in {"load", "store"} \/ n \notin Range(q) => Without(q, at, n) = q
         /\ at \notin {"load", "store"} =>
              \A i \in 1 .. Len(q) : q[i] = n => Without(q, at, n) = RemoveAt(q, i)
         /\ Without(q, at, n) \in Seq(Nodes)
         /\ Range(Without(q, at, n)) \subseteq Range(q)
         /\ Len(Without(q, at, n)) <= Len(q)
<1> DEFINE S == {i \in DOMAIN q : q[i] = n}
<1>1. DOMAIN q = 1 .. Len(q) /\ Len(q) \in Nat
  OBVIOUS
<1>2. CASE at \in {"load", "store"} \/ n \notin Range(q)
  <2>1. (IF at \in {"load", "store"} THEN {} ELSE S) = {}
    BY <1>2 DEF Range
  <2>2. Without(q, at, n) = q
    BY <2>1 DEF Without
  <2> QED
    BY <1>1, <1>2, <2>2 DEF Range
<1>3. CASE at \notin {"load", "store"} /\ n \in Range(q)
  <2>1. PICK i \in 1 .. Len(q) : q[i] = n
    BY <1>1, <1>3 DEF Range
  <2>2. S = {i}
    BY <1>1, <2>1 DEF IsInjective
  <2>3. Without(q, at, n) = RemoveAt(q, i)
    <3>1. Without(q, at, n) = IF S = {} THEN q ELSE RemoveAt(q, CHOOSE j \in S : TRUE)
      BY <1>3 DEF Without
    <3>2. S # {} /\ (CHOOSE j \in S : TRUE) = i
      BY <2>2
    <3> QED
      BY <3>1, <3>2
  <2>4. /\ RemoveAt(q, i) \in Seq(Nodes) /\ Len(RemoveAt(q, i)) = Len(q) - 1
        /\ Range(RemoveAt(q, i)) \subseteq Range(q)
    BY <1>1, <2>1, RemoveAtProperties
  <2>5. \A j \in 1 .. Len(q) : q[j] = n => j = i
    BY <1>1, <2>1 DEF IsInjective
  <2> QED
    BY <1>1, <1>3, <2>3, <2>4, <2>5
<1> QED
  BY <1>2, <1>3

\* Forward is the list after a step.
LEMMA ForwardNextIs ==
  ASSUME NEW q \in Seq(Nodes), Chain(q)'
  PROVE  Forward' = q
<1>1. /\ IsInjective(q) /\ firstNode' = Link(q, 1)
      /\ \A k \in 1 .. Len(q) : q[k] \in DOMAIN node' /\ node'[q[k]].next = Link(q, k + 1)
  BY NodesOf DEF Chain, Link
<1>2. Len(q) <= MaxLength
  BY <1>1, ListLength, ListAssumption
<1> DEFINE link == [n \in DOMAIN node' |-> node'[n].next]
<1>3. \A k \in 1 .. Len(q) : link[q[k]] = Link(q, k + 1)
  BY <1>1
<1>4. Forward' = Walk(firstNode', link)
  BY DEF Forward, Walk
<1> HIDE DEF link
<1> QED
  BY <1>1, <1>2, <1>3, <1>4, WalkIs

\* Pending is the list without the node being removed, before and after a step.
LEMMA PendingIs ==
  /\ \A q \in Seq(Nodes) : Chain(q) => Pending = Without(q, rem.at, rem.node)
  /\ \A q \in Seq(Nodes) : Chain(q)' => Pending' = Without(q, rem'.at, rem'.node)
<1>1. Pending = Without(Forward, rem.at, rem.node)
  BY DEF Pending, Without
<1>2. Pending' = Without(Forward', rem'.at, rem'.node)
  BY DEF Pending, Without
<1> QED
  BY <1>1, <1>2, ForwardIs, ForwardNextIs

\* No step changes the block of an allocated node.
LEMMA BlocksKept ==
  ASSUME TypeOK, [Next]_vars
  PROVE  \A n \in DOMAIN node \cap DOMAIN node' : node'[n].block = node[n].block
<1>1. ASSUME NEW b \in 0 .. LastBlock, addNodeInFront(b)
      PROVE  \A n \in DOMAIN node \cap DOMAIN node' : node'[n].block = node[n].block
  BY <1>1 DEF addNodeInFront, createNode
<1>2. CASE LinkNext
  BY <1>2 DEF LinkNext, TypeOK, ST_RequestNode
<1>3. CASE Unlink
  BY <1>3 DEF Unlink, TypeOK, ST_RequestNode
<1>4. CASE Relink
  BY <1>4 DEF Relink, TypeOK, ST_RequestNode
<1>5. CASE Free
  BY <1>5 DEF Free, Restrict
<1>6. CASE finishDiskTask
  BY <1>6 DEF finishDiskTask, Restrict
<1>7. CASE node' = node
  BY <1>7
<1> QED
  BY <1>1, <1>2, <1>3, <1>4, <1>5, <1>6, <1>7
  DEF Next, Insertion, Removal, LinkFirst, LoadFirst, SetLast, InsReadSize, InsWriteSize, diskScheduler,
      removeNode, RemReadSize, RemWriteSize, vars

\* The position of the head in SeekOrder.
SeekHead == IF rem.at = "idle" THEN iCurrBlock ELSE rem.block

\* What SeekOrder sees of a state.
LEMMA OrderSees ==
  ASSUME TypeOK, NEW q \in Seq(Nodes), Chain(q)
  PROVE  \E s \in Seq(Nodes) :
           /\ s = Without(q, rem.at, rem.node)
           /\ Range(s) \subseteq DOMAIN node
           /\ Blocks(Pending) = Blocks(s)
           /\ Blocks(s) \in Seq(0 .. LastBlock) /\ Blocks(s) \in Seq(Nat)
           /\ Len(Blocks(s)) = Len(s)
           /\ \A i \in 1 .. Len(s) : Blocks(s)[i] = node[s[i]].block
<1>1. PICK s : s = Without(q, rem.at, rem.node)
  OBVIOUS
<1>2. IsInjective(q) /\ Range(q) \subseteq DOMAIN node
  BY DEF Chain
<1>3. s \in Seq(Nodes) /\ Range(s) \subseteq DOMAIN node
  BY <1>1, <1>2, WithoutIs
<1>4. Pending = s
  BY <1>1, PendingIs
<1> QED
  BY <1>1, <1>3, <1>4, BlocksOf

\* A step that leaves the queue alone.
LEMMA QueueStays ==
  ASSUME TypeOK, [Next]_vars, NEW q \in Seq(Nodes), Chain(q), NEW p \in Seq(Nodes), Chain(p)',
         Without(p, rem'.at, rem'.node) = Without(q, rem.at, rem.node)
  PROVE  Pending' = Pending /\ Blocks(Pending)' = Blocks(Pending) /\ enAlgorithm' = enAlgorithm
<1>1. PICK s : s = Without(q, rem.at, rem.node)
  OBVIOUS
<1>2. Pending = s /\ Pending' = s
  BY <1>1, PendingIs
<1>3. /\ IsInjective(q) /\ Range(q) \subseteq DOMAIN node
      /\ IsInjective(p) /\ Range(p) \subseteq DOMAIN node'
  BY DEF Chain
<1>4. s \in Seq(Nodes) /\ Range(s) \subseteq DOMAIN node /\ Range(s) \subseteq DOMAIN node'
  BY <1>1, <1>3, WithoutIs
<1>5. \A i \in DOMAIN s : node'[s[i]].block = node[s[i]].block
  BY <1>4, BlocksKept DEF Range
<1>6. Blocks(Pending)' = Blocks(Pending)
  BY <1>2, <1>5 DEF Blocks
<1>7. enAlgorithm' = enAlgorithm
  BY DEF Next, Insertion, Removal, addNodeInFront, LinkFirst, LoadFirst, LinkNext, SetLast,
         InsReadSize, InsWriteSize, diskScheduler, removeNode, Unlink, Relink, Free, RemReadSize,
         RemWriteSize, finishDiskTask, vars
<1> QED
  BY <1>2, <1>6, <1>7

\* A step that leaves the queue, the head and the arrival of the last request alone.
LEMMA Stutters ==
  ASSUME TypeOK, [Next]_vars, NEW q \in Seq(Nodes), Chain(q), NEW p \in Seq(Nodes), Chain(p)',
         Without(p, rem'.at, rem'.node) = Without(q, rem.at, rem.node),
         SeekHead' = SeekHead,
         Linked' <=> Linked, Linked => ins'.new = ins.new
  PROVE  UNCHANGED Order!vars
<1>1. Pending' = Pending /\ Blocks(Pending)' = Blocks(Pending) /\ enAlgorithm' = enAlgorithm
  BY QueueStays
<1>2. PICK s : s = Pending
  OBVIOUS
<1>3. Range(Pending)' = Range(s) /\ Range(Pending) = Range(s)
  BY <1>1, <1>2 DEF Range
<1>4. Uncounted' = Uncounted
  BY <1>3 DEF Uncounted
<1> QED
  BY <1>1, <1>4 DEF Order!vars, SeekHead

------------------------------------------------------------------------------
(* Every step is a step of SeekOrder or none *)

\* Steps of addNodeInFront that do not link the node.
LEMMA InsertionStutters ==
  ASSUME TypeOK, NEW q \in Seq(Nodes), Listed(q),
         \/ \E b \in 0 .. LastBlock : addNodeInFront(b)
         \/ LoadFirst \/ SetLast \/ InsReadSize
  PROVE  UNCHANGED Order!vars
<1>1. [Next]_vars
  BY DEF Next, Insertion
<1>2. Chain(q)'
  BY addNodeInFrontKeeps, LoadFirstKeeps, SetLastKeeps, InsReadSizeKeeps DEF Listed
<1>3. rem' = rem /\ iCurrBlock' = iCurrBlock
  BY DEF addNodeInFront, LoadFirst, SetLast, InsReadSize
<1>4. (Linked' <=> Linked) /\ (Linked => ins'.new = ins.new)
  <2>1. CASE \E b \in 0 .. LastBlock : addNodeInFront(b)
    <3>1. ins.at = "idle" /\ ins'.at \in {"first", "link"}
      BY <2>1 DEF addNodeInFront, createNode, InsAt, TypeOK
    <3> QED
      BY <3>1 DEF Linked
  <2>2. CASE LoadFirst \/ SetLast \/ InsReadSize
    <3>1. /\ ins.at \in {"loadFirst", "last", "load"} /\ ins'.at \in {"last", "load", "store"}
          /\ ins'.new = ins.new
      BY <2>2 DEF LoadFirst, SetLast, InsReadSize, InsAt, TypeOK
    <3> QED
      BY <3>1 DEF Linked
  <2> QED
    BY <2>1, <2>2
<1> QED
  BY <1>1, <1>2, <1>3, <1>4, Stutters DEF Listed, SeekHead

\* iSize is stored: from now on the last request counts, if it is still there.
LEMMA CountingCounts ==
  ASSUME TypeOK, NEW q \in Seq(Nodes), Listed(q), InsWriteSize
  PROVE  Order!Count \/ UNCHANGED Order!vars
<1>1. [Next]_vars
  BY DEF Next, Insertion
<1>2. Chain(q) /\ Chain(q)'
  BY InsWriteSizeKeeps DEF Listed
<1>3. rem' = rem /\ iCurrBlock' = iCurrBlock /\ ins'.at = "idle"
  BY DEF InsWriteSize, NoInsertion
<1>4. Blocks(Pending)' = Blocks(Pending) /\ enAlgorithm' = enAlgorithm /\ SeekHead' = SeekHead
  BY <1>1, <1>2, <1>3, QueueStays DEF SeekHead
<1>5. ~Uncounted'
  BY <1>3 DEF Uncounted, Linked
<1>6. CASE Uncounted
  BY <1>4, <1>5, <1>6 DEF Order!Count, SeekHead
<1>7. CASE ~Uncounted
  BY <1>4, <1>5, <1>7 DEF Order!vars, SeekHead, Uncounted
<1> QED
  BY <1>6, <1>7

\* Steps of removeNode that neither unlink nor relink a node.
LEMMA RemovalStutters ==
  ASSUME TypeOK, NEW q \in Seq(Nodes), Listed(q),
         removeNode \/ Free \/ RemReadSize \/ RemWriteSize
  PROVE  UNCHANGED Order!vars
<1>1. [Next]_vars /\ (Linked' <=> Linked) /\ ins'.new = ins.new
  BY DEF Next, Removal, removeNode, Free, RemReadSize, RemWriteSize, Linked
<1>2. Chain(q)' /\ Chain(q) /\ IsInjective(q)
  BY removeNodeKeeps, FreeKeeps, RemReadSizeKeeps, RemWriteSizeKeeps DEF Listed, Chain
<1>3. CASE removeNode
  <2>1. /\ rem.at = "test" /\ rem'.at = "unlink" /\ rem'.node = rem.node
        /\ rem'.block = rem.block /\ iCurrBlock' = iCurrBlock
    BY <1>3 DEF removeNode, RemAt, TypeOK
  <2>2. Without(q, rem'.at, rem'.node) = Without(q, rem.at, rem.node)
    BY <2>1 DEF Without
  <2> QED
    BY <1>1, <1>2, <2>1, <2>2, Stutters DEF SeekHead
<1>4. CASE Free
  <2>1. /\ rem.at = "free" /\ rem'.at = "load" /\ rem'.block = rem.block
        /\ iCurrBlock' = iCurrBlock
    BY <1>4 DEF Free, RemAt, TypeOK
  <2>2. rem.node \notin Range(q)
    BY <2>1 DEF Listed, Allocated, Detached
  <2>3. Without(q, rem'.at, rem'.node) = q /\ Without(q, rem.at, rem.node) = q
    BY <1>2, <2>1, <2>2, WithoutIs
  <2> QED
    BY <1>1, <1>2, <2>1, <2>3, Stutters DEF SeekHead
<1>5. CASE RemReadSize
  <2>1. /\ rem.at = "load" /\ rem'.at = "store" /\ rem'.block = rem.block
        /\ iCurrBlock' = iCurrBlock
    BY <1>5 DEF RemReadSize, RemAt, TypeOK
  <2>2. Without(q, rem'.at, rem'.node) = q /\ Without(q, rem.at, rem.node) = q
    BY <1>2, <2>1, WithoutIs
  <2> QED
    BY <1>1, <1>2, <2>1, <2>2, Stutters DEF SeekHead
<1>6. CASE RemWriteSize
  <2>1. rem.at = "store" /\ rem'.at = "idle" /\ rem'.node = NULL /\ iCurrBlock' = rem.block
    BY <1>6 DEF RemWriteSize, RemAt, NoRemoval
  <2>2. NULL \notin Range(q)
    BY NodesOf DEF Range
  <2>3. Without(q, rem'.at, rem'.node) = q /\ Without(q, rem.at, rem.node) = q
    BY <1>2, <2>1, <2>2, WithoutIs
  <2> QED
    BY <1>1, <1>2, <2>1, <2>3, Stutters DEF SeekHead
<1> QED
  BY <1>3, <1>4, <1>5, <1>6

\* Unlink: what it takes out of the list was already taken out of the queue.
LEMMA UnlinkStutters ==
  ASSUME TypeOK, NEW q \in Seq(Nodes), Listed(q), Unlink
  PROVE  UNCHANGED Order!vars
<1>1. [Next]_vars /\ (Linked' <=> Linked) /\ ins'.new = ins.new
  BY DEF Next, Removal, Unlink, Linked
<1>2. Chain(q) /\ IsInjective(q) /\ DOMAIN q = 1 .. Len(q)
  BY DEF Listed, Chain
<1>3. rem.at = "unlink" /\ rem'.at = "relink" /\ rem'.node = rem.node /\ SeekHead' = SeekHead
  <2>1. rem' = [rem EXCEPT !.at = "relink"] /\ iCurrBlock' = iCurrBlock /\ rem.at = "unlink"
    BY DEF Unlink, RemAt
  <2>2. rem'.at = "relink" /\ rem'.node = rem.node /\ rem'.block = rem.block
    BY <2>1 DEF TypeOK
  <2> QED
    BY <2>1, <2>2 DEF SeekHead
<1>4. ASSUME NEW k \in 1 .. Len(q), q[k] = rem.node
      PROVE  /\ Without(q, rem.at, rem.node) = RemoveAt(q, k)
             /\ RemoveAt(q, k) \in Seq(Nodes) /\ IsInjective(RemoveAt(q, k))
             /\ Len(RemoveAt(q, k)) = Len(q) - 1
             /\ Without(RemoveAt(q, k), rem'.at, rem'.node) = RemoveAt(q, k)
  <2>1. Without(q, rem.at, rem.node) = RemoveAt(q, k)
    BY <1>2, <1>3, <1>4, WithoutIs
  <2>2. /\ RemoveAt(q, k) \in Seq(Nodes) /\ IsInjective(RemoveAt(q, k))
        /\ rem.node \notin Range(RemoveAt(q, k)) /\ Len(RemoveAt(q, k)) = Len(q) - 1
    BY <1>2, <1>4, RemoveAtProperties
  <2> QED
    BY <1>3, <2>1, <2>2, WithoutIs
<1>5. PICK k \in 1 .. Len(q) : rem.shape = ShapeAt(q, k)
  BY UnlinkAt
<1>6. CASE rem.shape = "only"
  <2>1. PICK p \in Seq(Nodes) : p = <<>> /\ Listed(p)'
    BY <1>6, UnlinkOnlyKeeps
  <2>2. Len(q) = 1 /\ q[1] = rem.node
    BY <1>6, UnlinkOnlyKeeps
  <2>3. 1 \in 1 .. Len(q)
    BY <2>2
  <2>4. p = RemoveAt(q, 1)
    <3>1. Len(RemoveAt(q, 1)) = 0 /\ RemoveAt(q, 1) \in Seq(Nodes)
      BY <1>4, <2>2, <2>3
    <3> QED
      BY <2>1, <3>1, EmptySeq
  <2>5. Without(p, rem'.at, rem'.node) = Without(q, rem.at, rem.node)
    BY <1>4, <2>2, <2>3, <2>4
  <2> QED
    BY <1>1, <1>2, <1>3, <2>1, <2>5, Stutters DEF Listed
<1>7. CASE rem.shape = "first"
  <2>1. Listed(q)'
    BY <1>7, UnlinkFirstKeeps
  <2>2. Without(q, rem'.at, rem'.node) = Without(q, rem.at, rem.node)
    BY <1>3 DEF Without
  <2> QED
    BY <1>1, <1>2, <1>3, <2>1, <2>2, Stutters DEF Listed
<1>8. CASE rem.shape \in {"last", "middle"}
  <2>1. PICK j \in 1 .. Len(q), p \in Seq(Nodes) :
               q[j] = rem.node /\ p = RemoveAt(q, j) /\ Listed(p)'
    BY <1>8, UnlinkBehindKeeps
  <2>2. Without(p, rem'.at, rem'.node) = Without(q, rem.at, rem.node)
    BY <1>4, <2>1
  <2> QED
    BY <1>1, <1>2, <1>3, <2>1, <2>2, Stutters DEF Listed
<1>9. rem.shape \in {"only", "first", "last", "middle"}
  BY <1>5 DEF ShapeAt
<1> QED
  BY <1>6, <1>7, <1>8, <1>9

\* Relink: the same.
LEMMA RelinkStutters ==
  ASSUME TypeOK, NEW q \in Seq(Nodes), Listed(q), Relink
  PROVE  UNCHANGED Order!vars
<1>1. [Next]_vars /\ (Linked' <=> Linked) /\ ins'.new = ins.new
  BY DEF Next, Removal, Relink, Linked
<1>2. Chain(q) /\ IsInjective(q) /\ DOMAIN q = 1 .. Len(q)
  BY DEF Listed, Chain
<1>3. rem.at = "relink" /\ rem'.at = "free" /\ rem'.node = rem.node /\ SeekHead' = SeekHead
  <2>1. rem' = [rem EXCEPT !.at = "free"] /\ iCurrBlock' = iCurrBlock /\ rem.at = "relink"
    BY DEF Relink, RemAt
  <2>2. rem'.at = "free" /\ rem'.node = rem.node /\ rem'.block = rem.block
    BY <2>1 DEF TypeOK
  <2> QED
    BY <2>1, <2>2 DEF SeekHead
<1>4. CASE rem.shape = "first"
  <2>1. PICK p \in Seq(Nodes) : p = RemoveAt(q, 1) /\ Listed(p)'
    BY <1>4, RelinkFirstKeeps
  <2>2. q # <<>> /\ q[1] = rem.node
    BY <1>4, RelinkFirstKeeps
  <2>3. 1 \in 1 .. Len(q)
    BY <2>2, EmptySeq
  <2>4. Without(q, rem.at, rem.node) = p
    BY <1>2, <1>3, <2>1, <2>2, <2>3, WithoutIs
  <2>5. IsInjective(p) /\ rem.node \notin Range(p)
    BY <1>2, <2>1, <2>2, <2>3, RemoveAtProperties
  <2>6. Without(p, rem'.at, rem'.node) = p
    BY <1>3, <2>5, WithoutIs
  <2> QED
    BY <1>1, <1>2, <1>3, <2>1, <2>4, <2>6, Stutters DEF Listed
<1>5. CASE rem.shape # "first"
  <2>1. Listed(q)'
    BY <1>5, RelinkBehindKeeps, RelinkAt
  <2>2. Without(q, rem'.at, rem'.node) = Without(q, rem.at, rem.node)
    BY <1>3 DEF Without
  <2> QED
    BY <1>1, <1>2, <1>3, <2>1, <2>2, Stutters DEF Listed
<1> QED
  BY <1>4, <1>5

\* RemoveAt takes elements by their places only: from the nodes and from their blocks alike.
LEMMA RemoveAtCommutes ==
  ASSUME NEW s \in Seq(Nodes), NEW t \in Seq(Nat), NEW i \in 1 .. Len(s), Len(t) = Len(s)
  PROVE  /\ RemoveAt(t, i) \in Seq(Nat) /\ Len(RemoveAt(t, i)) = Len(RemoveAt(s, i))
         /\ \A j \in 1 .. Len(s) - 1 :
              \E k \in 1 .. Len(s) : RemoveAt(s, i)[j] = s[k] /\ RemoveAt(t, i)[j] = t[k]
<1>1. DOMAIN s = 1 .. Len(s) /\ DOMAIN t = 1 .. Len(s) /\ Len(s) \in Nat
  OBVIOUS
<1>2. /\ RemoveAt(t, i) \in Seq(Nat) /\ Len(RemoveAt(t, i)) = Len(s) - 1
      /\ Len(RemoveAt(s, i)) = Len(s) - 1
      /\ \A j \in 1 .. i - 1 : RemoveAt(s, i)[j] = s[j] /\ RemoveAt(t, i)[j] = t[j]
      /\ \A j \in i .. Len(s) - 1 : RemoveAt(s, i)[j] = s[j + 1] /\ RemoveAt(t, i)[j] = t[j + 1]
  <2>1. /\ Len(RemoveAt(s, i)) = Len(s) - 1
        /\ \A j \in 1 .. i - 1 : RemoveAt(s, i)[j] = s[j]
        /\ \A j \in i .. Len(s) - 1 : RemoveAt(s, i)[j] = s[j + 1]
    <3>1. i \in DOMAIN s
      BY <1>1
    <3> QED
      BY <3>1, RemoveAtElements
  <2>2. /\ RemoveAt(t, i) \in Seq(Nat) /\ Len(RemoveAt(t, i)) = Len(t) - 1
        /\ \A j \in 1 .. i - 1 : RemoveAt(t, i)[j] = t[j]
        /\ \A j \in i .. Len(t) - 1 : RemoveAt(t, i)[j] = t[j + 1]
    <3>1. i \in DOMAIN t
      BY <1>1
    <3> QED
      BY <3>1, RemoveAtElements
  <2> QED
    BY <2>1, <2>2
<1>3. ASSUME NEW j \in 1 .. Len(s) - 1
      PROVE  \E k \in 1 .. Len(s) : RemoveAt(s, i)[j] = s[k] /\ RemoveAt(t, i)[j] = t[k]
  <2>1. CASE j < i
    <3>1. j \in 1 .. i - 1 /\ j \in 1 .. Len(s)
      BY <1>1, <2>1
    <3> QED
      BY <1>2, <3>1
  <2>2. CASE j >= i
    <3>1. j \in i .. Len(s) - 1 /\ j + 1 \in 1 .. Len(s)
      BY <1>1, <2>2
    <3> QED
      BY <1>2, <3>1
  <2> QED
    BY <2>1, <2>2
<1> QED
  BY <1>2, <1>3

\* addNodeInFront may have allocated a node that the list does not hold: not even the one
\* that removeNode works on.
LEMMA FreshIsNew ==
  ASSUME TypeOK, NEW q \in Seq(Nodes), Listed(q), Fresh, ~Torn
  PROVE  /\ ins.new \notin Range(q)
         /\ rem.at \in {"load", "store"} \/ rem.node # ins.new \/ rem.node = NULL
<1>1. ins.new \notin Range(q) /\ (Detached => rem.node # ins.new) /\ ~Tearing
  BY DEF Listed, Allocated, Torn
<1>2. CASE rem.at = "idle"
  BY <1>1, <1>2 DEF Listed, Chosen
<1>3. CASE rem.at \in {"test", "unlink"}
  BY <1>1, <1>3 DEF Listed, Chosen
<1>4. CASE Relinking({"first"})
  <2>1. Len(q) > 1 /\ q[1] = rem.node
    BY <1>1, <1>4 DEF Listed, Removing
  <2>2. rem.node \in Range(q)
    <3>1. 1 \in 1 .. Len(q)
      BY <2>1
    <3> QED
      BY <2>1, <3>1, NodesOf
  <2> QED
    BY <1>1, <2>2
<1>5. CASE Detached
  BY <1>1, <1>5
<1>6. CASE rem.at \in {"load", "store"}
  BY <1>1, <1>6
<1>7. rem.at \in {"idle", "test", "unlink", "relink", "free", "load", "store"}
      /\ (rem.at = "relink" => rem.shape \in {"only", "last", "first", "middle"})
  BY DEF TypeOK, Listed, Chosen
<1> QED
  BY <1>1, <1>2, <1>3, <1>4, <1>5, <1>6, <1>7 DEF Detached, Relinking

\* The step that links the new node puts its block behind the queue.
LEMMA LinkingInserts ==
  ASSUME TypeOK, NEW q \in Seq(Nodes), Listed(q), LinkFirst \/ LinkNext
  PROVE  \E b \in 0 .. LastBlock : Order!addNodeInFront(b)
<1>1. /\ Fresh /\ ~Torn /\ rem' = rem /\ iCurrBlock' = iCurrBlock /\ enAlgorithm' = enAlgorithm
  BY DEF LinkFirst, LinkNext, InsAt, Fresh
<1>2. Chain(q) /\ IsInjective(q) /\ Len(q) \in Nat /\ DOMAIN q = 1 .. Len(q)
  BY DEF Listed, Chain
<1>3. /\ ins.new \notin Range(q)
      /\ rem.at \in {"load", "store"} \/ rem.node # ins.new \/ rem.node = NULL
  BY <1>1, FreshIsNew
<1>4. PICK p \in Seq(Nodes) : p = Append(q, ins.new) /\ Listed(p)' /\ ins.new \in Nodes
  <2>1. CASE LinkFirst
    <3>1. PICK p \in Seq(Nodes) : p = <<ins.new>> /\ Listed(p)'
      BY <2>1, LinkFirstKeeps
    <3>2. q = <<>>
      BY <2>1, LinkFirstKeeps
    <3>3. p = Append(q, ins.new)
      BY <3>1, <3>2, ShortQueues
    <3>4. ins.new \in Nodes
      BY <3>1
    <3> QED
      BY <3>1, <3>3, <3>4
  <2>2. CASE LinkNext
    BY <2>2, LinkNextKeeps
  <2> QED
    BY <2>1, <2>2
<1>5. Chain(p)' /\ IsInjective(p) /\ ins.new \in DOMAIN node' /\ Range(p) \subseteq DOMAIN node'
  <2>1. Chain(p)' /\ IsInjective(p) /\ Range(p) \subseteq DOMAIN node'
    BY <1>4 DEF Listed, Chain
  <2>2. Range(p) = Range(q) \cup {ins.new}
    BY <1>4, AppendRange
  <2> QED
    BY <2>1, <2>2
<1>6. ins.new # NULL
  BY <1>4, ListAssumption DEF Nodes, NULL
<1>7. PICK s \in Seq(Nodes) : /\ s = Without(q, rem.at, rem.node)
                              /\ Range(s) \subseteq DOMAIN node
                              /\ Blocks(Pending) = Blocks(s)
                              /\ Blocks(s) \in Seq(0 .. LastBlock)
                              /\ Len(Blocks(s)) = Len(s)
                              /\ \A i \in 1 .. Len(s) : Blocks(s)[i] = node[s[i]].block
  BY <1>2, OrderSees
<1>8. Without(p, rem.at, rem.node) = Append(s, ins.new)
  <2>1. CASE rem.at \in {"load", "store"}
    <3>1. Without(p, rem.at, rem.node) = p /\ s = q
      BY <1>2, <1>5, <1>7, <2>1, WithoutIs
    <3> QED
      BY <1>4, <3>1
  <2>2. CASE rem.at \notin {"load", "store"} /\ rem.node \notin Range(q)
    <3>1. rem.node \notin Range(p)
      <4>1. Range(p) = Range(q) \cup {ins.new}
        BY <1>4, AppendRange
      <4>2. NULL \notin Range(p)
        BY NodesOf DEF Range
      <4> QED
        BY <1>3, <2>2, <4>1, <4>2
    <3>2. Without(p, rem.at, rem.node) = p /\ s = q
      BY <1>2, <1>5, <1>7, <2>2, <3>1, WithoutIs
    <3> QED
      BY <1>4, <3>2
  <2>3. CASE rem.at \notin {"load", "store"} /\ rem.node \in Range(q)
    <3>1. PICK i \in 1 .. Len(q) : q[i] = rem.node
      BY <1>2, <2>3 DEF Range
    <3>2. i \in 1 .. Len(p) /\ p[i] = rem.node
      BY <1>4, <3>1
    <3>3. Without(p, rem.at, rem.node) = RemoveAt(p, i) /\ s = RemoveAt(q, i)
      BY <1>2, <1>5, <1>7, <2>3, <3>1, <3>2, WithoutIs
    <3> QED
      BY <1>4, <3>1, <3>3, RemoveAtAppend
  <2> QED
    BY <2>1, <2>2, <2>3
<1>9. PICK t \in Seq(Nodes) : t = Append(s, ins.new)
  <2>1. Append(s, ins.new) \in Seq(Nodes)
    BY <1>4, AppendRange
  <2> QED
    BY <2>1
<1>10. Pending' = t
  BY <1>1, <1>5, <1>8, <1>9, PendingIs
<1>11. PICK b \in 0 .. LastBlock : node'[ins.new].block = b
  BY <1>5, LinkFirstKeeps, LinkNextKeeps DEF TypeOK, ST_RequestNode
<1>12. Blocks(Pending)' = Append(Blocks(Pending), b)
  <2>1. PICK m \in Nat : m = Len(s)
    OBVIOUS
  <2>2. DOMAIN t = 1 .. m + 1 /\ t[m + 1] = ins.new /\ \A i \in 1 .. m : t[i] = s[i]
    BY <1>9, <2>1
  <2>3. \A i \in 1 .. m : node'[s[i]].block = node[s[i]].block
    <3>1. [Next]_vars
      BY DEF Next, Insertion
    <3>2. Range(s) \subseteq Range(q)
      BY <1>2, <1>7, WithoutIs
    <3>3. Range(q) \subseteq DOMAIN node'
      <4>1. Range(p) = Range(q) \cup {ins.new}
        BY <1>4, AppendRange
      <4> QED
        BY <1>5, <4>1
    <3>4. \A i \in 1 .. m : s[i] \in DOMAIN node \cap DOMAIN node'
      BY <1>7, <2>1, <3>2, <3>3, NodesOf
    <3> QED
      BY <3>1, <3>4, BlocksKept
  <2>4. Blocks(Pending)' = [i \in 1 .. m + 1 |-> node'[t[i]].block]
    BY <1>10, <2>2 DEF Blocks
  <2>5. \A i \in 1 .. m + 1 : node'[t[i]].block = IF i = m + 1 THEN b ELSE Blocks(s)[i]
    BY <1>7, <1>11, <2>1, <2>2, <2>3
  <2>6. Append(Blocks(s), b) = [i \in 1 .. m + 1 |-> IF i = m + 1 THEN b ELSE Blocks(s)[i]]
    <3>1. PICK w \in Seq(0 .. LastBlock) : w = Blocks(s) /\ Len(w) = m
      BY <1>7, <2>1
    <3>2. PICK a : a = Append(w, b)
      OBVIOUS
    <3>3. /\ a \in Seq(0 .. LastBlock) /\ Len(a) = m + 1
          /\ \A i \in 1 .. m + 1 : a[i] = IF i = m + 1 THEN b ELSE w[i]
      BY <3>1, <3>2
    <3>4. a = [i \in 1 .. m + 1 |-> a[i]]
      BY <3>3
    <3> QED
      BY <3>1, <3>2, <3>3, <3>4
  <2> QED
    BY <1>7, <2>4, <2>5, <2>6
<1>13. Len(Blocks(Pending)) < MaxLength
  <2>1. Len(p) \in 0 .. MaxLength
    BY <1>5, ListLength
  <2>3. Len(p) = Len(q) + 1
    BY <1>4
  <2>2. Len(s) <= Len(q)
    BY <1>2, <1>7, WithoutIs
  <2> QED
    BY <1>2, <1>7, <2>1, <2>2, <2>3, ListAssumption
<1>14. ~Uncounted /\ Uncounted' = TRUE
  <2>1. ~Linked
    BY <1>1 DEF Linked, Fresh
  <2>2. ins'.at \in {"loadFirst", "last"} /\ ins'.new = ins.new
    BY DEF LinkFirst, LinkNext, TypeOK
  <2>3. ins.new \in Range(t)
    BY <1>4, <1>7, <1>9, AppendRange
  <2>4. PICK n : n = ins.new
    OBVIOUS
  <2>5. ins'.new \in Range(Pending)'
    BY <1>10, <2>2, <2>3 DEF Range
  <2> QED
    BY <2>1, <2>2, <2>5 DEF Uncounted, Linked
<1> QED
  BY <1>1, <1>12, <1>13, <1>14 DEF Order!addNodeInFront

\* INSTANCE makes copies of the operators on constants; they are the same.
LEMMA OrderOperators ==
  ASSUME NEW blocks, NEW head
  PROVE  /\ Order!fcfsSched(blocks, head) = fcfsSched(blocks, head)
         /\ Order!sstfSched(blocks, head) = sstfSched(blocks, head)
         /\ Order!cscanSched(blocks, head) = cscanSched(blocks, head)
<1>1. Order!fcfsSched(blocks, head) = fcfsSched(blocks, head)
  BY DEF Order!fcfsSched, fcfsSched
<1>2. Order!sstfSched(blocks, head) = sstfSched(blocks, head)
  BY DEF Order!sstfSched, sstfSched, Order!Distance, Distance, Order!FoldLeftDomain, FoldLeftDomain,
         Order!FoldLeft, FoldLeft, Order!MapThenFoldSet, MapThenFoldSet, Order!Max, Max
<1>3. Order!cscanSched(blocks, head) = cscanSched(blocks, head)
  BY DEF Order!cscanSched, cscanSched, Order!FoldLeftDomain, FoldLeftDomain,
         Order!FoldLeft, FoldLeft, Order!MapThenFoldSet, MapThenFoldSet, Order!Max, Max
<1> QED
  BY <1>1, <1>2, <1>3

\* What SeekOrder picks is the algorithm's choice from what it sees of the queue.
LEMMA OrderPicked ==
  Order!Picked = CASE enAlgorithm = "FCFS" -> fcfsSched(Order!Seen, SeekHead)
                   [] enAlgorithm = "SSTF" -> sstfSched(Order!Seen, SeekHead)
                   [] enAlgorithm = "CSCAN" -> cscanSched(Order!Seen, SeekHead)
BY OrderOperators DEF Order!Picked, SeekHead

\* The place the switch of diskScheduler finds in a list of blocks.
Choice(blocks) == CASE enAlgorithm = "FCFS" -> fcfsSched(blocks, iCurrBlock)
                    [] enAlgorithm = "SSTF" -> sstfSched(blocks, iCurrBlock)
                    [] enAlgorithm = "CSCAN" -> cscanSched(blocks, iCurrBlock)

\* diskScheduler takes a node at a place of the list that the loops visit, the one of its
\* algorithm; a node that is not counted yet it takes only if there is no other.
LEMMA PickingAt ==
  ASSUME TypeOK, NEW q \in Seq(Nodes), Listed(q), diskScheduler
  PROVE  \E v \in Seq(Nodes), i \in 1 .. Len(q) :
           /\ v # <<>> /\ Len(v) \in 1 .. Len(q) /\ Range(v) \subseteq DOMAIN node
           /\ \A k \in 1 .. Len(v) : v[k] = q[k]
           /\ Len(v) = IF Linked /\ Len(q) > 1 THEN Len(q) - 1 ELSE Len(q)
           /\ i \in 1 .. Len(v) /\ i = Choice(Blocks(v))
           /\ rem' = [rem EXCEPT !.at = "test", !.node = q[i], !.block = node[q[i]].block]
<1>1. rem.at = "idle" /\ firstNode # NULL
  BY DEF diskScheduler, RemAt
<1>2. q # <<>>
  BY <1>1 DEF Listed, Chain, Link
<1>3. PICK v \in Seq(Nodes) :
        /\ v = Visited
        /\ v # <<>> /\ Len(v) \in 1 .. Len(q) /\ Range(v) \subseteq DOMAIN node
        /\ \A i \in 1 .. Len(v) : v[i] = q[i]
        /\ Len(v) = IF Linked /\ Len(q) > 1 THEN Len(q) - 1 ELSE Len(q)
  BY <1>1, <1>2, VisitedIs
<1>4. PICK i \in 1 .. Len(v) : Picked(v) = v[i] /\ i = Choice(Blocks(v))
  BY <1>3, PickedIndex DEF Choice
<1>5. i \in 1 .. Len(q) /\ v[i] = q[i]
  BY <1>3
<1>6. Picked(Visited) = q[i]
  BY <1>3, <1>4, <1>5, Zenon
<1>7. rem' = [rem EXCEPT !.at = "test", !.node = q[i], !.block = node[q[i]].block]
  BY <1>6 DEF diskScheduler
<1> QED
  BY <1>3, <1>4, <1>5, <1>7

\* A sequence without its last element.
LEMMA AllButLast ==
  ASSUME NEW b \in Seq(Nat), Len(b) > 1
  PROVE  /\ SubSeq(b, 1, Len(b) - 1) \in Seq(Nat)
         /\ Len(SubSeq(b, 1, Len(b) - 1)) = Len(b) - 1
         /\ \A k \in 1 .. Len(b) - 1 : SubSeq(b, 1, Len(b) - 1)[k] = b[k]
<1>3. Len(b) \in Nat /\ Len(b) - 1 \in Nat
  OBVIOUS
<1>1. PICK m \in Nat : m = Len(b) - 1
  BY <1>3
<1>2. SubSeq(b, 1, m) \in Seq(Nat) /\ Len(SubSeq(b, 1, m)) = m
  BY <1>1
<1>4. \A k \in 1 .. m : SubSeq(b, 1, m)[k] = b[k]
  BY <1>1
<1> QED
  BY <1>1, <1>2, <1>4

\* diskScheduler takes the block out of the queue that its algorithm picks.
LEMMA PickingTakes ==
  ASSUME TypeOK, NEW q \in Seq(Nodes), Listed(q), diskScheduler
  PROVE  Order!diskScheduler
<1>1. Chain(q) /\ IsInjective(q) /\ Len(q) \in Nat /\ DOMAIN q = 1 .. Len(q)
      /\ Range(q) \subseteq DOMAIN node
  BY DEF Listed, Chain
<1>2. /\ rem.at = "idle" /\ ~Tearing /\ rem.node = NULL /\ firstNode # NULL
      /\ node' = node /\ iCurrBlock' = iCurrBlock /\ enAlgorithm' = enAlgorithm /\ ins' = ins
  BY DEF diskScheduler, RemAt, Torn, Listed, Chosen
<1>6. PICK v \in Seq(Nodes), i \in 1 .. Len(q) :
        /\ v # <<>> /\ Len(v) \in 1 .. Len(q) /\ Range(v) \subseteq DOMAIN node
        /\ \A k \in 1 .. Len(v) : v[k] = q[k]
        /\ Len(v) = IF Linked /\ Len(q) > 1 THEN Len(q) - 1 ELSE Len(q)
        /\ i \in 1 .. Len(v) /\ i = Choice(Blocks(v))
        /\ rem' = [rem EXCEPT !.at = "test", !.node = q[i], !.block = node[q[i]].block]
  BY PickingAt
<1>24. /\ v \in Seq(Nodes) /\ Len(v) \in 1 .. Len(q) /\ Range(v) \subseteq DOMAIN node
       /\ \A k \in 1 .. Len(v) : v[k] = q[k]
  BY <1>6
<1>25. i \in 1 .. Len(v) /\ (Linked /\ Len(q) > 1 => Len(v) = Len(q) - 1)
  BY <1>6, Zenon
<1>3. rem'.at = "test" /\ rem'.node = q[i] /\ rem'.block = node[q[i]].block
  BY <1>6 DEF TypeOK
<1>4. NULL \notin Range(q) /\ q # <<>>
  BY <1>1, <1>2, NodesOf DEF Range, Chain, Link
<1>5. Pending = q /\ SeekHead = iCurrBlock /\ SeekHead' = node[q[i]].block
  <2>1. Without(q, rem.at, rem.node) = q
    BY <1>1, <1>2, <1>4, WithoutIs
  <2> QED
    BY <1>1, <1>2, <1>3, <2>1, PendingIs DEF SeekHead
<1>20. Linked => q[Len(q)] = ins.new
  BY <1>2, <1>4 DEF Listed, Inserting
<1>21. Uncounted <=> Linked
  <2>1. Linked => ins.new \in Range(q)
    BY <1>4, <1>20, EmptySeq, NodesOf
  <2> QED
    BY <1>5, <2>1 DEF Uncounted
<1>22. Order!Seen = Blocks(v)
  <2>1. PICK b : b = Blocks(q)
    OBVIOUS
  <2>2. /\ b \in Seq(Nat) /\ Len(b) = Len(q)
        /\ \A k \in 1 .. Len(q) : b[k] = node[q[k]].block
    BY <1>1, <2>1, BlocksOf
  <2>3. /\ Blocks(v) \in Seq(Nat) /\ Len(Blocks(v)) = Len(v)
        /\ \A k \in 1 .. Len(v) : Blocks(v)[k] = b[k]
    <3>1. /\ Blocks(v) \in Seq(Nat) /\ Len(Blocks(v)) = Len(v)
          /\ \A k \in 1 .. Len(v) : Blocks(v)[k] = node[v[k]].block
      BY <1>24, BlocksOf
    <3>2. \A k \in 1 .. Len(v) : k \in 1 .. Len(q) /\ v[k] = q[k]
      BY <1>1, <1>24
    <3> QED
      BY <2>2, <3>1, <3>2
  <2>4. Order!Seen = IF Linked /\ Len(b) > 1 THEN SubSeq(b, 1, Len(b) - 1) ELSE b
    BY <1>5, <1>21, <2>1 DEF Order!Seen, Order!Front
  <2>5. CASE Linked /\ Len(q) > 1
    <3>1. PICK f \in Seq(Nat) : /\ f = SubSeq(b, 1, Len(b) - 1) /\ Len(f) = Len(q) - 1
                               /\ \A k \in 1 .. Len(q) - 1 : f[k] = b[k]
      <4>1. Len(b) = Len(q) /\ Len(b) > 1 /\ b \in Seq(Nat)
        BY <2>2, <2>5
      <4>2. PICK f : f = SubSeq(b, 1, Len(b) - 1)
        OBVIOUS
      <4>3. /\ f \in Seq(Nat) /\ Len(f) = Len(b) - 1
            /\ \A k \in 1 .. Len(b) - 1 : f[k] = b[k]
        BY <4>1, <4>2, AllButLast
      <4> QED
        BY <4>1, <4>2, <4>3
    <3>2. PICK w \in Seq(Nat) : w = Blocks(v) /\ Len(w) = Len(q) - 1
                                /\ \A k \in 1 .. Len(q) - 1 : w[k] = b[k]
      BY <1>6, <2>3, <2>5
    <3>3. f = w
      BY <3>1, <3>2, SeqEqual
    <3> QED
      BY <2>2, <2>4, <2>5, <3>1, <3>2, <3>3
  <2>6. CASE ~(Linked /\ Len(q) > 1)
    <3>1. PICK w \in Seq(Nat) : w = Blocks(v) /\ Len(w) = Len(q)
                                /\ \A k \in 1 .. Len(q) : w[k] = b[k]
      BY <1>6, <2>3, <2>6
    <3>2. b = w
      BY <2>2, <3>1, SeqEqual
    <3> QED
      BY <2>2, <2>4, <2>6, <3>1, <3>2
  <2> QED
    BY <2>5, <2>6
<1>7. Order!Picked = i
  <2>1. PICK b : b = Blocks(v)
    OBVIOUS
  <2>2. Order!Picked = CASE enAlgorithm = "FCFS" -> fcfsSched(b, iCurrBlock)
                         [] enAlgorithm = "SSTF" -> sstfSched(b, iCurrBlock)
                         [] enAlgorithm = "CSCAN" -> cscanSched(b, iCurrBlock)
    BY <1>5, <1>22, <2>1, OrderPicked
  <2> QED
    BY <1>6, <2>1, <2>2 DEF Choice
<1>8. Pending' = RemoveAt(q, i)
  <2>1. Chain(q)'
    BY diskSchedulerKeeps DEF Listed
  <2>2. Without(q, rem'.at, rem'.node) = RemoveAt(q, i)
    <3>1. PICK at, x : at = rem'.at /\ x = rem'.node
      OBVIOUS
    <3>2. at \notin {"load", "store"} /\ q[i] = x
      BY <1>3, <1>6, <3>1
    <3>3. Without(q, at, x) = RemoveAt(q, i)
      BY <1>1, <3>2, WithoutIs
    <3> QED
      BY <3>1, <3>3
  <2> QED
    BY <2>1, <2>2, PendingIs
<1>9. /\ Blocks(q) \in Seq(Nat) /\ Len(Blocks(q)) = Len(q)
      /\ \A k \in 1 .. Len(q) : Blocks(q)[k] = node[q[k]].block
  BY <1>1, BlocksOf
<1>10. Blocks(Pending)' = RemoveAt(Blocks(q), i)
  <2>1. PICK b : b = Blocks(q)
    OBVIOUS
  <2>2. PICK r : r = RemoveAt(q, i)
    OBVIOUS
  <2>3. PICK t : t = RemoveAt(b, i)
    OBVIOUS
  <2>4. PICK m \in Nat : m = Len(q)
    BY <1>1
  <2>5. /\ t \in Seq(Nat) /\ Len(t) = Len(r)
        /\ \A j \in 1 .. m - 1 : \E k \in 1 .. m : r[j] = q[k] /\ t[j] = b[k]
    <3>1. b \in Seq(Nat) /\ q \in Seq(Nodes) /\ Len(b) = Len(q) /\ i \in 1 .. Len(q)
      BY <1>9, <2>1
    <3>2. /\ RemoveAt(b, i) \in Seq(Nat) /\ Len(RemoveAt(b, i)) = Len(RemoveAt(q, i))
          /\ \A j \in 1 .. Len(q) - 1 :
               \E k \in 1 .. Len(q) : RemoveAt(q, i)[j] = q[k] /\ RemoveAt(b, i)[j] = b[k]
      BY <3>1, RemoveAtCommutes
    <3> QED
      BY <2>2, <2>3, <2>4, <3>2
  <2>6. r \in Seq(Nodes) /\ Len(r) = m - 1
    BY <1>1, <2>2, <2>4, RemoveAtProperties
  <2>7. \A j \in 1 .. m - 1 : t[j] = node[r[j]].block
    <3> SUFFICES ASSUME NEW j \in 1 .. m - 1 PROVE t[j] = node[r[j]].block
      OBVIOUS
    <3>1. PICK k \in 1 .. m : r[j] = q[k] /\ t[j] = b[k]
      BY <2>5
    <3>2. b[k] = node[q[k]].block
      BY <1>9, <2>1, <2>4
    <3> QED
      BY <3>1, <3>2
  <2>8. Blocks(Pending)' = [j \in 1 .. m - 1 |-> node[r[j]].block]
    <3>1. DOMAIN r = 1 .. m - 1
      BY <2>6
    <3> QED
      BY <1>2, <1>8, <2>2, <3>1 DEF Blocks
  <2>9. t = [j \in 1 .. m - 1 |-> t[j]]
    BY <2>5, <2>6
  <2> QED
    BY <2>1, <2>3, <2>7, <2>8, <2>9
<1>23. Uncounted' = (Uncounted /\ Len(Blocks(Pending)) > 1)
  <2>1. /\ Range(RemoveAt(q, i)) \subseteq Range(q) /\ Range(q) \subseteq Range(RemoveAt(q, i)) \cup {q[i]}
        /\ q[i] \notin Range(RemoveAt(q, i))
    BY <1>1, RemoveAtProperties
  <2>2. Uncounted' <=> Linked /\ ins.new \in Range(RemoveAt(q, i))
    BY <1>2, <1>8 DEF Uncounted, Linked, Range
  <2>3. CASE Linked /\ Len(q) > 1
    <3>1. Len(q) \in DOMAIN q /\ i \in DOMAIN q /\ i # Len(q)
      <4>1. Len(v) = Len(q) - 1 /\ i \in 1 .. Len(v)
        BY <1>25, <2>3
      <4>2. Len(q) \in Nat /\ DOMAIN q = 1 .. Len(q) /\ Len(q) > 1
        BY <2>3, NodesOf
      <4> QED
        BY <4>1, <4>2
    <3>2. q[Len(q)] # q[i] /\ q[Len(q)] \in Range(q)
      BY <1>1, <3>1 DEF IsInjective, Range
    <3> QED
      BY <1>5, <1>9, <1>20, <1>21, <2>1, <2>2, <2>3, <3>2
  <2>4. CASE Linked /\ Len(q) = 1
    <3>1. i = Len(q) /\ ins.new = q[i]
      BY <1>20, <2>4
    <3>2. ~Uncounted'
      BY <2>1, <2>2, <3>1
    <3> QED
      BY <1>5, <1>9, <2>4, <3>2 DEF Uncounted
  <2>5. CASE ~Linked
    BY <1>21, <2>2, <2>5
  <2> QED
    BY <1>1, <1>4, <2>3, <2>4, <2>5, EmptySeq
<1>11. Blocks(q) # <<>>
  BY <1>4, <1>9
<1>12. SeekHead' = Blocks(q)[i]
  BY <1>5, <1>6, <1>9
<1>13. Order!RemoveAt(Blocks(q), i) = RemoveAt(Blocks(q), i)
  BY DEF Order!RemoveAt, RemoveAt
<1> QED
  BY <1>2, <1>5, <1>7, <1>10, <1>11, <1>12, <1>13, <1>23 DEF Order!diskScheduler, SeekHead

\* finishDiskTask empties the queue or finds nothing to free.
LEMMA FinishingEmpties ==
  ASSUME TypeOK, NEW q \in Seq(Nodes), Listed(q), finishDiskTask
  PROVE  Order!finishDiskTask \/ UNCHANGED Order!vars
<1>1. /\ rem' = rem /\ iCurrBlock' = iCurrBlock /\ enAlgorithm' = enAlgorithm /\ [Next]_vars
      /\ (Linked' <=> Linked) /\ ins'.new = ins.new
  BY DEF finishDiskTask, Next, Linked
<1>2. PICK p \in Seq(Nodes) : p \in {q, <<>>} /\ Listed(p)'
  BY finishDiskTaskKeeps
<1>3. Chain(q) /\ Chain(p)'
  BY <1>2 DEF Listed
<1>4. CASE p = q
  <2>1. Without(p, rem'.at, rem'.node) = Without(q, rem.at, rem.node) /\ SeekHead' = SeekHead
    BY <1>1, <1>4 DEF SeekHead
  <2> QED
    BY <1>1, <1>3, <2>1, Stutters
<1>5. CASE p = <<>>
  <2>1. IsInjective(p) /\ Range(p) = {}
    BY <1>5, ShortQueues
  <2>2. Without(p, rem'.at, rem'.node) = p
    <3>1. rem'.node \notin Range(p)
      BY <2>1
    <3> QED
      BY <2>1, <3>1, WithoutIs
  <2>3. Pending' = <<>>
    BY <1>3, <1>5, <2>2, PendingIs
  <2>4. Blocks(Pending)' = <<>>
    <3>1. Blocks(Pending)' = [k \in DOMAIN <<>> |-> node'[<<>>[k]].block]
      BY <2>3 DEF Blocks
    <3>2. DOMAIN <<>> = {}
      OBVIOUS
    <3>3. PICK f : f = Blocks(Pending)'
      OBVIOUS
    <3>4. f = [k \in {} |-> 0]
      BY <3>1, <3>2, <3>3
    <3>5. f = <<>>
      BY <3>4
    <3> QED
      BY <3>3, <3>5
  <2>5. Uncounted' = FALSE
    BY <2>3 DEF Uncounted, Range
  <2> QED
    BY <1>1, <2>4, <2>5 DEF Order!finishDiskTask, SeekHead
<1> QED
  BY <1>2, <1>4, <1>5

\* Every step of the list is a step of the queue or none.
LEMMA NextSimulates ==
  ASSUME TypeOK, NEW q \in Seq(Nodes), Listed(q), [Next]_vars
  PROVE  [Order!Next]_(Order!vars)
<1>1. CASE \E b \in 0 .. LastBlock : addNodeInFront(b)
  BY <1>1, InsertionStutters
<1>2. CASE LinkFirst \/ LinkNext
  BY <1>2, LinkingInserts DEF Order!Next
<1>3. CASE LoadFirst \/ SetLast \/ InsReadSize
  BY <1>3, InsertionStutters
<1>10. CASE InsWriteSize
  BY <1>10, CountingCounts DEF Order!Next
<1>4. CASE diskScheduler
  BY <1>4, PickingTakes DEF Order!Next
<1>5. CASE removeNode \/ Free \/ RemReadSize \/ RemWriteSize
  BY <1>5, RemovalStutters
<1>6. CASE Unlink
  BY <1>6, UnlinkStutters
<1>7. CASE Relink
  BY <1>7, RelinkStutters
<1>8. CASE finishDiskTask
  BY <1>8, FinishingEmpties DEF Order!Next
<1>9. CASE UNCHANGED vars
  <2>1. Chain(q) /\ Chain(q)'
    BY <1>9, StutterKeeps DEF Listed
  <2>2. rem' = rem /\ iCurrBlock' = iCurrBlock /\ (Linked' <=> Linked) /\ ins'.new = ins.new
    BY <1>9 DEF vars, Linked
  <2>3. Without(q, rem'.at, rem'.node) = Without(q, rem.at, rem.node) /\ SeekHead' = SeekHead
    BY <2>2 DEF SeekHead
  <2> QED
    BY <2>1, <2>2, <2>3, Stutters
<1> QED
  BY <1>1, <1>2, <1>3, <1>4, <1>5, <1>6, <1>7, <1>8, <1>9, <1>10 DEF Next, Insertion, Removal

\* The list of nodes and pointers implements the queue of SeekOrder: however addNodeInFront
\* and removeNode interleave, requests enter at the end of the queue and leave it where the
\* algorithm picks.
THEOREM ListImplementsSeekOrder == Spec => ImplementsSeekOrder
<1>1. Init => Order!Init
  <2> SUFFICES ASSUME Init PROVE Order!Init
    OBVIOUS
  <2>1. TypeOK /\ Listed(<<>>) /\ <<>> \in Seq(Nodes)
    BY InitIsListed
  <2>2. PICK q \in Seq(Nodes) : q = <<>> /\ Chain(q)
    BY <2>1 DEF Listed
  <2>3. PICK s \in Seq(Nodes) : /\ s = Without(q, rem.at, rem.node)
                                /\ Blocks(Pending) = Blocks(s)
                                /\ Blocks(s) \in Seq(Nat) /\ Len(Blocks(s)) = Len(s)
    BY <2>1, <2>2, OrderSees
  <2>4. IsInjective(q) /\ Len(q) = 0
    BY <2>2 DEF Chain
  <2>5. Len(s) = 0
    <3>1. Len(s) <= Len(q)
      BY <2>3, <2>4, WithoutIs
    <3> QED
      BY <2>3, <2>4, <3>1
  <2>6. Blocks(Pending) = <<>>
    BY <2>3, <2>5, EmptySeq
  <2>7. Uncounted = FALSE
    BY DEF Init, NoInsertion, Uncounted, Linked
  <2> QED
    BY <2>6, <2>7 DEF Init, NoRemoval, Order!Init, Order!EN_DiskAlgorithm, EN_DiskAlgorithm
<1>2. IInv /\ [Next]_vars => [Order!Next]_(Order!vars)
  BY IInvList, NextSimulates
<1>3. Order!Init /\ [][Order!Next]_(Order!vars) => ImplementsSeekOrder
  BY DEF ImplementsSeekOrder, Order!Spec
<1> QED
  BY <1>1, <1>2, <1>3, Invariance, PTL DEF Spec

------------------------------------------------------------------------------
(* What diskScheduler picks, at every step *)

\* The places whose insertion is complete are the ones the loops visit.
LEMMA CandidatesVisited ==
  ASSUME TypeOK, NEW q \in Seq(Nodes), Listed(q), ~Torn, rem.at = "idle", firstNode # NULL
  PROVE  /\ Linked /\ Len(q) > 1 => Candidates = 1 .. Len(q) - 1
         /\ ~(Linked /\ Len(q) > 1) => Candidates = 1 .. Len(q)
<1>1. IsInjective(q) /\ Len(q) \in Nat /\ DOMAIN q = 1 .. Len(q) /\ Forward = q
  BY ForwardIs, NodesOf DEF Listed, Chain
<1>2. q # <<>> /\ NULL \notin Range(q)
  BY NodesOf DEF Listed, Chain, Link, Range
<1>3. Complete = {k \in 1 .. Len(q) : q[k] # ins.new}
  BY <1>1, Zenon DEF Complete
<1>4. Len(q) > 0
  BY <1>1, <1>2, EmptySeq
<1>5. CASE Linked
  <2>1. q[Len(q)] = ins.new
    BY <1>2, <1>5 DEF Listed, Inserting, Torn
  <2>6. PICK n, l : n = ins.new /\ l = Len(q)
    OBVIOUS
  <2>7. DOMAIN q = 1 .. l /\ l \in 1 .. l /\ q[l] = n
    BY <1>1, <1>4, <2>1, <2>6
  <2>2. \A k \in 1 .. l : q[k] = n <=> k = l
    BY <1>1, <2>7 DEF IsInjective
  <2>8. Complete = {k \in 1 .. l : q[k] # n}
    BY <1>3, <2>6
  <2>3. Complete = 1 .. Len(q) - 1
    BY <2>2, <2>6, <2>8
  <2>4. CASE Len(q) > 1
    <3>1. 1 \in 1 .. Len(q) - 1
      BY <1>1, <2>4
    <3>2. Complete # {}
      BY <2>3, <3>1
    <3> QED
      BY <1>5, <2>3, <2>4, <3>2 DEF Candidates
  <2>5. CASE Len(q) = 1
    <3>1. Complete = {}
      BY <2>3, <2>5
    <3> QED
      BY <1>1, <2>5, <3>1 DEF Candidates
  <2> QED
    BY <1>1, <1>4, <2>4, <2>5
<1>6. CASE ~Linked
  <2>1. ins.new \notin Range(q)
    <3>1. ins.at \in {"idle", "first", "link"}
      BY <1>6 DEF Linked, TypeOK
    <3> QED
      BY <1>2, <3>1 DEF Listed, Chosen, Allocated, Fresh
  <2>4. \A k \in 1 .. Len(q) : q[k] # ins.new
    BY <1>1, <2>1, Zenon DEF Range
  <2>2. Complete = 1 .. Len(q)
    BY <1>3, <2>4, Zenon
  <2>3. Candidates = 1 .. Len(q)
    BY <1>1, <2>2 DEF Candidates
  <2> QED
    BY <1>6, <2>3
<1> QED
  BY <1>5, <1>6

\* The head is at a block.
LEMMA HeadAtBlock == IInv => iCurrBlock \in Nat
BY ListAssumption DEF IInv, TypeOK

\* The place in the list of the node that diskScheduler takes is the choice of its algorithm
\* among the candidates.
LEMMA PicksChoice ==
  ASSUME IInv, [Next]_vars, NEW algorithm, NEW j \in DOMAIN Forward, Picks(Forward[j], algorithm)
  PROVE  \E b \in Seq(Nat) :
           /\ b # <<>> /\ DOMAIN b = Candidates
           /\ \A k \in Candidates : b[k] = node[Forward[k]].block
           /\ j = Choice(b)
<1>1. PICK q \in Seq(Nodes) : Listed(q)
  BY IInvList
<1>2. TypeOK
  BY DEF IInv
<1>3. IsInjective(q) /\ Len(q) \in Nat /\ DOMAIN q = 1 .. Len(q) /\ Forward = q
  BY <1>1, ForwardIs, NodesOf DEF Listed, Chain
<1>4. rem.at = "idle" /\ rem'.at = "test" /\ rem'.node = q[j] /\ j \in 1 .. Len(q)
  BY <1>3 DEF Picks
<1>5. diskScheduler
  <2>1. rem' # rem /\ rem.at = "idle"
    BY <1>4
  <2> QED
    BY <2>1 DEF Next, Insertion, Removal, addNodeInFront, LinkFirst, LoadFirst, LinkNext, SetLast,
                InsReadSize, InsWriteSize, RemAt, removeNode, Unlink, Relink, Free, RemReadSize,
                RemWriteSize, finishDiskTask, vars
<1>6. PICK v \in Seq(Nodes), i \in 1 .. Len(q) :
        /\ v # <<>> /\ Len(v) \in 1 .. Len(q) /\ Range(v) \subseteq DOMAIN node
        /\ \A k \in 1 .. Len(v) : v[k] = q[k]
        /\ Len(v) = IF Linked /\ Len(q) > 1 THEN Len(q) - 1 ELSE Len(q)
        /\ i \in 1 .. Len(v) /\ i = Choice(Blocks(v))
        /\ rem' = [rem EXCEPT !.at = "test", !.node = q[i], !.block = node[q[i]].block]
  BY <1>1, <1>2, <1>5, PickingAt
<1>7. /\ v \in Seq(Nodes) /\ Len(v) \in 1 .. Len(q) /\ Range(v) \subseteq DOMAIN node
      /\ \A k \in 1 .. Len(v) : v[k] = q[k]
      /\ Len(v) = IF Linked /\ Len(q) > 1 THEN Len(q) - 1 ELSE Len(q)
      /\ i = Choice(Blocks(v))
  BY <1>6
<1>8. i = j
  <2>1. rem'.node = q[i]
    BY <1>2, <1>6 DEF TypeOK
  <2> QED
    BY <1>3, <1>4, <2>1 DEF IsInjective
<1>9. Candidates = 1 .. Len(v)
  <2>1. ~Torn /\ firstNode # NULL
    BY <1>5 DEF diskScheduler, RemAt
  <2>2. Len(v) \in Nat
    BY <1>7
  <2> QED
    BY <1>1, <1>2, <1>4, <1>7, <2>1, <2>2, CandidatesVisited
<1>10. /\ Blocks(v) \in Seq(Nat) /\ Len(Blocks(v)) = Len(v)
       /\ \A k \in 1 .. Len(v) : Blocks(v)[k] = node[v[k]].block
  BY <1>2, <1>7, BlocksOf
<1>11. PICK b \in Seq(Nat) : b = Blocks(v)
  BY <1>10
<1>12. DOMAIN b = Candidates /\ b # <<>>
  BY <1>7, <1>9, <1>10, <1>11
<1>13. \A k \in Candidates : b[k] = node[Forward[k]].block
  BY <1>3, <1>7, <1>9, <1>10, <1>11
<1> QED
  BY <1>7, <1>8, <1>11, <1>12, <1>13

\* Under SSTF diskScheduler takes the oldest of the nearest complete requests, wherever
\* ticks have left addNodeInFront.
THEOREM SSTFAlwaysNearest == Spec => SSTFIsNearest
<1>1. ASSUME IInv, [Next]_vars, NEW j \in DOMAIN Forward, Picks(Forward[j], "SSTF")
      PROVE  IsFirstLeast(j, Candidates, SeekDist)
  <2>1. PICK b \in Seq(Nat) : /\ b # <<>> /\ DOMAIN b = Candidates
                              /\ \A k \in Candidates : b[k] = node[Forward[k]].block
                              /\ j = Choice(b)
    BY <1>1, PicksChoice
  <2>2. j = sstfSched(b, iCurrBlock)
    BY <1>1, <2>1 DEF Choice, Picks
  <2>3. IsNearest(j, b, iCurrBlock)
    BY <1>1, <2>1, <2>2, HeadAtBlock, SSTFPicksNearest
  <2> QED
    BY <2>1, <2>3 DEF IsNearest, IsFirstLeast, SeekDist
<1>2. IInv /\ [Next]_vars =>
        [\A i \in DOMAIN Forward : Picks(Forward[i], "SSTF") => IsFirstLeast(i, Candidates, SeekDist)]_vars
  BY <1>1
<1> QED
  BY <1>2, Invariance, PTL DEF Spec, SSTFIsNearest

\* Under CSCAN, when every complete request is behind the head, diskScheduler restarts from
\* the oldest of the lowest ones.
THEOREM CSCANAlwaysRestarts == Spec => CSCANRestarts
<1>1. ASSUME IInv, [Next]_vars, NEW j \in DOMAIN Forward, Picks(Forward[j], "CSCAN"), Ahead = {}
      PROVE  IsFirstLeast(j, Candidates, BlockOf)
  <2>1. PICK b \in Seq(Nat) : /\ b # <<>> /\ DOMAIN b = Candidates
                              /\ \A k \in Candidates : b[k] = node[Forward[k]].block
                              /\ j = Choice(b)
    BY <1>1, PicksChoice
  <2>2. j = cscanSched(b, iCurrBlock)
    BY <1>1, <2>1 DEF Choice, Picks
  <2>3. InFront(b, iCurrBlock) = {}
    BY <1>1, <2>1 DEF InFront, Ahead
  <2> DEFINE Block(k) == b[k]
  <2>4. IsFirstLeast(j, DOMAIN b, Block)
    BY <1>1, <2>1, <2>2, <2>3, HeadAtBlock, CSCANPicks
  <2> QED
    BY <2>1, <2>4 DEF IsFirstLeast, BlockOf
<1>2. IInv /\ [Next]_vars =>
        [\A i \in DOMAIN Forward :
           Picks(Forward[i], "CSCAN") /\ Ahead = {} => IsFirstLeast(i, Candidates, BlockOf)]_vars
  BY <1>1
<1> QED
  BY <1>2, Invariance, PTL DEF Spec, CSCANRestarts

\* Under CSCAN, as long as the oldest request is not behind the head, diskScheduler takes
\* the oldest of the nearest complete requests ahead of it.
THEOREM CSCANAlwaysSweeps == Spec => CSCANSweeps
<1>1. ASSUME IInv, [Next]_vars, NEW j \in DOMAIN Forward, Picks(Forward[j], "CSCAN"), 1 \in Ahead
      PROVE  IsFirstLeast(j, Ahead, BlockOf)
  <2>1. PICK b \in Seq(Nat) : /\ b # <<>> /\ DOMAIN b = Candidates
                              /\ \A k \in Candidates : b[k] = node[Forward[k]].block
                              /\ j = Choice(b)
    BY <1>1, PicksChoice
  <2>2. j = cscanSched(b, iCurrBlock)
    BY <1>1, <2>1 DEF Choice, Picks
  <2>3. InFront(b, iCurrBlock) = Ahead
    BY <2>1 DEF InFront, Ahead
  <2> DEFINE Block(k) == b[k]
  <2>4. IsFirstLeast(j, InFront(b, iCurrBlock), Block)
    BY <1>1, <2>1, <2>2, <2>3, HeadAtBlock, CSCANPicks
  <2>5. \A k \in Ahead : b[k] = BlockOf(k)
    BY <2>1 DEF Ahead, BlockOf
  <2> QED
    BY <2>3, <2>4, <2>5 DEF IsFirstLeast
<1>2. IInv /\ [Next]_vars =>
        [\A i \in DOMAIN Forward :
           Picks(Forward[i], "CSCAN") /\ 1 \in Ahead => IsFirstLeast(i, Ahead, BlockOf)]_vars
  BY <1>1
<1> QED
  BY <1>2, Invariance, PTL DEF Spec, CSCANSweeps

=============================================================================
