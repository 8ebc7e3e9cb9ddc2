------------------------------ MODULE ListLemmas ------------------------------
(***************************************************************************)
(* Facts about the sequence operators that the ready queue, the wait       *)
(* queues and the request list are built from.                             *)
(***************************************************************************)
EXTENDS Selection, SequenceTheorems, WellFoundedInduction, TLAPS

\* Taking one element out leaves the elements before it in place and shifts the others.
LEMMA RemoveAtElements ==
  ASSUME NEW S, NEW s \in Seq(S), NEW i \in DOMAIN s
  PROVE  /\ RemoveAt(s, i) \in Seq(S)
         /\ Len(RemoveAt(s, i)) = Len(s) - 1
         /\ \A j \in 1 .. i - 1 : RemoveAt(s, i)[j] = s[j]
         /\ \A j \in i .. Len(s) - 1 : RemoveAt(s, i)[j] = s[j + 1]
<1> DEFINE r == RemoveAt(s, i)
           front == SubSeq(s, 1, i - 1)
           back == SubSeq(s, i + 1, Len(s))
<1>1. /\ i \in 1 .. Len(s)
      /\ Len(s) \in Nat
      /\ r = front \o back
      /\ \A j \in 1 .. Len(s) : s[j] \in S
  BY DEF RemoveAt
<1>2. /\ front \in Seq(S)
      /\ Len(front) = i - 1
      /\ \A j \in 1 .. i - 1 : front[j] = s[j]
  <2>1. \A j \in 1 .. i - 1 : s[j] \in S
    BY <1>1
  <2>2. /\ front \in Seq(S)
        /\ Len(front) = IF 1 <= i - 1 THEN (i - 1) - 1 + 1 ELSE 0
        /\ \A j \in 1 .. (i - 1) - 1 + 1 : front[j] = s[1 + j - 1]
    BY <2>1, <1>1, SubSeqProperties
  <2> QED
    BY <2>2, <1>1
<1>3. /\ back \in Seq(S)
      /\ Len(back) = Len(s) - i
      /\ \A j \in 1 .. Len(s) - i : back[j] = s[i + j]
  <2>1. \A j \in i + 1 .. Len(s) : s[j] \in S
    BY <1>1
  <2>2. /\ back \in Seq(S)
        /\ Len(back) = IF i + 1 <= Len(s) THEN Len(s) - (i + 1) + 1 ELSE 0
        /\ \A j \in 1 .. Len(s) - (i + 1) + 1 : back[j] = s[(i + 1) + j - 1]
    BY <2>1, <1>1, SubSeqProperties
  <2> QED
    BY <2>2, <1>1
<1> HIDE DEF front, back
<1>4. /\ r \in Seq(S)
      /\ Len(r) = Len(s) - 1
      /\ \A j \in 1 .. Len(s) - 1 : r[j] = IF j <= Len(front) THEN front[j] ELSE back[j - Len(front)]
  <2>1. /\ front \o back \in Seq(S)
        /\ Len(front \o back) = Len(front) + Len(back)
        /\ \A j \in 1 .. Len(front) + Len(back) :
             (front \o back)[j] = IF j <= Len(front) THEN front[j] ELSE back[j - Len(front)]
    BY <1>2, <1>3, ConcatProperties
  <2>2. Len(front) + Len(back) = Len(s) - 1
    BY <1>1, <1>2, <1>3
  <2> QED
    BY <1>1, <2>1, <2>2, Zenon
<1> HIDE DEF r
<1>5. /\ \A j \in 1 .. i - 1 : r[j] = s[j]
      /\ \A j \in i .. Len(s) - 1 : r[j] = s[j + 1]
  <2>1. ASSUME NEW j \in 1 .. i - 1
        PROVE  r[j] = s[j]
    <3>1. /\ j \in 1 .. Len(s) - 1
          /\ j <= Len(front)
      BY <1>1, <1>2
    <3> QED
      BY <1>2, <1>4, <3>1, Zenon
  <2>2. ASSUME NEW j \in i .. Len(s) - 1
        PROVE  r[j] = s[j + 1]
    <3>1. /\ j \in 1 .. Len(s) - 1
          /\ ~(j <= Len(front))
          /\ j - Len(front) \in 1 .. Len(s) - i
          /\ i + (j - Len(front)) = j + 1
      BY <1>1, <1>2
    <3> QED
      BY <1>3, <1>4, <3>1, Zenon
  <2> QED
    BY <2>1, <2>2
<1> QED
  BY <1>4, <1>5 DEF r

\* An element put behind a list stays there when another one is taken out.
LEMMA RemoveAtAppend ==
  ASSUME NEW S, NEW s \in Seq(S), NEW e \in S, NEW i \in 1 .. Len(s)
  PROVE  RemoveAt(Append(s, e), i) = Append(RemoveAt(s, i), e)
<1>1. PICK a : a = Append(s, e)
  OBVIOUS
<1>2. PICK m \in Nat : m = Len(s)
  OBVIOUS
<1>3. a \in Seq(S) /\ Len(a) = m + 1 /\ a[m + 1] = e /\ \A j \in 1 .. m : a[j] = s[j]
  BY <1>1, <1>2
<1>4. PICK r : r = RemoveAt(s, i)
  OBVIOUS
<1>5. /\ r \in Seq(S) /\ Len(r) = m - 1
      /\ \A j \in 1 .. i - 1 : r[j] = s[j]
      /\ \A j \in i .. m - 1 : r[j] = s[j + 1]
  <2>1. i \in DOMAIN s
    OBVIOUS
  <2> QED
    BY <1>2, <1>4, <2>1, RemoveAtElements
<1>6. PICK l : l = RemoveAt(a, i)
  OBVIOUS
<1>7. /\ l \in Seq(S) /\ Len(l) = m
      /\ \A j \in 1 .. i - 1 : l[j] = a[j]
      /\ \A j \in i .. m : l[j] = a[j + 1]
  <2>1. i \in DOMAIN a /\ Len(a) - 1 = m
    BY <1>2, <1>3
  <2> QED
    BY <1>3, <1>6, <2>1, RemoveAtElements
<1>8. PICK f : f = Append(r, e)
  OBVIOUS
<1>9. f \in Seq(S) /\ Len(f) = m /\ f[m] = e /\ \A j \in 1 .. m - 1 : f[j] = r[j]
  BY <1>2, <1>5, <1>8
<1>10. ASSUME NEW j \in 1 .. m PROVE l[j] = f[j]
  <2>1. CASE j < i
    <3>1. j \in 1 .. i - 1 /\ j \in 1 .. m - 1
      BY <1>2, <2>1
    <3> QED
      BY <1>3, <1>5, <1>7, <1>9, <3>1
  <2>2. CASE j >= i /\ j < m
    <3>1. j \in i .. m - 1 /\ j \in 1 .. m - 1 /\ j \in i .. m /\ j + 1 \in 1 .. m
      BY <2>2
    <3> QED
      BY <1>3, <1>5, <1>7, <1>9, <3>1
  <2>3. CASE j = m
    <3>1. j \in i .. m
      BY <1>2, <2>3
    <3> QED
      BY <1>3, <1>7, <1>9, <2>3, <3>1
  <2> QED
    BY <2>1, <2>2, <2>3
<1>11. l = f
  <2>1. l = [j \in 1 .. m |-> l[j]] /\ f = [j \in 1 .. m |-> f[j]]
    BY <1>7, <1>9
  <2> QED
    BY <1>10, <2>1
<1> QED
  BY <1>1, <1>4, <1>6, <1>8, <1>11

\* A list that loses one element is one shorter and holds all the others.
LEMMA RemoveAtProperties ==
  ASSUME NEW S, NEW s \in Seq(S), NEW i \in DOMAIN s
  PROVE  /\ RemoveAt(s, i) \in Seq(S)
         /\ Len(RemoveAt(s, i)) = Len(s) - 1
         /\ Range(RemoveAt(s, i)) \subseteq Range(s)
         /\ Range(s) \subseteq Range(RemoveAt(s, i)) \cup {s[i]}
         /\ IsInjective(s) => IsInjective(RemoveAt(s, i)) /\ s[i] \notin Range(RemoveAt(s, i))
<1> DEFINE r == RemoveAt(s, i)
<1>1. i \in 1 .. Len(s) /\ Len(s) \in Nat /\ DOMAIN s = 1 .. Len(s)
  OBVIOUS
<1>2. /\ r \in Seq(S)
      /\ Len(r) = Len(s) - 1
  BY RemoveAtElements
<1>3. /\ \A j \in 1 .. i - 1 : r[j] = s[j]
      /\ \A j \in i .. Len(s) - 1 : r[j] = s[j + 1]
  BY RemoveAtElements
<1> HIDE DEF r
<1>4. ASSUME NEW j \in DOMAIN r
      PROVE  r[j] \in Range(s)
  <2>1. j \in 1 .. Len(s) - 1
    BY <1>2
  <2>2. CASE j < i
    <3>1. j \in 1 .. i - 1 /\ j \in DOMAIN s
      BY <1>1, <2>1, <2>2
    <3> QED
      BY <1>3, <3>1, Zenon DEF Range
  <2>3. CASE j >= i
    <3>1. j \in i .. Len(s) - 1 /\ j + 1 \in DOMAIN s
      BY <1>1, <2>1, <2>3
    <3> QED
      BY <1>3, <3>1, Zenon DEF Range
  <2> QED
    BY <1>1, <2>1, <2>2, <2>3
<1>5. ASSUME NEW j \in DOMAIN s, j # i
      PROVE  s[j] \in Range(r)
  <2>1. CASE j < i
    <3>1. j \in 1 .. i - 1 /\ j \in DOMAIN r
      BY <1>1, <1>2, <2>1
    <3> QED
      BY <1>3, <3>1, Zenon DEF Range
  <2>2. CASE j > i
    <3>1. j - 1 \in i .. Len(s) - 1 /\ j - 1 \in DOMAIN r /\ (j - 1) + 1 = j
      BY <1>1, <1>2, <2>2
    <3>2. r[j - 1] = s[(j - 1) + 1]
      BY <1>3, <3>1, Zenon
    <3> QED
      BY <3>1, <3>2, Zenon DEF Range
  <2> QED
    BY <1>1, <1>5, <2>1, <2>2
<1>6. /\ Range(r) \subseteq Range(s)
      /\ Range(s) \subseteq Range(r) \cup {s[i]}
  BY <1>4, <1>5 DEF Range
<1>7. ASSUME IsInjective(s)
      PROVE  IsInjective(r) /\ s[i] \notin Range(r)
  <2> DEFINE from(j) == IF j < i THEN j ELSE j + 1
  <2>1. ASSUME NEW j \in DOMAIN r
        PROVE  from(j) \in DOMAIN s /\ from(j) # i /\ r[j] = s[from(j)]
    <3>1. j \in 1 .. Len(s) - 1
      BY <1>2
    <3> QED
      BY <1>1, <1>3, <3>1
  <2>2. \A j, k \in DOMAIN r : from(j) = from(k) => j = k
    BY <1>1, <1>2
  <2> HIDE DEF from
  <2>3. \A j, k \in DOMAIN r : r[j] = r[k] => j = k
    BY <1>7, <2>1, <2>2 DEF IsInjective
  <2>4. \A j \in DOMAIN r : r[j] # s[i]
    BY <1>7, <2>1 DEF IsInjective
  <2> QED
    BY <2>3, <2>4 DEF IsInjective, Range
<1> QED
  BY <1>2, <1>6, <1>7 DEF r

\* A new last element is the only addition.
LEMMA AppendRange ==
  ASSUME NEW S, NEW s \in Seq(S), NEW e \in S
  PROVE  /\ Append(s, e) \in Seq(S)
         /\ Len(Append(s, e)) = Len(s) + 1
         /\ Range(Append(s, e)) = Range(s) \cup {e}
<1> DEFINE a == Append(s, e)
<1>1. /\ a \in Seq(S)
      /\ Len(a) = Len(s) + 1
      /\ a[Len(s) + 1] = e
      /\ \A j \in 1 .. Len(s) : a[j] = s[j]
  OBVIOUS
<1>2. Range(a) \subseteq Range(s) \cup {e}
  BY <1>1 DEF Range
<1>3. Range(s) \cup {e} \subseteq Range(a)
  <2>1. e \in Range(a)
    BY <1>1 DEF Range
  <2>2. Range(s) \subseteq Range(a)
    BY <1>1 DEF Range
  <2> QED
    BY <2>1, <2>2
<1> QED
  BY <1>1, <1>2, <1>3

\* Taking the first element of a list without repetitions out takes only that one out.
LEMMA TailRange ==
  ASSUME NEW S, NEW s \in Seq(S), s # <<>>
  PROVE  /\ Tail(s) \in Seq(S)
         /\ s[1] \in Range(s)
         /\ Range(Tail(s)) \subseteq Range(s)
         /\ Range(s) \subseteq Range(Tail(s)) \cup {s[1]}
         /\ IsInjective(s) => IsInjective(Tail(s)) /\ s[1] \notin Range(Tail(s))
<1> DEFINE r == Tail(s)
<1>1. /\ r \in Seq(S)
      /\ Len(r) = Len(s) - 1
      /\ \A j \in 1 .. Len(r) : r[j] = s[j + 1]
      /\ Len(s) \in Nat /\ Len(s) >= 1
      /\ DOMAIN s = 1 .. Len(s) /\ DOMAIN r = 1 .. Len(r)
  BY HeadTailProperties
<1> HIDE DEF r
<1>2. s[1] \in Range(s)
  <2>1. 1 \in DOMAIN s
    BY <1>1
  <2> QED
    BY <2>1 DEF Range
<1>3. ASSUME NEW j \in DOMAIN r
      PROVE  j + 1 \in DOMAIN s /\ r[j] = s[j + 1] /\ j + 1 # 1
  BY <1>1
<1>4. ASSUME NEW j \in DOMAIN s, j # 1
      PROVE  s[j] \in Range(r)
  <2>1. j - 1 \in DOMAIN r /\ r[j - 1] = s[(j - 1) + 1] /\ (j - 1) + 1 = j
    BY <1>1, <1>4
  <2> QED
    BY <2>1 DEF Range
<1>5. ASSUME IsInjective(s)
      PROVE  IsInjective(r) /\ s[1] \notin Range(r)
  <2>1. ASSUME NEW j \in DOMAIN r, NEW k \in DOMAIN r, r[j] = r[k]
        PROVE  j = k
    <3>1. j + 1 = k + 1
      BY <1>3, <1>5, <2>1 DEF IsInjective
    <3> QED
      BY <1>1, <3>1
  <2>2. ASSUME NEW j \in DOMAIN r
        PROVE  r[j] # s[1]
    <3>1. 1 \in DOMAIN s
      BY <1>1
    <3> QED
      BY <1>3, <1>5, <3>1 DEF IsInjective
  <2> QED
    BY <2>1, <2>2 DEF IsInjective, Range
<1>6. Range(r) \subseteq Range(s)
  BY <1>3 DEF Range
<1>7. Range(s) \subseteq Range(r) \cup {s[1]}
  BY <1>4 DEF Range
<1> QED
  BY <1>1, <1>2, <1>5, <1>6, <1>7 DEF r

\* A new element keeps a list without repetitions.
LEMMA AppendNew ==
  ASSUME NEW S, NEW s \in Seq(S), NEW e \in S, IsInjective(s), e \notin Range(s)
  PROVE  IsInjective(Append(s, e))
<1>1. PICK a : a = Append(s, e)
  OBVIOUS
<1>2. /\ a \in Seq(S)
      /\ DOMAIN a = 1 .. Len(s) + 1
      /\ a[Len(s) + 1] = e
      /\ \A j \in 1 .. Len(s) : a[j] = s[j]
      /\ DOMAIN s = 1 .. Len(s) /\ Len(s) \in Nat
  BY <1>1
<1>3. \A j \in 1 .. Len(s) : a[j] # e
  BY <1>2 DEF Range
<1>4. ASSUME NEW j \in DOMAIN a, NEW k \in DOMAIN a, a[j] = a[k]
      PROVE  j = k
  <2>1. CASE j \in 1 .. Len(s) /\ k \in 1 .. Len(s)
    BY <1>2, <1>4, <2>1 DEF IsInjective
  <2>2. CASE j = Len(s) + 1 \/ k = Len(s) + 1
    BY <1>2, <1>3, <1>4, <2>2
  <2> QED
    BY <1>2, <2>1, <2>2
<1>5. IsInjective(a)
  BY <1>4 DEF IsInjective
<1> QED
  BY <1>1, <1>5

\* Queues of at most one element.
LEMMA ShortQueues ==
  ASSUME NEW e
  PROVE  /\ Range(<<>>) = {}
         /\ IsInjective(<<>>)
         /\ Range(<<e>>) = {e}
         /\ Tail(<<e>>) = <<>>
         /\ Append(<<>>, e) = <<e>>
         /\ <<e>> # <<>>
BY DEF Range, IsInjective

\* Who waits in a queue of one element, and in no queue at all.
LEMMA OneWaiter ==
  ASSUME NEW q, NEW e, NEW x, x \in Range(q), q = <<e>>
  PROVE  x = e
<1>1. Range(q) = {e}
  BY ShortQueues, Zenon
<1> QED
  BY <1>1, Zenon

LEMMA NoWaiter ==
  ASSUME NEW q, NEW x, x \in Range(q)
  PROVE  q # <<>>
<1>1. Range(<<>>) = {}
  BY ShortQueues, Zenon
<1> QED
  BY <1>1, Zenon

------------------------------------------------------------------------------
(* Induction over data, with a set in place of a predicate: the provers can instantiate a *)
(* set, not an operator.                                                                   *)

\* Every nonempty set of naturals has a least element.
LEMMA LeastNatural ==
  ASSUME NEW T \in SUBSET Nat, T # {}
  PROVE  \E i \in T : \A j \in T : i <= j
<1> DEFINE R == OpToRel(<, Nat)
<1>1. PICK i \in T : \A j \in T : ~(<<j, i>> \in R)
  BY WFMin, NatLessThanWellFounded
<1>2. ASSUME NEW j \in T, j < i PROVE <<j, i>> \in R
  BY <1>2, Z3 DEF OpToRel
<1>3. \A j \in T : ~(j < i)
  <2> HIDE DEF R
  <2> QED
    BY <1>1, <1>2
<1>4. \A j \in T : i <= j
  BY <1>3
<1> QED
  BY <1>4

\* A set of indices that has 0 and, with every index, the next one, has them all.
LEMMA IndexInduction ==
  ASSUME NEW n \in Nat, NEW S, 0 \in S, \A i \in 0 .. n - 1 : i \in S => i + 1 \in S
  PROVE  0 .. n \subseteq S
<1> DEFINE T == {i \in 0 .. n : i \notin S}
<1> SUFFICES ASSUME T # {} PROVE FALSE
  OBVIOUS
<1>1. PICK i \in T : \A j \in T : i <= j
  <2>1. T \subseteq Nat
    OBVIOUS
  <2> QED
    BY <2>1, LeastNatural
<1>2. i \in 1 .. n
  OBVIOUS
<1>3. i - 1 \in S
  BY <1>1, <1>2
<1> QED
  BY <1>2, <1>3

------------------------------------------------------------------------------
(* Loops over a list, which are folds over its indices (FoldLeftDomain) *)

\* The recursive function behind such a fold: its equation, with the body of the loop as a
\* function from the loop's variables and the index.
FoldBody(base, step, f, s) == IF s = {} THEN base ELSE LET x == Max(s) IN step[<<f[s \ {x}], x>>]
IsFold(n, base, step, f) == f = [s \in SUBSET (1 .. n) |-> FoldBody(base, step, f, s)]

\* The index a fold takes out of a prefix of the indices is the last one.
LEMMA MaxOfInterval ==
  ASSUME NEW m \in Nat, NEW s \in SUBSET (1 .. m), m \in s
  PROVE  Max(s) = m
<1> DEFINE P(x) == x \in s /\ \A y \in s : x >= y
<1>1. P(m)
  OBVIOUS
<1>2. \A x : P(x) => x = m
  OBVIOUS
<1>3. Max(s) = CHOOSE x : P(x)
  BY DEF Max
<1> HIDE DEF P
<1> QED
  BY <1>1, <1>2, <1>3

\* The index a fold takes out of any set of indices is one of them.
LEMMA MaxIsIn ==
  ASSUME NEW n \in Nat, NEW s \in SUBSET (1 .. n), s # {}
  PROVE  Max(s) \in 1 .. n /\ s \ {Max(s)} \in SUBSET (1 .. n)
<1> DEFINE T == {k \in 0 .. n : n - k \in s}
           P(x) == x \in s /\ \A y \in s : x >= y
<1>1. T # {} /\ T \in SUBSET Nat
  <2>1. PICK x \in s : TRUE
    OBVIOUS
  <2>2. x \in 1 .. n
    BY <2>1
  <2>3. n - x \in 0 .. n /\ n - (n - x) = x
    BY <2>2
  <2>4. n - x \in T
    BY <2>1, <2>3
  <2>5. T \subseteq Nat
    OBVIOUS
  <2> HIDE DEF T
  <2> QED
    BY <2>4, <2>5
<1>2. PICK k \in T : \A j \in T : k <= j
  <2> HIDE DEF T
  <2> QED
    BY <1>1, LeastNatural
<1>3. n - k \in s /\ \A y \in s : n - k >= y
  <2>1. \A y \in s : n - y \in T
    <3> SUFFICES ASSUME NEW y \in s PROVE n - y \in T
      OBVIOUS
    <3>1. y \in 1 .. n
      OBVIOUS
    <3>2. n - y \in 0 .. n /\ n - (n - y) = y
      BY <3>1
    <3> QED
      BY <3>2
  <2>2. ASSUME NEW y \in s PROVE n - k >= y
    <3>1. k <= n - y
      BY <1>2, <2>1
    <3>2. y \in 1 .. n /\ k \in 0 .. n
      OBVIOUS
    <3> HIDE DEF T
    <3> QED
      BY <3>1, <3>2
  <2> QED
    BY <2>2
<1>4. Max(s) = CHOOSE x : P(x)
  BY DEF Max
<1>5. P(n - k)
  BY <1>3
<1>6. P(Max(s))
  <2> HIDE DEF P
  <2> QED
    BY <1>4, <1>5
<1> QED
  BY <1>6

\* Whatever the loop's body does within the range of its variables, the function exists.
LEMMA FoldExists ==
  ASSUME NEW n \in Nat, NEW A, NEW base \in A, NEW step \in [A \X (1 .. n) -> A]
  PROVE  \E f \in [SUBSET (1 .. n) -> A] : IsFold(n, base, step, f)
<1> DEFINE Has(k) == \E f \in [SUBSET (1 .. k) -> A] : IsFold(k, base, step, f)
           S == {k \in 0 .. n : Has(k)}
<1>1. Has(0)
  <2> DEFINE f == [s \in SUBSET (1 .. 0) |-> base]
  <2>1. SUBSET (1 .. 0) = {{}}
    BY SMT
  <2>2. f \in [SUBSET (1 .. 0) -> A] /\ IsFold(0, base, step, f)
    BY <2>1 DEF IsFold, FoldBody
  <2> QED
    BY <2>2
<1>2. ASSUME NEW k \in 0 .. n - 1, Has(k)
      PROVE  Has(k + 1)
  <2>1. PICK f \in [SUBSET (1 .. k) -> A] : IsFold(k, base, step, f)
    BY <1>2
  <2> DEFINE m == k + 1
             g == [s \in SUBSET (1 .. m) |-> IF m \in s THEN step[<<f[s \ {m}], m>>] ELSE f[s]]
  <2>2. \A s \in SUBSET (1 .. m) : m \notin s => s \in SUBSET (1 .. k)
    BY SMT
  <2>3. \A s \in SUBSET (1 .. m) : s \ {m} \in SUBSET (1 .. k)
    BY SMT
  <2>4. m \in 1 .. n /\ m \in Nat
    OBVIOUS
  <2>5. \A s \in SUBSET (1 .. k) : m \notin s /\ s \in SUBSET (1 .. m)
    BY SMT
  <2> HIDE DEF m
  <2>6. g \in [SUBSET (1 .. m) -> A]
    <3>1. \A s \in SUBSET (1 .. m) : m \notin s => f[s] \in A
      BY <2>2
    <3>2. \A s \in SUBSET (1 .. m) : step[<<f[s \ {m}], m>>] \in A
      BY <2>3, <2>4
    <3> QED
      BY <3>1, <3>2
  <2>7. \A s \in SUBSET (1 .. k) : g[s] = f[s]
    BY <2>5
  <2>8. \A s \in SUBSET (1 .. m) : m \in s => g[s] = FoldBody(base, step, g, s)
    <3> SUFFICES ASSUME NEW s \in SUBSET (1 .. m), m \in s
                 PROVE  g[s] = FoldBody(base, step, g, s)
      OBVIOUS
    <3>1. Max(s) = m /\ s # {}
      BY <2>4, MaxOfInterval
    <3>2. g[s] = step[<<f[s \ {m}], m>>]
      OBVIOUS
    <3>3. g[s \ {m}] = f[s \ {m}]
      BY <2>3, <2>7
    <3> HIDE DEF g
    <3> QED
      BY <3>1, <3>2, <3>3 DEF FoldBody
  <2>9. \A s \in SUBSET (1 .. m) : m \notin s => g[s] = FoldBody(base, step, g, s)
    <3> SUFFICES ASSUME NEW s \in SUBSET (1 .. m), m \notin s
                 PROVE  g[s] = FoldBody(base, step, g, s)
      OBVIOUS
    <3>1. s \in SUBSET (1 .. k)
      BY <2>2
    <3>2. f[s] = FoldBody(base, step, f, s)
      BY <2>1, <3>1 DEF IsFold
    <3>3. \A x : g[s \ {x}] = f[s \ {x}]
      <4>1. \A x : s \ {x} \in SUBSET (1 .. k)
        BY <3>1
      <4> QED
        BY <4>1, <2>7
    <3>4. g[s] = f[s]
      BY <3>1, <2>7
    <3> HIDE DEF g
    <3> QED
      BY <3>2, <3>3, <3>4 DEF FoldBody
  <2>10. IsFold(m, base, step, g)
    <3> HIDE DEF g
    <3>1. \A s \in SUBSET (1 .. m) : g[s] = FoldBody(base, step, g, s)
      BY <2>8, <2>9
    <3>2. g = [s \in SUBSET (1 .. m) |-> g[s]]
      BY <2>6
    <3> QED
      BY <3>1, <3>2 DEF IsFold
  <2>11. \E h \in [SUBSET (1 .. m) -> A] : IsFold(m, base, step, h)
    <3> HIDE DEF g
    <3> QED
      BY <2>6, <2>10
  <2> QED
    BY <2>11 DEF m
<1> HIDE DEF Has
<1>3. 0 \in S /\ \A i \in 0 .. n - 1 : i \in S => i + 1 \in S
  BY <1>1, <1>2
<1>4. 0 .. n \subseteq S
  <2> HIDE DEF S
  <2> QED
    BY <1>3, IndexInduction
<1>5. Has(n)
  BY <1>4
<1> QED
  BY <1>5 DEF Has

\* The index sets a fold goes through, from the empty one on.
LEMMA IndexPrefixes ==
  ASSUME NEW n \in Nat, NEW k \in 0 .. n - 1
  PROVE  /\ 1 .. 0 = {} /\ {} \in SUBSET (1 .. n)
         /\ 1 .. k + 1 \in SUBSET (1 .. n) /\ 1 .. k + 1 # {}
         /\ Max(1 .. k + 1) = k + 1 /\ (1 .. k + 1) \ {k + 1} = 1 .. k
<1>1. /\ 1 .. k + 1 \in SUBSET (1 .. n) /\ 1 .. k + 1 # {} /\ k + 1 \in 1 .. k + 1
      /\ (1 .. k + 1) \ {k + 1} = 1 .. k /\ 1 .. 0 = {} /\ {} \in SUBSET (1 .. n)
  <2>1. 1 .. k + 1 \subseteq 1 .. n /\ k + 1 \in 1 .. k + 1
    OBVIOUS
  <2>2. (1 .. k + 1) \ {k + 1} = 1 .. k
    OBVIOUS
  <2>3. 1 .. 0 = {}
    OBVIOUS
  <2> QED
    BY <2>1, <2>2, <2>3
<1>2. Max(1 .. k + 1) = k + 1
  <2>1. k + 1 \in Nat /\ 1 .. k + 1 \in SUBSET (1 .. k + 1)
    OBVIOUS
  <2> QED
    BY <1>1, <2>1, MaxOfInterval
<1> QED
  BY <1>1, <1>2

=============================================================================
