-------------------------- MODULE HashtreeReadProofs --------------------------
(***************************************************************************)
(* A reader gets back what a publisher put in, for any lists of entries,   *)
(* any depth of the tree and any servers.                                  *)
(***************************************************************************)
EXTENDS HashtreeProofs, FiniteSetTheorems, WellFoundedInduction

-----------------------------------------------------------------------------
(* Induction over the natural numbers, for sets.                           *)

Lower == {x \in Nat \X Nat : x[1] < x[2]}

LEMMA LowerIsWellFounded == IsWellFoundedOn(Lower, Nat)
BY NatLessThanWellFounded DEF OpToRel, Lower

LEMMA LeastElement ==
  ASSUME NEW T \in SUBSET Nat, T # {}
  PROVE  \E n \in T : \A m \in T : n <= m
<1>1. PICK n \in T : \A m \in T : <<m, n>> \notin Lower
  BY LowerIsWellFounded, WFMin
<1>2. ASSUME NEW m \in T PROVE n <= m
  <2>1. <<m, n>> \in Nat \X Nat /\ <<m, n>>[1] = m /\ <<m, n>>[2] = n
    OBVIOUS
  <2>2. ~(m < n)
    BY <1>1, <2>1 DEF Lower
  <2> QED
    BY <2>2
<1> QED
  BY <1>2

(* What 0 has, and n + 1 if n has it, every number has.                    *)
LEMMA Induction ==
  ASSUME NEW S, 0 \in S, \A n \in Nat : n \in S => n + 1 \in S
  PROVE  Nat \subseteq S
<1> SUFFICES ASSUME Nat \ S # {} PROVE FALSE
  OBVIOUS
<1>1. PICK n \in Nat \ S : \A m \in Nat \ S : n <= m
  BY LeastElement
<1>2. n # 0 /\ n - 1 \in Nat /\ (n - 1) + 1 = n
  BY <1>1
<1>3. n - 1 \in S
  BY <1>1, <1>2
<1> QED
  BY <1>1, <1>2, <1>3
-----------------------------------------------------------------------------
(* The order of the entries of a list is total, so that there is one way   *)
(* to sort it.                                                             *)

Before(I, j, k) == I[j].n < I[k].n \/ (I[j].n = I[k].n /\ j < k)

(* The first n entries, sorted.                                            *)
Orders(I, n) ==
  {p \in [1..n -> 1..n] : \A j, k \in 1..n : j < k => Before(I, p[j], p[k])}

LEMMA BeforeOrders ==
  ASSUME NEW I \in Seq(Entries)
  PROVE  /\ \A j \in 1..Len(I) : ~Before(I, j, j)
         /\ \A j, k \in 1..Len(I) : j = k \/ Before(I, j, k) \/ Before(I, k, j)
         /\ \A j, k, l \in 1..Len(I) : Before(I, j, k) /\ Before(I, k, l) => Before(I, j, l)
<1>1. Len(I) \in Nat
  BY LenProperties
<1>2. \A j \in 1..Len(I) : I[j] \in Entries
  BY ElementOfSeq
<1>3. \A j \in 1..Len(I) : I[j].n \in Int
  BY <1>2, HashtreeAssumption DEF Entries
<1> QED
  BY <1>1, <1>3 DEF Before

(* One more entry goes where it belongs.                                   *)
LEMMA OrderNext ==
  ASSUME NEW I \in Seq(Entries), NEW n \in Nat, n + 1 <= Len(I), Orders(I, n) # {}
  PROVE  Orders(I, n + 1) # {}
<1> DEFINE B(j, k) == Before(I, j, k)
<1>0. Len(I) \in Nat
  BY LenProperties
<1>1. PICK p \in [1..n -> 1..n] : \A j, k \in 1..n : j < k => B(p[j], p[k])
  BY DEF Orders
<1>2. /\ \A j, k \in 1..(n + 1) : j = k \/ B(j, k) \/ B(k, j)
      /\ \A j, k, l \in 1..(n + 1) : B(j, k) /\ B(k, l) => B(j, l)
  <2>1. \A j \in 1..(n + 1) : j \in 1..Len(I)
    BY <1>0
  <2>2. /\ \A j, k \in 1..Len(I) : j = k \/ B(j, k) \/ B(k, j)
        /\ \A j, k, l \in 1..Len(I) : B(j, k) /\ B(k, l) => B(j, l)
    BY BeforeOrders
  <2> HIDE DEF B
  <2> QED
    BY <2>1, <2>2
<1> HIDE DEF B
<1> DEFINE T == {k \in 1..(n + 1) : k = n + 1 \/ B(n + 1, p[k])}
<1>3. PICK m \in T : \A k \in T : m <= k
  <2>1. T \in SUBSET Nat /\ n + 1 \in T
    OBVIOUS
  <2> QED
    BY <2>1, LeastElement
<1>4. m \in 1..(n + 1)
  BY <1>3
<1>5. \A i \in 1..n : p[i] \in 1..(n + 1) /\ p[i] # n + 1
  BY <1>1
<1>6. ASSUME NEW i \in 1..n, i < m PROVE B(p[i], n + 1)
  <2>1. i \notin T /\ i \in 1..(n + 1) /\ i # n + 1
    BY <1>3, <1>4, <1>6
  <2>2. ~B(n + 1, p[i])
    BY <2>1
  <2> QED
    BY <1>2, <1>5, <2>2
<1>7. ASSUME NEW i \in 1..n, i >= m PROVE B(n + 1, p[i])
  <2>1. m \in 1..n /\ B(n + 1, p[m])
    BY <1>3, <1>4, <1>7
  <2>2. i = m \/ B(p[m], p[i])
    BY <1>1, <1>7, <2>1
  <2> QED
    BY <1>2, <1>5, <2>1, <2>2
<1> DEFINE q == [i \in 1..(n + 1) |-> IF i < m THEN p[i] ELSE IF i = m THEN n + 1 ELSE p[i - 1]]
<1>8. \A i \in 1..(n + 1) : /\ i < m => i \in 1..n /\ q[i] = p[i]
                            /\ i = m => q[i] = n + 1
                            /\ i > m => i - 1 \in 1..n /\ i - 1 >= m /\ q[i] = p[i - 1]
  BY <1>4
<1> HIDE DEF q, T
<1>9. ASSUME NEW i \in 1..(n + 1) PROVE q[i] \in 1..(n + 1)
  <2>1. CASE i < m
    BY <1>5, <1>8, <2>1
  <2>2. CASE i = m
    BY <1>8, <2>2
  <2>3. CASE i > m
    BY <1>5, <1>8, <2>3
  <2> QED
    BY <1>4, <2>1, <2>2, <2>3
<1>10. ASSUME NEW j \in 1..(n + 1), NEW k \in 1..(n + 1), j < k PROVE B(q[j], q[k])
  <2>1. CASE k < m
    <3>1. j < m
      BY <1>4, <1>10, <2>1
    <3> QED
      BY <1>1, <1>8, <1>10, <2>1, <3>1
  <2>2. CASE j < m /\ k = m
    BY <1>6, <1>8, <2>2
  <2>3. CASE j < m /\ k > m
    <3>1. /\ j \in 1..n /\ k - 1 \in 1..n /\ j < k - 1
          /\ q[j] = p[j] /\ q[k] = p[k - 1]
      BY <1>4, <1>8, <2>3
    <3> QED
      BY <1>1, <3>1
  <2>4. CASE j = m
    BY <1>7, <1>8, <1>10, <2>4
  <2>5. CASE j > m
    <3>1. k > m /\ j - 1 < k - 1
      BY <1>4, <1>10, <2>5
    <3>2. /\ j - 1 \in 1..n /\ k - 1 \in 1..n
          /\ q[j] = p[j - 1] /\ q[k] = p[k - 1]
      BY <1>8, <2>5, <3>1
    <3> QED
      BY <1>1, <3>1, <3>2
  <2> QED
    BY <1>4, <2>1, <2>2, <2>3, <2>4, <2>5
<1>11. q \in [1..(n + 1) -> 1..(n + 1)]
  BY <1>9 DEF q
<1>12. q \in Orders(I, n + 1)
  BY <1>10, <1>11 DEF Orders, B
<1> QED
  BY <1>12

LEMMA OrderExists ==
  ASSUME NEW I \in Seq(Entries) PROVE Orders(I, Len(I)) # {}
<1> DEFINE S == {n \in Nat : n <= Len(I) => Orders(I, n) # {}}
<1>0. Len(I) \in Nat
  BY LenProperties
<1>1. 0 \in S
  <2>1. [i \in 1..0 |-> i] \in Orders(I, 0)
    BY DEF Orders
  <2> QED
    BY <2>1
<1>2. ASSUME NEW n \in Nat, n \in S PROVE n + 1 \in S
  BY <1>0, <1>2, OrderNext
<1> HIDE DEF S
<1>3. Nat \subseteq S
  BY <1>1, <1>2, Induction
<1> QED
  BY <1>0, <1>3 DEF S

(* An order leaves no entry out.                                           *)
LEMMA OrderCovers ==
  ASSUME NEW I \in Seq(Entries), NEW p \in Orders(I, Len(I))
  PROVE  /\ \A j, k \in 1..Len(I) : p[j] = p[k] => j = k
         /\ \A x \in 1..Len(I) : \E j \in 1..Len(I) : p[j] = x
<1> DEFINE N == 1..Len(I)
<1>0. Len(I) \in Nat
  BY LenProperties
<1>1. p \in [N -> N] /\ \A j, k \in N : j < k => Before(I, p[j], p[k])
  BY DEF Orders
<1>2. \A j, k \in N : p[j] = p[k] => j = k
  <2> SUFFICES ASSUME NEW j \in N, NEW k \in N, p[j] = p[k], j < k PROVE FALSE
    BY <1>0
  <2> QED
    BY <1>1, BeforeOrders
<1>3. IsFiniteSet(N)
  BY <1>0, FS_Interval
<1>4. p \in Injection(N, N)
  BY <1>1, <1>2 DEF Injection, IsInjective
<1>5. p \in Surjection(N, N)
  BY <1>3, <1>4, FS_Injection
<1> QED
  BY <1>2, <1>5 DEF Surjection

(* Two orders that agree up to i agree there too: what one has at i the    *)
(* other has nowhere before, and nothing comes before it after that.       *)
LEMMA OrderAt ==
  ASSUME NEW I \in Seq(Entries), NEW p \in Orders(I, Len(I)), NEW q \in Orders(I, Len(I)),
         NEW i \in 1..Len(I), \A j \in 1..Len(I) : j < i => p[j] = q[j]
  PROVE  ~Before(I, p[i], q[i])
<1> DEFINE N == 1..Len(I)
<1>0. Len(I) \in Nat
  BY LenProperties
<1>1. /\ p \in [N -> N] /\ q \in [N -> N]
      /\ \A j, k \in N : j < k => Before(I, q[j], q[k])
  BY DEF Orders
<1>2. PICK k \in N : q[k] = p[i]
  <2>1. p[i] \in N
    BY <1>1
  <2>2. \A x \in N : \E j \in N : q[j] = x
    BY OrderCovers
  <2> QED
    BY <2>1, <2>2
<1>3. ~(k < i)
  <2> SUFFICES ASSUME k < i PROVE FALSE
    OBVIOUS
  <2>1. p[k] = p[i]
    BY <1>2
  <2> QED
    BY <1>0, <2>1, OrderCovers
<1>4. k = i \/ Before(I, q[i], q[k])
  BY <1>0, <1>1, <1>3
<1> QED
  BY <1>1, <1>2, <1>4, BeforeOrders

LEMMA OrdersAgree ==
  ASSUME NEW I \in Seq(Entries), NEW p \in Orders(I, Len(I)), NEW q \in Orders(I, Len(I))
  PROVE  p = q
<1> DEFINE D == {i \in 1..Len(I) : p[i] # q[i]}
<1>0. Len(I) \in Nat /\ p \in [1..Len(I) -> 1..Len(I)] /\ q \in [1..Len(I) -> 1..Len(I)]
  BY LenProperties DEF Orders
<1> SUFFICES ASSUME D # {} PROVE FALSE
  BY <1>0
<1>1. D \in SUBSET Nat
  BY <1>0
<1>2. PICK i \in D : \A j \in D : i <= j
  BY <1>1, LeastElement
<1>3. i \in 1..Len(I) /\ \A j \in 1..Len(I) : j < i => p[j] = q[j]
  BY <1>0, <1>2
<1>4. ~Before(I, p[i], q[i]) /\ ~Before(I, q[i], p[i])
  BY <1>3, OrderAt
<1>5. p[i] = q[i]
  BY <1>0, <1>3, <1>4, BeforeOrders
<1> QED
  BY <1>2, <1>5

(* sort_by: every list of entries is sorted in one way, into a list that   *)
(* has the same entries as often as it, no name after a greater one, and   *)
(* entries of the same name in the order in which they came.               *)
THEOREM SortedIsOne ==
  ASSUME NEW I \in Seq(Entries)
  PROVE  \E L \in Seq(Entries) :
           /\ Sorted(I) = {L}
           /\ \A j, k \in 1..Len(L) : j < k => L[j].n <= L[k].n
           /\ \E p \in Bijection(1..Len(I), 1..Len(I)) :
                /\ L = [k \in 1..Len(I) |-> I[p[k]]]
                /\ \A j, k \in 1..Len(I) : j < k /\ L[j].n = L[k].n => p[j] < p[k]
<1> DEFINE N == 1..Len(I)
<1>0. Len(I) \in Nat /\ DOMAIN I = N
  BY LenProperties
<1>1. PICK p : p \in Orders(I, Len(I))
  BY OrderExists
<1> DEFINE L == [k \in N |-> I[p[k]]]
<1>2. Sorted(I) = {[k \in N |-> I[q[k]]] : q \in Orders(I, Len(I))}
  BY <1>0 DEF Sorted, Orders, Before
<1>3. Orders(I, Len(I)) = {p}
  BY <1>1, OrdersAgree
<1>4. Sorted(I) = {L}
  BY <1>2, <1>3
<1>5. L \in Seq(Entries)
  BY <1>4, SortedType
<1>6. p \in [N -> N] /\ \A j, k \in N : j < k => Before(I, p[j], p[k])
  BY <1>1 DEF Orders
<1>7. Len(L) = Len(I)
  BY <1>0
<1>8. ASSUME NEW j \in N, NEW k \in N, j < k PROVE L[j].n <= L[k].n
  <2>1. I[p[j]] \in Entries /\ I[p[k]] \in Entries
    BY <1>6, ElementOfSeq
  <2>2. I[p[j]].n \in Int /\ I[p[k]].n \in Int
    BY <2>1, HashtreeAssumption DEF Entries
  <2>3. I[p[j]].n <= I[p[k]].n
    BY <1>6, <1>8, <2>2 DEF Before
  <2> QED
    BY <2>3
<1>9. ASSUME NEW j \in N, NEW k \in N, j < k, L[j].n = L[k].n PROVE p[j] < p[k]
  <2>1. I[p[j]].n = I[p[k]].n
    BY <1>9
  <2>2. I[p[j]] \in Entries
    BY <1>6, ElementOfSeq
  <2>3. I[p[j]].n \in Int
    BY <2>2, HashtreeAssumption DEF Entries
  <2> QED
    BY <1>6, <1>9, <2>1, <2>3 DEF Before
<1>10. p \in Bijection(N, N)
  <2>1. /\ \A j, k \in N : p[j] = p[k] => j = k
        /\ \A x \in N : \E j \in N : p[j] = x
    BY <1>1, OrderCovers
  <2>2. p \in Injection(N, N)
    BY <1>6, <2>1 DEF Injection, IsInjective
  <2>3. p \in Surjection(N, N)
    BY <1>6, <2>1 DEF Surjection
  <2> QED
    BY <2>2, <2>3 DEF Bijection
<1> QED
  BY <1>4, <1>5, <1>7, <1>8, <1>9, <1>10
-----------------------------------------------------------------------------
(* The entries that a list of links stands for, when F[h] are those of the *)
(* node h: a prefix of the links stands for a prefix of them.              *)

Tables == [Nat -> Seq(Entries)]

Piece(F, x) == IF x.t = 0 THEN <<x>> ELSE F[x.h]

Prefixes(F, L) ==
  {P \in [0..Len(L) -> Seq(Entries)] :
     /\ P[0] = <<>>
     /\ \A i \in 1..Len(L) : P[i] = P[i - 1] \o Piece(F, L[i])}

Flat(F, L) == (CHOOSE P : P \in Prefixes(F, L))[Len(L)]

LEMMA EntriesAssociate ==
  \A A, B, C \in Seq(Entries) : (A \o B) \o C = A \o (B \o C)
BY ConcatAssociative

LEMMA PieceType ==
  ASSUME NEW F \in Tables, NEW x \in Links PROVE Piece(F, x) \in Seq(Entries)
<1>1. CASE x \in Entries
  BY <1>1 DEF Piece, Entries
<1>2. CASE x \in NodeLinks
  BY <1>2 DEF Piece, NodeLinks, Tables
<1> QED
  BY <1>1, <1>2 DEF Links

LEMMA PrefixesOfAppend ==
  ASSUME NEW F \in Tables, NEW L \in Seq(Links), NEW x \in Links,
         NEW P \in Prefixes(F, L)
  PROVE  LET Q == [i \in 0..(Len(L) + 1) |->
                     IF i = Len(L) + 1 THEN P[Len(L)] \o Piece(F, x) ELSE P[i]]
         IN Q \in Prefixes(F, Append(L, x))
<1> DEFINE Q == [i \in 0..(Len(L) + 1) |->
                   IF i = Len(L) + 1 THEN P[Len(L)] \o Piece(F, x) ELSE P[i]]
<1>1. /\ Len(L) \in Nat /\ Len(Append(L, x)) = Len(L) + 1
      /\ \A i \in 1..Len(L) : Append(L, x)[i] = L[i]
      /\ Append(L, x)[Len(L) + 1] = x
  BY AppendProperties, LenProperties
<1>2. /\ P \in [0..Len(L) -> Seq(Entries)] /\ P[0] = <<>>
      /\ \A i \in 1..Len(L) : P[i] = P[i - 1] \o Piece(F, L[i])
  BY DEF Prefixes
<1>3. P[Len(L)] \o Piece(F, x) \in Seq(Entries)
  BY <1>1, <1>2, PieceType, ConcatProperties
<1>4. /\ Q \in [0..(Len(L) + 1) -> Seq(Entries)] /\ Q[0] = <<>>
      /\ \A i \in 0..Len(L) : Q[i] = P[i]
      /\ Q[Len(L) + 1] = P[Len(L)] \o Piece(F, x)
  <2>1. /\ 0 \in 0..Len(L) /\ 0 # Len(L) + 1 /\ Len(L) + 1 \in 0..(Len(L) + 1)
        /\ \A i \in 0..(Len(L) + 1) : i = Len(L) + 1 \/ i \in 0..Len(L)
        /\ \A i \in 0..Len(L) : i \in 0..(Len(L) + 1) /\ i # Len(L) + 1
    BY <1>1
  <2>2. \A i \in 0..Len(L) : P[i] \in Seq(Entries)
    BY <1>2
  <2>3. \A i \in 0..Len(L) : Q[i] = P[i]
    BY <2>1
  <2>4. Q[Len(L) + 1] = P[Len(L)] \o Piece(F, x)
    BY <2>1
  <2>5. Q \in [0..(Len(L) + 1) -> Seq(Entries)]
    BY <1>3, <2>1, <2>2
  <2> QED
    BY <1>2, <2>1, <2>3, <2>4, <2>5
<1> HIDE DEF Q
<1>5. \A i \in 1..(Len(L) + 1) : Q[i] = Q[i - 1] \o Piece(F, Append(L, x)[i])
  <2> SUFFICES ASSUME NEW i \in 1..(Len(L) + 1)
               PROVE  Q[i] = Q[i - 1] \o Piece(F, Append(L, x)[i])
    OBVIOUS
  <2>1. CASE i = Len(L) + 1
    <3>1. i - 1 = Len(L) /\ Len(L) \in 0..Len(L)
      BY <1>1, <2>1
    <3>2. Q[i - 1] = P[Len(L)] /\ Append(L, x)[i] = x
      BY <1>1, <1>4, <2>1, <3>1
    <3> QED
      BY <1>4, <2>1, <3>2
  <2>2. CASE i \in 1..Len(L)
    <3>1. i \in 0..Len(L) /\ i - 1 \in 0..Len(L)
      BY <1>1, <2>2
    <3>2. Q[i] = P[i] /\ Q[i - 1] = P[i - 1] /\ Append(L, x)[i] = L[i]
      BY <1>1, <1>4, <2>2, <3>1
    <3> QED
      BY <1>2, <2>2, <3>2
  <2>3. i \in 1..Len(L) \/ i = Len(L) + 1
    BY <1>1
  <2> QED
    BY <2>1, <2>2, <2>3
<1>6. Q \in Prefixes(F, Append(L, x))
  BY <1>1, <1>4, <1>5 DEF Prefixes
<1> QED
  BY <1>6 DEF Q

LEMMA PrefixesExist ==
  ASSUME NEW F \in Tables, NEW L \in Seq(Links)
  PROVE  \E P : P \in Prefixes(F, L)
<1> DEFINE S == {n \in Nat : \A M \in Seq(Links) : Len(M) = n => \E P : P \in Prefixes(F, M)}
<1>1. 0 \in S
  <2> SUFFICES ASSUME NEW M \in Seq(Links), Len(M) = 0
               PROVE  \E P : P \in Prefixes(F, M)
    OBVIOUS
  <2>1. <<>> \in Seq(Entries)
    BY EmptySeq
  <2>2. [i \in 0..0 |-> <<>>] \in Prefixes(F, M)
    BY <2>1 DEF Prefixes
  <2> QED
    BY <2>2
<1>2. ASSUME NEW n \in Nat, n \in S PROVE n + 1 \in S
  <2> SUFFICES ASSUME NEW M \in Seq(Links), Len(M) = n + 1
               PROVE  \E P : P \in Prefixes(F, M)
    OBVIOUS
  <2>1. M # <<>>
    BY EmptySeq
  <2>2. PICK N \in Seq(Links), x \in Links : M = Append(N, x)
    BY <2>1, SequenceEmptyOrAppend
  <2>3. Len(N) = n
    BY <2>2, AppendProperties, LenProperties
  <2>4. PICK P : P \in Prefixes(F, N)
    BY <1>2, <2>3
  <2> QED
    BY <2>2, <2>4, PrefixesOfAppend
<1> HIDE DEF S
<1>3. Nat \subseteq S
  BY <1>1, <1>2, Induction
<1> QED
  BY <1>3, LenProperties DEF S

LEMMA PrefixesAgree ==
  ASSUME NEW F, NEW L \in Seq(Links), NEW P \in Prefixes(F, L), NEW Q \in Prefixes(F, L)
  PROVE  P = Q
<1> DEFINE S == {n \in Nat : n <= Len(L) => P[n] = Q[n]}
<1>0. Len(L) \in Nat
  BY LenProperties
<1>1. 0 \in S
  BY DEF Prefixes
<1>2. ASSUME NEW n \in Nat, n \in S PROVE n + 1 \in S
  <2> SUFFICES ASSUME n + 1 <= Len(L) PROVE P[n + 1] = Q[n + 1]
    OBVIOUS
  <2>1. n + 1 \in 1..Len(L) /\ (n + 1) - 1 = n /\ P[n] = Q[n]
    BY <1>0, <1>2
  <2> QED
    BY <2>1 DEF Prefixes
<1> HIDE DEF S
<1>3. Nat \subseteq S
  BY <1>1, <1>2, Induction
<1>4. \A n \in 0..Len(L) : P[n] = Q[n]
  BY <1>0, <1>3 DEF S
<1> QED
  BY <1>4 DEF Prefixes

LEMMA FlatPrefixes ==
  ASSUME NEW F \in Tables, NEW L \in Seq(Links), NEW P \in Prefixes(F, L)
  PROVE  Flat(F, L) = P[Len(L)]
BY PrefixesAgree DEF Flat

LEMMA FlatType ==
  ASSUME NEW F \in Tables, NEW L \in Seq(Links) PROVE Flat(F, L) \in Seq(Entries)
<1>1. PICK P : P \in Prefixes(F, L)
  BY PrefixesExist
<1>2. P[Len(L)] \in Seq(Entries)
  BY <1>1, LenProperties DEF Prefixes
<1> QED
  BY <1>1, <1>2, FlatPrefixes

LEMMA FlatEmpty ==
  ASSUME NEW F \in Tables PROVE Flat(F, <<>>) = <<>>
<1>1. <<>> \in Seq(Links) /\ Len(<<>>) = 0
  BY EmptySeq
<1>2. PICK P : P \in Prefixes(F, <<>>)
  BY <1>1, PrefixesExist
<1> QED
  BY <1>1, <1>2, FlatPrefixes DEF Prefixes

LEMMA FlatAppend ==
  ASSUME NEW F \in Tables, NEW L \in Seq(Links), NEW x \in Links
  PROVE  Flat(F, Append(L, x)) = Flat(F, L) \o Piece(F, x)
<1>1. PICK P : P \in Prefixes(F, L)
  BY PrefixesExist
<1> DEFINE Q == [i \in 0..(Len(L) + 1) |->
                   IF i = Len(L) + 1 THEN P[Len(L)] \o Piece(F, x) ELSE P[i]]
<1>2. Q \in Prefixes(F, Append(L, x))
  BY <1>1, PrefixesOfAppend
<1>3. Append(L, x) \in Seq(Links) /\ Len(Append(L, x)) = Len(L) + 1 /\ Len(L) \in Nat
  BY AppendProperties, LenProperties
<1>4. Q[Len(L) + 1] = P[Len(L)] \o Piece(F, x)
  BY <1>3
<1> HIDE DEF Q
<1>5. Flat(F, Append(L, x)) = Q[Len(L) + 1]
  BY <1>2, <1>3, FlatPrefixes
<1> QED
  BY <1>1, <1>4, <1>5, FlatPrefixes

(* Two lists one after the other.                                          *)
LEMMA FlatConcat ==
  ASSUME NEW F \in Tables, NEW L \in Seq(Links), NEW M \in Seq(Links)
  PROVE  Flat(F, L \o M) = Flat(F, L) \o Flat(F, M)
<1> DEFINE S == {n \in Nat : \A N \in Seq(Links) :
                   Len(N) = n => Flat(F, L \o N) = Flat(F, L) \o Flat(F, N)}
<1>1. 0 \in S
  <2> SUFFICES ASSUME NEW N \in Seq(Links), Len(N) = 0
               PROVE  Flat(F, L \o N) = Flat(F, L) \o Flat(F, N)
    OBVIOUS
  <2>1. N = <<>>
    BY EmptySeq
  <2>2. Flat(F, L) \o <<>> = Flat(F, L) /\ L \o <<>> = L
    BY FlatType, ConcatEmptySeq
  <2> QED
    BY <2>1, <2>2, FlatEmpty
<1>2. ASSUME NEW n \in Nat, n \in S PROVE n + 1 \in S
  <2> SUFFICES ASSUME NEW N \in Seq(Links), Len(N) = n + 1
               PROVE  Flat(F, L \o N) = Flat(F, L) \o Flat(F, N)
    OBVIOUS
  <2>1. N # <<>>
    BY EmptySeq
  <2>2. PICK R \in Seq(Links), x \in Links : N = Append(R, x)
    BY <2>1, SequenceEmptyOrAppend
  <2>3. Len(R) = n
    BY <2>2, AppendProperties, LenProperties
  <2>4. Flat(F, L \o R) = Flat(F, L) \o Flat(F, R)
    BY <1>2, <2>3
  <2>5. L \o N = Append(L \o R, x) /\ L \o R \in Seq(Links)
    <3>1. <<x>> \in Seq(Links) /\ L \o R \in Seq(Links)
      BY ConcatProperties
    <3>2. N = R \o <<x>> /\ Append(L \o R, x) = (L \o R) \o <<x>>
      BY <2>2, <3>1, AppendIsConcat
    <3> QED
      BY <3>1, <3>2, ConcatAssociative
  <2>6. Flat(F, L \o N) = (Flat(F, L) \o Flat(F, R)) \o Piece(F, x)
    BY <2>4, <2>5, FlatAppend
  <2>7. Flat(F, N) = Flat(F, R) \o Piece(F, x)
    BY <2>2, FlatAppend
  <2>8. /\ Flat(F, L) \in Seq(Entries) /\ Flat(F, R) \in Seq(Entries)
        /\ Piece(F, x) \in Seq(Entries)
    BY FlatType, PieceType
  <2> QED
    <3>1. (Flat(F, L) \o Flat(F, R)) \o Piece(F, x) = Flat(F, L) \o (Flat(F, R) \o Piece(F, x))
      BY <2>8, EntriesAssociate
    <3> QED
      BY <2>6, <2>7, <3>1
<1> HIDE DEF S
<1>3. Nat \subseteq S
  BY <1>1, <1>2, Induction
<1> QED
  BY <1>3, LenProperties DEF S

LEMMA FlatOne ==
  ASSUME NEW F \in Tables, NEW x \in Links PROVE Flat(F, <<x>>) = Piece(F, x)
<1>1. <<>> \in Seq(Links) /\ Append(<<>>, x) = <<x>>
  BY EmptySeq
<1>2. Flat(F, <<x>>) = <<>> \o Piece(F, x)
  BY <1>1, FlatAppend, FlatEmpty
<1> QED
  BY <1>2, PieceType, ConcatEmptySeq

(* Only the nodes linked to count.                                         *)
LEMMA FlatSame ==
  ASSUME NEW F \in Tables, NEW G \in Tables, NEW L \in Seq(Links),
         \A i \in DOMAIN L : L[i].t = 2 => F[L[i].h] = G[L[i].h]
  PROVE  Flat(F, L) = Flat(G, L)
<1>1. \A i \in 1..Len(L) : Piece(F, L[i]) = Piece(G, L[i])
  <2> SUFFICES ASSUME NEW i \in 1..Len(L) PROVE Piece(F, L[i]) = Piece(G, L[i])
    OBVIOUS
  <2>1. L[i] \in Links /\ i \in DOMAIN L
    BY ElementOfSeq, LenProperties
  <2> QED
    BY <2>1 DEF Piece, Links, Entries, NodeLinks
<1>2. Prefixes(F, L) = Prefixes(G, L)
  BY <1>1 DEF Prefixes
<1> QED
  BY <1>2 DEF Flat

(* A list of entries stands for itself.                                    *)
LEMMA FlatEntries ==
  ASSUME NEW F \in Tables, NEW L \in Seq(Entries) PROVE Flat(F, L) = L
<1> DEFINE S == {n \in Nat : \A M \in Seq(Entries) : Len(M) = n => Flat(F, M) = M}
<1>0. Entries \subseteq Links /\ \A M \in Seq(Entries) : M \in Seq(Links)
  <2>1. Entries \subseteq Links
    BY DEF Links
  <2> QED
    BY <2>1, SeqMonotonic
<1>1. 0 \in S
  BY EmptySeq, FlatEmpty
<1>2. ASSUME NEW n \in Nat, n \in S PROVE n + 1 \in S
  <2> SUFFICES ASSUME NEW M \in Seq(Entries), Len(M) = n + 1 PROVE Flat(F, M) = M
    OBVIOUS
  <2>1. M # <<>>
    BY EmptySeq
  <2>2. PICK N \in Seq(Entries), x \in Entries : M = Append(N, x)
    BY <2>1, SequenceEmptyOrAppend
  <2>3. Len(N) = n
    BY <2>2, AppendProperties, LenProperties
  <2>4. Flat(F, N) = N /\ Piece(F, x) = <<x>>
    BY <1>2, <2>3 DEF Piece, Entries
  <2>5. Flat(F, M) = N \o <<x>>
    BY <1>0, <2>2, <2>4, FlatAppend
  <2> QED
    BY <2>2, <2>5, AppendIsConcat
<1> HIDE DEF S
<1>3. Nat \subseteq S
  BY <1>1, <1>2, Induction
<1> QED
  BY <1>3, LenProperties DEF S
-----------------------------------------------------------------------------
(* The reader is at a published root, and has no hole before it: what it   *)
(* has still to fetch is on a server, and, unless one failed, on a server  *)
(* it has still to ask.                                                    *)

Upload ==
  /\ bpc # "build" => next = <<>>
  /\ bpc = "upload" => level = <<[h |-> all[Len(all)], n |-> 0, t |-> 2]>>

Origin ==
  /\ rpc = "parse" => \E r \in roots, H \in Headers : data = H \o Encode(r.root)
  /\ rpc = "walk" => \E r \in roots : r.root = got
  /\ rpc # "idle" => result = "none"
  /\ rpc # "walk" => todo = <<>> /\ server = 1 /\ out = <<>>

ToFetch == todo # <<>> /\ Head(todo).t = 2

Ahead ==
  /\ \A r \in roots : Stored(r.root)
  /\ \A i \in DOMAIN todo : todo[i].t = 2 => Stored(todo[i].h)
  /\ ~ToFetch => server = 1
  /\ ToFetch /\ ~fault => \E i \in server..NServers : Head(todo).h \in store[i]

RInv == OInv /\ PInv /\ Upload /\ Origin /\ Ahead

LEMMA InitRead == Init => RInv
<1> SUFFICES ASSUME Init PROVE RInv
  OBVIOUS
<1>1. OInv /\ PInv
  BY InitOrder, InitType DEF PInv, OnTheWay, Init
<1>2. Upload /\ Origin
  BY DEF Upload, Origin, Init
<1>3. todo = <<>> /\ roots = {} /\ server = 1 /\ DOMAIN todo = {}
  BY EmptySeq DEF Init
<1> QED
  BY <1>1, <1>2, <1>3 DEF RInv, Ahead, ToFetch

LEMMA StoreGrows ==
  ASSUME TInv, [Next]_vars
  PROVE  /\ \A i \in Servers : store[i] \subseteq store'[i]
         /\ \A h : Stored(h) => Stored(h)'
<1>1. CASE Put
  <2>1. PICK W : store' = [i \in Servers |->
                   store[i] \cup (IF i \in W THEN {all[sent + 1]} ELSE {})]
    BY <1>1 DEF Put
  <2> QED
    BY <2>1 DEF Stored
<1>2. CASE UNCHANGED store
  BY <1>2 DEF Stored
<1>3. Put \/ UNCHANGED store
  BY DEF Next, Begin, Open, Build, Chunk, Publish, Crash, Read, Parse, Keep, Fetch,
         Return, world, vars
<1> QED
  BY <1>1, <1>2, <1>3

(* The publisher's steps.                                                  *)
LEMMA PublisherReads ==
  ASSUME RInv, [Next]_vars, UNCHANGED <<readVars, roots>> PROVE Origin' /\ Ahead'
<1>1. /\ \A i \in Servers : store[i] \subseteq store'[i]
      /\ \A h : Stored(h) => Stored(h)'
      /\ Servers = 1..NServers
  BY StoreGrows DEF RInv, OInv, Servers
<1>2. UNCHANGED <<rpc, data, pos, got, todo, server, out, result, fault, roots>>
  BY DEF readVars
<1>3. Origin'
  BY <1>2 DEF RInv, Origin, Encode
<1>4. ASSUME ToFetch, ~fault PROVE \E i \in server..NServers : Head(todo).h \in store'[i]
  <2>1. PICK i \in server..NServers : Head(todo).h \in store[i]
    BY <1>4 DEF RInv, Ahead
  <2>2. i \in Servers
    BY <2>1 DEF Servers, RInv, OInv, TInv, ReadType
  <2> QED
    BY <1>1, <2>1, <2>2
<1>5. Ahead'
  BY <1>1, <1>2, <1>4 DEF RInv, Ahead, ToFetch
<1> QED
  BY <1>3, <1>5

LEMMA PublishReads == ASSUME RInv, Publish PROVE Origin' /\ Ahead'
<1>1. /\ bpc = "upload" /\ sent = Len(all) /\ UNCHANGED <<store, readVars>>
      /\ roots' = roots \cup {[root |-> all[Len(all)], of |-> input]}
  BY DEF Publish
<1>2. Stored(all[Len(all)])
  <2>1. all # <<>> /\ all \in Seq(Hashes)
    BY <1>1 DEF RInv, OInv, TInv, BuildType
  <2>2. Len(all) \in 1..sent
    BY <1>1, <2>1, EmptySeq, LenProperties
  <2> QED
    BY <2>2 DEF RInv, OInv, Order
<1>3. UNCHANGED <<rpc, data, pos, got, todo, server, out, result, fault>>
  BY <1>1 DEF readVars
<1>4. \A h : Stored(h)' <=> Stored(h)
  BY <1>1 DEF Stored
<1>5. Origin'
  BY <1>1, <1>3 DEF RInv, Origin, Encode
<1>6. Ahead'
  BY <1>1, <1>2, <1>3, <1>4 DEF RInv, Ahead, ToFetch
<1> QED
  BY <1>5, <1>6

LEMMA ChunkUpload == ASSUME RInv, Chunk PROVE Upload'
<1> DEFINE k == Least(MaxLinks, Len(level))
           rest == SubSeq(level, k + 1, Len(level))
<1>1. PICK h \in 1..(Len(sha) + 1) :
        LET up == Append(next, [h |-> h, n |-> 0, t |-> 2]) IN
        /\ Hash(SubSeq(level, 1, k), h)
        /\ all' = Append(all, h)
        /\ \/ rest # <<>> /\ level' = rest /\ next' = up /\ UNCHANGED bpc
           \/ /\ rest = <<>> /\ level' = up /\ next' = <<>>
              /\ bpc' = IF Len(up) > 1 THEN "build" ELSE "upload"
  BY DEF Chunk
<1> HIDE DEF rest
<1> DEFINE link == [h |-> h, n |-> 0, t |-> 2]
<1>2. bpc = "build" /\ bpc' \in {"build", "upload"}
  BY <1>1 DEF Chunk
<1> SUFFICES ASSUME bpc' = "upload"
             PROVE  next' = <<>> /\ level' = <<[h |-> all'[Len(all')], n |-> 0, t |-> 2]>>
  BY <1>2 DEF Upload
<1>3. /\ level' = Append(next, link) /\ next' = <<>> /\ ~(Len(Append(next, link)) > 1)
  BY <1>1, <1>2
<1>4. /\ all \in Seq(Nat) /\ h \in Nat
      /\ next \in Seq(NodeLinks) /\ link \in NodeLinks
  <2>1. Hashes \subseteq Nat /\ h \in Nat
    BY LenProperties DEF Hashes, RInv, OInv, TInv, WorldType
  <2> QED
    BY <2>1, SeqMonotonic DEF RInv, OInv, TInv, BuildType, NodeLinks
<1>5. all'[Len(all')] = h
  BY <1>1, <1>4, AppendProperties
<1>6. next = <<>>
  BY <1>3, <1>4, AppendProperties, EmptySeq, LenProperties
<1>7. level' = <<link>>
  BY <1>3, <1>6
<1> QED
  BY <1>3, <1>5, <1>7

LEMMA OtherUpload ==
  ASSUME RInv, EndBuild \/ bpc' = "build" \/ UNCHANGED <<bpc, next, level, all>>
  PROVE  Upload'
BY DEF RInv, Upload, EndBuild

(* The reader's steps.                                                     *)
LEMMA EndedReads ==
  ASSUME RInv, NEW res, EndRead(res), UNCHANGED <<world>> PROVE Origin' /\ Ahead'
<1>1. /\ rpc' = "idle" /\ todo' = <<>> /\ server' = 1 /\ out' = <<>>
      /\ UNCHANGED <<store, roots>>
  BY DEF EndRead, world
<1>2. DOMAIN todo' = {}
  BY <1>1, EmptySeq
<1> QED
  BY <1>1, <1>2 DEF RInv, Origin, Ahead, ToFetch, Stored

LEMMA OpenReads ==
  ASSUME RInv, NEW r \in roots, NEW H \in Headers, Open(r.root, H)
  PROVE  Origin' /\ Ahead'
<1>1. /\ rpc = "idle" /\ rpc' = "parse" /\ data' = H \o Encode(r.root) /\ result' = "none"
      /\ UNCHANGED <<sha, store, roots, pos, got, todo, server, out>>
  BY DEF Open
<1>2. todo' = <<>> /\ server' = 1 /\ out' = <<>> /\ DOMAIN todo' = {}
  BY <1>1, EmptySeq DEF RInv, Origin
<1>3. Origin'
  BY <1>1, <1>2 DEF Origin, Encode
<1> QED
  BY <1>1, <1>2, <1>3 DEF RInv, Ahead, ToFetch, Stored

LEMMA ParseReads ==
  ASSUME OneHash(Nat), RInv, Parse PROVE Origin' /\ Ahead'
<1>1. rpc = "parse" /\ UNCHANGED world /\ roots' = roots /\ store' = store
  BY DEF Parse, world
<1>2. CASE EndRead("err")
  BY <1>1, <1>2, EndedReads
<1>3. CASE Root(data[pos + 3])
  <2>1. /\ got' = data[pos + 3] /\ rpc' = "walk"
        /\ todo' = <<[h |-> got', n |-> 0, t |-> 2]>>
        /\ UNCHANGED <<server, out, result, fault>>
    BY <1>3 DEF Root
  <2>2. PICK r \in roots, H \in Headers : data = H \o Encode(r.root)
    BY <1>1 DEF RInv, Origin
  <2>3. r.root \in Nat
    BY LenProperties DEF RInv, OInv, TInv, WorldType, Hashes
  <2>4. HashIn(data) = {got'}
    BY <2>1, ParseEnds DEF RInv
  <2>5. got' = r.root
    BY <2>2, <2>3, <2>4 DEF OneHash
  <2>6. Stored(got') /\ server' = 1 /\ result' = "none"
    BY <1>1, <2>1, <2>5 DEF RInv, Ahead, Origin
  <2>7. /\ DOMAIN todo' = {1} /\ todo'[1].h = got' /\ todo'[1].t = 2
        /\ Head(todo') = todo'[1]
    BY <2>1
  <2>8. Origin'
    BY <1>1, <2>1, <2>5, <2>6 DEF RInv, Origin
  <2>9. \E i \in 1..NServers : got' \in store[i]
    BY <2>6 DEF Stored, Servers
  <2> QED
    BY <1>1, <2>6, <2>7, <2>8, <2>9 DEF RInv, Ahead, ToFetch, Stored
<1>4. CASE /\ pos' = pos + 2 + data[pos + 2]
           /\ UNCHANGED <<rpc, data, got, todo, server, out, result, fault>>
  <2>1. Origin'
    BY <1>1, <1>4 DEF RInv, Origin, Encode
  <2> QED
    BY <1>1, <1>4, <2>1 DEF RInv, Ahead, ToFetch, Stored
<1> QED
  BY <1>2, <1>3, <1>4 DEF Parse

(* The next link comes after one that has been dealt with.                 *)
LEMMA NextLink ==
  ASSUME NEW L \in Seq(Links), \A i \in DOMAIN L : L[i].t = 2 => Stored(L[i].h),
         L # <<>>, Head(L).t = 2
  PROVE  \E i \in 1..NServers : Head(L).h \in store[i]
<1>1. 1 \in DOMAIN L /\ Head(L) = L[1]
  BY EmptySeq, LenProperties
<1> QED
  BY <1>1 DEF Stored, Servers

LEMMA TailLinks ==
  ASSUME TInv, todo # <<>>, \A i \in DOMAIN todo : todo[i].t = 2 => Stored(todo[i].h)
  PROVE  \A i \in DOMAIN Tail(todo) : Tail(todo)[i].t = 2 => Stored(Tail(todo)[i].h)
<1>1. todo \in Seq(Links)
  BY DEF TInv, ReadType
<1>2. /\ Tail(todo) \in Seq(Links) /\ Len(Tail(todo)) = Len(todo) - 1
      /\ \A i \in 1..Len(Tail(todo)) : Tail(todo)[i] = todo[i + 1]
  BY <1>1, HeadTailProperties
<1>3. /\ DOMAIN todo = 1..Len(todo) /\ DOMAIN Tail(todo) = 1..Len(Tail(todo))
      /\ Len(todo) \in Nat
  BY <1>1, <1>2, LenProperties
<1>4. \A i \in 1..Len(Tail(todo)) : i + 1 \in 1..Len(todo)
  BY <1>2, <1>3
<1> QED
  BY <1>2, <1>3, <1>4

LEMMA KeepReads == ASSUME RInv, Keep PROVE Origin' /\ Ahead'
<1>1. /\ rpc = "walk" /\ todo # <<>> /\ Head(todo).t = 0 /\ todo' = Tail(todo)
      /\ UNCHANGED <<sha, store, roots, rpc, data, got, server, result, fault>>
  BY DEF Keep, world
<1>2. /\ todo' \in Seq(Links)
      /\ \A i \in DOMAIN todo' : todo'[i].t = 2 => Stored(todo'[i].h)
  BY <1>1, TailLinks, TodoParts DEF RInv, Ahead, OInv
<1>3. server' = 1
  BY <1>1 DEF RInv, Ahead, ToFetch
<1>4. Origin'
  BY <1>1 DEF RInv, Origin
<1>5. ASSUME todo' # <<>>, Head(todo').t = 2
      PROVE  \E i \in 1..NServers : Head(todo').h \in store[i]
  BY <1>2, <1>5, NextLink
<1> QED
  BY <1>1, <1>2, <1>3, <1>4, <1>5 DEF RInv, Ahead, ToFetch, Stored

LEMMA ConcatLinks ==
  ASSUME NEW L \in Seq(Links), NEW M \in Seq(Links),
         \A i \in DOMAIN L : L[i].t = 2 => Stored(L[i].h),
         \A i \in DOMAIN M : M[i].t = 2 => Stored(M[i].h)
  PROVE  /\ L \o M \in Seq(Links)
         /\ \A i \in DOMAIN (L \o M) : (L \o M)[i].t = 2 => Stored((L \o M)[i].h)
<1> DEFINE C == L \o M
<1>1. /\ C \in Seq(Links) /\ Len(C) = Len(L) + Len(M)
      /\ \A i \in 1..(Len(L) + Len(M)) : C[i] = IF i <= Len(L) THEN L[i] ELSE M[i - Len(L)]
  BY ConcatProperties
<1>2. /\ Len(L) \in Nat /\ Len(M) \in Nat /\ DOMAIN C = 1..(Len(L) + Len(M))
      /\ DOMAIN L = 1..Len(L) /\ DOMAIN M = 1..Len(M)
  BY <1>1, LenProperties
<1> HIDE DEF C
<1>3. \A i \in 1..(Len(L) + Len(M)) :
        (i \in 1..Len(L) /\ C[i] = L[i]) \/ (i - Len(L) \in 1..Len(M) /\ C[i] = M[i - Len(L)])
  BY <1>1, <1>2
<1>4. \A i \in DOMAIN C : C[i].t = 2 => Stored(C[i].h)
  BY <1>2, <1>3
<1> QED
  BY <1>1, <1>4 DEF C

LEMMA FetchReads == ASSUME RInv, Fetch PROVE Origin' /\ Ahead'
<1>1. /\ rpc = "walk" /\ ToFetch /\ server <= NServers /\ server \in Servers
      /\ UNCHANGED <<world, sha, store, roots>>
  BY DEF Fetch, world, ToFetch, RInv, OInv, TInv, ReadType, Servers
<1>2. CASE /\ Head(todo).h \in store[server]
           /\ todo' = sha[Head(todo).h] \o Tail(todo) /\ server' = 1
           /\ UNCHANGED <<rpc, data, pos, got, out, result, fault>>
  <2> DEFINE L == sha[Head(todo).h]
  <2>1. Stored(Head(todo).h) /\ Head(todo).h \in Hashes
    BY <1>1, <1>2 DEF Stored, RInv, OInv, TInv, WorldType
  <2>2. L \in Seq(Links) /\ \A i \in DOMAIN L : L[i].t = 2 => Stored(L[i].h)
    BY <2>1, ElementOfSeq DEF RInv, OInv, ChildrenFirst, TInv, WorldType, Hashes
  <2>3. /\ Tail(todo) \in Seq(Links)
        /\ \A i \in DOMAIN Tail(todo) : Tail(todo)[i].t = 2 => Stored(Tail(todo)[i].h)
    BY <1>1, TailLinks, TodoParts DEF RInv, Ahead, OInv, ToFetch
  <2>4. /\ todo' \in Seq(Links)
        /\ \A i \in DOMAIN todo' : todo'[i].t = 2 => Stored(todo'[i].h)
    BY <1>2, <2>2, <2>3, ConcatLinks
  <2>5. ASSUME todo' # <<>>, Head(todo').t = 2
        PROVE  \E i \in 1..NServers : Head(todo').h \in store[i]
    BY <2>4, <2>5, NextLink
  <2>6. Origin'
    BY <1>1, <1>2 DEF RInv, Origin
  <2> QED
    BY <1>1, <1>2, <2>4, <2>5, <2>6 DEF RInv, Ahead, ToFetch, Stored
<1>3. CASE /\ server' = server + 1
           /\ fault' = (fault \/ Head(todo).h \in store[server])
           /\ UNCHANGED <<rpc, data, pos, got, todo, out, result>>
  <2>1. Origin'
    BY <1>1, <1>3 DEF RInv, Origin
  <2>2. ASSUME ~fault' PROVE \E i \in (server + 1)..NServers : Head(todo).h \in store[i]
    <3>1. ~fault /\ Head(todo).h \notin store[server]
      BY <1>3, <2>2
    <3>2. PICK i \in server..NServers : Head(todo).h \in store[i]
      BY <1>1, <3>1 DEF RInv, Ahead
    <3>3. i # server /\ server \in Nat /\ NServers \in Nat
      BY <1>1, <3>1, <3>2, HashtreeAssumption DEF Servers
    <3> QED
      BY <3>2, <3>3
  <2> QED
    BY <1>1, <1>3, <2>1, <2>2 DEF RInv, Ahead, ToFetch, Stored
<1>4. CASE EndRead("err")
  BY <1>1, <1>4, EndedReads
<1> QED
  BY <1>2, <1>3, <1>4 DEF Fetch

LEMMA ReadStep == ASSUME OneHash(Nat), RInv, [Next]_vars PROVE RInv'
<1>1. OInv' /\ PInv'
  BY OrderStep, ParserStep DEF RInv
<1> SUFFICES Upload' /\ Origin' /\ Ahead'
  BY <1>1 DEF RInv
<1>2. ASSUME builds < Len(Inputs), NEW I \in Inputs[builds + 1], Begin(I)
      PROVE  Upload' /\ UNCHANGED <<readVars, roots>>
  BY <1>2, OtherUpload DEF Begin
<1>3. ASSUME NEW r \in roots, NEW H \in Headers, Open(r.root, H)
      PROVE  Upload' /\ Origin' /\ Ahead'
  BY <1>3, OpenReads, OtherUpload DEF Open, buildVars
<1>4. CASE Chunk
  BY <1>4, ChunkUpload, PublisherReads DEF Chunk
<1>5. CASE Put
  <2>1. EndBuild \/ UNCHANGED <<bpc, next, level, all>>
    BY <1>5 DEF Put
  <2> QED
    BY <1>5, <2>1, OtherUpload, PublisherReads DEF Put
<1>6. CASE Publish
  BY <1>6, OtherUpload, PublishReads DEF Publish
<1>7. CASE Crash
  BY <1>7, OtherUpload, PublisherReads DEF Crash, world
<1>8. CASE Read
  <2>1. Upload'
    BY <1>8, OtherUpload DEF Read, Parse, Keep, Fetch, Return, buildVars
  <2>2. CASE Return
    BY <2>1, <2>2, EndedReads DEF Return
  <2>3. CASE Parse \/ Keep \/ Fetch
    BY <2>1, <2>3, ParseReads, KeepReads, FetchReads
  <2> QED
    BY <1>8, <2>2, <2>3 DEF Read
<1>9. CASE UNCHANGED vars
  BY <1>9, OtherUpload, PublisherReads DEF vars, world, buildVars
<1> QED
  BY <1>2, <1>3, <1>4, <1>5, <1>6, <1>7, <1>8, <1>9, PublisherReads DEF Next, Build

(* If an nhash has one hash, a read of a published tree fails only when a  *)
(* server does not give a node that it has: every node of the tree is on   *)
(* a server before the root is published, and all the servers are asked.   *)
THEOREM ReadsSucceed == OneHash(Nat) => (Spec => ReadSucceeds)
<1> SUFFICES ASSUME OneHash(Nat) PROVE Spec => ReadSucceeds
  OBVIOUS
<1>1. RInv /\ [Next]_vars => RInv'
  BY ReadStep
<1>2. RInv /\ [Next]_vars =>
        [rpc = "walk" /\ result' = "err" /\ ~fault' => \A r \in roots : r.root # got]_vars
  <2> SUFFICES ASSUME RInv, [Next]_vars, rpc = "walk", result' = "err", ~fault'
               PROVE  FALSE
    OBVIOUS
  <2>1. result = "none" /\ \E r \in roots : r.root = got
    BY DEF RInv, Origin
  <2>2. NServers \in Nat /\ Servers # {}
    BY <2>1, HashtreeAssumption DEF RInv, Ahead, Stored
  <2>3. Return
    BY <2>1 DEF Next, Begin, Open, Build, Chunk, Put, Publish, Crash, Read, Parse, Keep,
                Fetch, EndRead, vars, readVars
  <2>4. server > NServers /\ ~fault
    BY <2>3 DEF Return, EndRead
  <2>5. server # 1
    BY <2>2, <2>4 DEF Servers
  <2>6. PICK i \in server..NServers : TRUE
    BY <2>4, <2>5 DEF RInv, Ahead
  <2> QED
    BY <2>2, <2>4, <2>6 DEF RInv, OInv, TInv, ReadType
<1> QED
  BY InitRead, <1>1, <1>2, PTL DEF Spec, ReadSucceeds
-----------------------------------------------------------------------------
(* There is a table of what every node stands for in which the links of a  *)
(* node stand for what the node does; the levels of a tree stand for its   *)
(* entries, and so does a root that is published; and what the reader has  *)
(* found, and what its links stand for, is what its root does.             *)

Known(L) == \A i \in DOMAIN L : L[i].t = 2 => L[i].h \in Hashes

NodesSpell(F) == \A h \in Hashes : F[h] = Flat(F, sha[h])
LevelsSpell(F) == bpc # "idle" => Flat(F, next \o level) \in Sorted(input)
RootsSpell(F) == \A r \in roots : F[r.root] \in Sorted(r.of)
TodoSpells(F) == rpc = "walk" => F[got] = out \o Flat(F, todo)

Spells(F) == NodesSpell(F) /\ LevelsSpell(F) /\ RootsSpell(F) /\ TodoSpells(F)

NodesKnown == \A h \in Hashes : Known(sha[h])

BInv == RInv /\ NodesKnown /\ \E F \in Tables : Spells(F)

LEMMA InitSpells == Init => BInv
<1> SUFFICES ASSUME Init PROVE BInv
  OBVIOUS
<1>1. Hashes = {} /\ roots = {} /\ bpc = "idle" /\ rpc = "idle"
  BY EmptySeq DEF Init, Hashes
<1>2. [n \in Nat |-> <<>>] \in Tables
  BY EmptySeq DEF Tables
<1>3. Spells([n \in Nat |-> <<>>])
  BY <1>1 DEF Spells, NodesSpell, LevelsSpell, RootsSpell, TodoSpells
<1> QED
  BY <1>1, <1>2, <1>3, InitRead DEF BInv, NodesKnown

(* What the actors hold are links to nodes that were built.                *)
LEMMA AllKnown ==
  ASSUME RInv
  PROVE  /\ Known(level) /\ Known(next) /\ Known(todo)
         /\ \A r \in roots : r.root \in Hashes
         /\ rpc = "walk" => got \in Hashes
         /\ Hashes \subseteq Nat
         /\ level \in Seq(Links) /\ next \in Seq(Links) /\ todo \in Seq(Links)
         /\ out \in Seq(Entries)
<1>1. \A i \in 1..Len(all) : all[i] \in Hashes
  BY ElementOfSeq DEF RInv, OInv, TInv, BuildType
<1>2. Known(level) /\ Known(next)
  BY <1>1 DEF RInv, OInv, Order, InFirst, Known
<1>3. Known(todo)
  BY DEF RInv, OInv, Ahead, TInv, WorldType, Stored, Known
<1>4. \A r \in roots : r.root \in Hashes
  BY DEF RInv, OInv, TInv, WorldType
<1>5. NodeLinks \subseteq Links
  BY DEF Links
<1>6. level \in Seq(Links) /\ next \in Seq(Links)
  BY <1>5, SeqMonotonic DEF RInv, OInv, TInv, BuildType
<1>7. Hashes \subseteq Nat
  BY LenProperties DEF Hashes, RInv, OInv, TInv, WorldType
<1> QED
  BY <1>2, <1>3, <1>4, <1>6, <1>7 DEF RInv, OInv, Origin, TInv, ReadType

LEMMA FlatHeadTail ==
  ASSUME NEW F \in Tables, NEW L \in Seq(Links), L # <<>>
  PROVE  Flat(F, L) = Piece(F, Head(L)) \o Flat(F, Tail(L))
<1>1. Head(L) \in Links /\ Tail(L) \in Seq(Links) /\ <<Head(L)>> \in Seq(Links)
  BY HeadTailProperties
<1>2. L = <<Head(L)>> \o Tail(L)
  <2>1. Len(L) \in 1..Len(L) /\ 1 \in 1..Len(L)
    BY EmptySeq, LenProperties
  <2>2. SubSeq(L, 1, Len(L)) = <<L[1]>> \o SubSeq(L, 1 + 1, Len(L))
    BY <2>1, SubSeqRecursiveFirst
  <2>3. SubSeq(L, 1, Len(L)) = L /\ Tail(L) = SubSeq(L, 2, Len(L)) /\ Head(L) = L[1]
    BY SubSeqFull, TailIsSubSeq
  <2> QED
    BY <2>2, <2>3
<1>3. Flat(F, <<Head(L)>> \o Tail(L)) = Flat(F, <<Head(L)>>) \o Flat(F, Tail(L))
  BY <1>1, FlatConcat
<1> QED
  BY <1>1, <1>2, <1>3, FlatOne

LEMMA BeginSpells ==
  ASSUME RInv, builds < Len(Inputs), NEW I \in Inputs[builds + 1], Begin(I),
         NEW F \in Tables, Spells(F)
  PROVE  Spells(F)'
<1>1. /\ bpc = "idle" /\ input' = I /\ level' \in Sorted(I)
      /\ UNCHANGED <<sha, roots, next, rpc, got, out, todo>>
  BY DEF Begin, readVars
<1>2. builds + 1 \in 1..Len(Inputs)
  BY HashtreeAssumption, LenProperties DEF RInv, OInv, TInv, WorldType
<1>3. I \in Seq(Entries)
  BY <1>2, HashtreeAssumption, ElementOfSeq
<1>4. level' \in Seq(Entries) /\ Flat(F, level') = level'
  BY <1>1, <1>3, SortedType, FlatEntries
<1>5. next' \o level' = level'
  BY <1>1, <1>4, ConcatEmptySeq DEF RInv, Upload
<1> QED
  BY <1>1, <1>4, <1>5 DEF Spells, NodesSpell, LevelsSpell, RootsSpell, TodoSpells, Hashes

(* The level is what the chunk takes and what it leaves.                   *)
LEMMA ChunkSplits ==
  ASSUME TInv
  PROVE  LET k == Least(MaxLinks, Len(level)) IN
         SubSeq(level, 1, k) \o SubSeq(level, k + 1, Len(level)) = level
<1> DEFINE k == Least(MaxLinks, Len(level))
<1>1. level \in Seq(Links) /\ Len(level) \in Nat /\ MaxLinks \in Nat
  BY LenProperties, HashtreeAssumption DEF TInv, BuildType
<1>2. /\ 1 \in 1..(Len(level) + 1) /\ k \in (1 - 1)..Len(level)
      /\ Len(level) \in k..Len(level)
  BY <1>1 DEF Least
<1> HIDE DEF k
<1>3. SubSeq(level, 1, k) \o SubSeq(level, k + 1, Len(level)) = SubSeq(level, 1, Len(level))
  BY <1>1, <1>2, ConcatAdjacentSubSeq
<1> QED
  BY <1>1, <1>3, SubSeqFull DEF k

LEMMA ChunkSpells == ASSUME BInv, Chunk PROVE NodesKnown' /\ \E F \in Tables : Spells(F)'
<1> DEFINE k == Least(MaxLinks, Len(level))
           L == SubSeq(level, 1, k)
           rest == SubSeq(level, k + 1, Len(level))
<1>1. PICK h \in 1..(Len(sha) + 1) :
        LET up == Append(next, [h |-> h, n |-> 0, t |-> 2]) IN
        /\ Hash(L, h)
        /\ all' = Append(all, h)
        /\ \/ rest # <<>> /\ level' = rest /\ next' = up /\ UNCHANGED bpc
           \/ /\ rest = <<>> /\ level' = up /\ next' = <<>>
              /\ bpc' = IF Len(up) > 1 THEN "build" ELSE "upload"
  BY DEF Chunk
<1> DEFINE link == [h |-> h, n |-> 0, t |-> 2]
<1>2. bpc = "build" /\ UNCHANGED <<roots, input, rpc, got, out, todo>>
  BY DEF Chunk, readVars
<1>3. TInv /\ RInv
  BY DEF BInv, RInv, OInv
<1>4. /\ L \in Seq(Links) /\ rest \in Seq(Links) /\ L \o rest = level
      /\ \A i \in DOMAIN L : i \in 1..Len(level) /\ L[i] = level[i]
      /\ DOMAIN level = 1..Len(level)
  BY <1>3, ChunkParts, ChunkSplits, LenProperties DEF TInv, BuildType
<1>5. Known(rest)
  <2>1. \A i \in DOMAIN rest : \E j \in 1..Len(level) : rest[i] = level[j]
    BY <1>3, ChunkParts
  <2>2. Known(level)
    BY <1>3, AllKnown
  <2> HIDE DEF rest
  <2>3. ASSUME NEW i \in DOMAIN rest
        PROVE  rest[i].t = 2 => rest[i].h \in Hashes
    <3>1. PICK j \in DOMAIN level : rest[i] = level[j]
      BY <1>4, <2>1, <2>3
    <3> QED
      BY <2>2, <3>1 DEF Known
  <2> QED
    BY <2>3 DEF Known
<1> HIDE DEF L, rest
<1>6. Known(L)
  BY <1>3, <1>4, AllKnown DEF Known
<1>7. /\ \A x \in Hashes : sha'[x] = sha[x]
      /\ Hashes \subseteq Hashes' /\ sha'[h] = L /\ h \in Hashes'
  BY <1>1, <1>3, <1>4, HashStep DEF TInv, WorldType
<1>8. h \in Nat /\ Hashes' \subseteq Hashes \cup {h} /\ (h \in Hashes => sha[h] = L)
  <2>1. Len(sha) \in Nat
    BY <1>3, LenProperties DEF TInv, WorldType
  <2>2. CASE h \in Hashes /\ sha[h] = L /\ UNCHANGED sha
    BY <2>1, <2>2 DEF Hashes
  <2>3. CASE h = Len(sha) + 1 /\ sha' = Append(sha, L)
    <3>1. Len(sha') = Len(sha) + 1
      BY <1>3, <1>4, <2>3, AppendProperties DEF TInv, WorldType
    <3> QED
      BY <2>1, <2>3, <3>1 DEF Hashes
  <2> QED
    BY <1>1, <2>2, <2>3 DEF Hash
<1>9. NodesKnown'
  <2>1. \A x : x \in Hashes => x \in Hashes'
    BY <1>7
  <2> SUFFICES ASSUME NEW x \in Hashes' PROVE Known(sha[x])'
    BY DEF NodesKnown
  <2>2. CASE x \in Hashes
    BY <1>7, <2>1, <2>2 DEF BInv, NodesKnown, Known
  <2>3. CASE x = h
    BY <1>6, <1>7, <2>1, <2>3 DEF Known
  <2> QED
    BY <1>8, <2>2, <2>3
<1>10. PICK F \in Tables : Spells(F)
  BY DEF BInv
<1>11. PICK G \in Tables : G[h] = Flat(F, L) /\ \A x \in Nat : x # h => G[x] = F[x]
  <2> DEFINE E == [F EXCEPT ![h] = Flat(F, L)]
  <2>1. E \in Tables /\ E[h] = Flat(F, L) /\ \A x \in Nat : x # h => E[x] = F[x]
    BY <1>4, <1>8, <1>10, FlatType DEF Tables
  <2> QED
    BY <2>1
<1>12. \A x \in Hashes : G[x] = F[x]
  BY <1>3, <1>8, <1>10, <1>11, AllKnown DEF Spells, NodesSpell
<1>13. ASSUME NEW M \in Seq(Links), Known(M) PROVE Flat(G, M) = Flat(F, M)
  BY <1>10, <1>11, <1>12, <1>13, FlatSame DEF Known
<1>14. NodesSpell(G)'
  <2> SUFFICES ASSUME NEW x \in Hashes' PROVE G[x] = Flat(G, sha'[x])
    BY DEF NodesSpell
  <2>1. CASE x \in Hashes
    <3>1. sha[x] \in Seq(Links) /\ Known(sha[x])
      BY <1>3, <2>1, ElementOfSeq DEF TInv, WorldType, Hashes, BInv, NodesKnown
    <3> QED
      BY <1>7, <1>10, <1>12, <1>13, <2>1, <3>1 DEF Spells, NodesSpell
  <2>2. CASE x = h
    BY <1>4, <1>6, <1>7, <1>11, <1>13, <2>2
  <2> QED
    BY <1>8, <2>1, <2>2
<1>15. Flat(G, next' \o level') = Flat(F, next \o level)
  <2>1. /\ next \in Seq(Links) /\ link \in Links
        /\ Append(next, link) \in Seq(Links) /\ Append(next, link) \o rest \in Seq(Links)
    <3>1. next \in Seq(Links) /\ link \in Links
      BY <1>3, <1>8, AllKnown DEF Links, NodeLinks
    <3> QED
      BY <1>4, <3>1, AppendProperties, ConcatProperties
  <2>2. next' \o level' = Append(next, link) \o rest
    <3>1. Append(next, link) \o <<>> = <<>> \o Append(next, link)
      BY <2>1, ConcatEmptySeq
    <3> QED
      BY <1>1, <3>1
  <2>3. /\ Flat(F, next) \in Seq(Entries) /\ Flat(F, L) \in Seq(Entries)
        /\ Flat(F, rest) \in Seq(Entries)
    BY <1>4, <1>10, <2>1, FlatType
  <2>4. Flat(G, Append(next, link)) = Flat(F, next) \o Flat(F, L)
    <3>1. Flat(G, Append(next, link)) = Flat(G, next) \o Piece(G, link)
      BY <1>11, <2>1, FlatAppend
    <3>2. Piece(G, link) = Flat(F, L)
      BY <1>11 DEF Piece
    <3>3. Flat(G, next) = Flat(F, next)
      BY <1>3, <1>13, <2>1, AllKnown
    <3> QED
      BY <3>1, <3>2, <3>3
  <2>5. Flat(G, Append(next, link) \o rest) = (Flat(F, next) \o Flat(F, L)) \o Flat(F, rest)
    <3>1. Flat(G, rest) = Flat(F, rest)
      BY <1>4, <1>5, <1>13
    <3>2. Flat(G, Append(next, link) \o rest) = Flat(G, Append(next, link)) \o Flat(G, rest)
      BY <1>4, <2>1, FlatConcat
    <3> QED
      BY <2>4, <3>1, <3>2
  <2>6. Flat(F, next \o level) = Flat(F, next) \o (Flat(F, L) \o Flat(F, rest))
    <3>1. Flat(F, level) = Flat(F, L) \o Flat(F, rest)
      BY <1>4, <1>10, FlatConcat
    <3>2. level \in Seq(Links)
      BY <1>3, AllKnown
    <3>3. Flat(F, next \o level) = Flat(F, next) \o Flat(F, level)
      BY <2>1, <3>2, FlatConcat
    <3> QED
      BY <3>1, <3>3
  <2>7. (Flat(F, next) \o Flat(F, L)) \o Flat(F, rest)
          = Flat(F, next) \o (Flat(F, L) \o Flat(F, rest))
    BY <2>3, EntriesAssociate
  <2> QED
    BY <2>2, <2>5, <2>6, <2>7
<1>16. LevelsSpell(G)'
  BY <1>2, <1>10, <1>15 DEF LevelsSpell, Spells
<1>17. RootsSpell(G)'
  BY <1>2, <1>3, <1>10, <1>12, AllKnown DEF RootsSpell, Spells
<1>18. TodoSpells(G)'
  <2>1. CASE rpc = "walk"
    BY <1>2, <1>3, <1>10, <1>12, <1>13, <2>1, AllKnown DEF TodoSpells, Spells
  <2> QED
    BY <1>2, <2>1 DEF TodoSpells
<1> QED
  BY <1>9, <1>11, <1>14, <1>16, <1>17, <1>18 DEF Spells

(* The publisher's other steps, and those of other readers.                *)
LEMMA SameNodes ==
  ASSUME NodesKnown, UNCHANGED sha, NEW F, NodesSpell(F)
  PROVE  NodesKnown' /\ NodesSpell(F)'
BY DEF NodesKnown, NodesSpell, Known, Hashes

LEMMA PublishSpells ==
  ASSUME RInv, Publish, NEW F \in Tables, Spells(F)
  PROVE  LevelsSpell(F)' /\ RootsSpell(F)' /\ TodoSpells(F)'
<1>1. /\ bpc = "upload" /\ bpc' = "idle"
      /\ roots' = roots \cup {[root |-> all[Len(all)], of |-> input]}
      /\ UNCHANGED <<rpc, got, out, todo>>
  BY DEF Publish, EndBuild, readVars
<1> DEFINE link == [h |-> all[Len(all)], n |-> 0, t |-> 2]
<1>2. next = <<>> /\ level = <<link>> /\ link \in Links
  <2>1. next = <<>> /\ level = <<link>>
    BY <1>1 DEF RInv, Upload
  <2>2. level \in Seq(Links) /\ Len(<<link>>) = 1 /\ <<link>>[1] = link
    BY AllKnown
  <2> QED
    BY <2>1, <2>2, ElementOfSeq
<1>3. Flat(F, next \o level) = F[all[Len(all)]]
  <2>1. next \o level = <<link>>
    BY <1>2, ConcatEmptySeq
  <2> QED
    BY <1>2, <2>1, FlatOne DEF Piece
<1>4. F[all[Len(all)]] \in Sorted(input)
  BY <1>1, <1>3 DEF Spells, LevelsSpell
<1>5. RootsSpell(F)'
  BY <1>1, <1>4 DEF Spells, RootsSpell
<1> QED
  BY <1>1, <1>5 DEF Spells, LevelsSpell, TodoSpells

LEMMA PublisherSpells ==
  ASSUME RInv, Put \/ Crash \/ (\E r, H : Open(r, H)) \/ UNCHANGED vars,
         NEW F, Spells(F)
  PROVE  LevelsSpell(F)' /\ RootsSpell(F)' /\ TodoSpells(F)'
<1>1. UNCHANGED roots
  BY DEF Put, Crash, Open, vars, world
<1>2. UNCHANGED <<bpc, next, level, input>> \/ bpc' = "idle"
  BY DEF Put, Crash, Open, EndBuild, vars, buildVars
<1>3. UNCHANGED <<rpc, got, out, todo>> \/ rpc' = "parse"
  BY DEF Put, Crash, Open, vars, readVars
<1> QED
  BY <1>1, <1>2, <1>3 DEF Spells, LevelsSpell, RootsSpell, TodoSpells

(* The reader's steps.                                                     *)
LEMMA ParseSpells ==
  ASSUME RInv, RInv', Parse, NEW F \in Tables, Spells(F) PROVE TodoSpells(F)'
<1>1. rpc = "parse" /\ out = <<>>
  BY DEF Parse, RInv, Origin
<1>2. CASE Root(data[pos + 3])
  <2>1. out' = <<>> /\ todo' = <<[h |-> got', n |-> 0, t |-> 2]>> /\ got' \in Nat
    BY <1>1, <1>2 DEF Root, RInv, OInv, TInv, ReadType
  <2>2. [h |-> got', n |-> 0, t |-> 2] \in Links
    BY <2>1 DEF Links, NodeLinks
  <2>3. Flat(F, todo') = F[got']
    BY <2>1, <2>2, FlatOne DEF Piece
  <2>4. F[got'] \in Seq(Entries)
    BY <2>1 DEF Tables
  <2> QED
    BY <2>1, <2>3, <2>4, ConcatEmptySeq DEF TodoSpells
<1>3. CASE rpc' # "walk"
  BY <1>3 DEF TodoSpells
<1> QED
  BY <1>1, <1>2, <1>3 DEF Parse, EndRead

LEMMA KeepSpells ==
  ASSUME RInv, Keep, NEW F \in Tables, Spells(F) PROVE TodoSpells(F)'
<1>1. /\ rpc = "walk" /\ todo # <<>> /\ Head(todo).t = 0 /\ got' = got
      /\ out' = Append(out, Head(todo)) /\ todo' = Tail(todo)
  BY DEF Keep
<1>2. /\ Head(todo) \in Entries /\ Tail(todo) \in Seq(Links) /\ todo \in Seq(Links)
      /\ out \in Seq(Entries)
  BY <1>1, TodoParts DEF RInv, OInv, TInv, ReadType
<1>3. Flat(F, todo) = <<Head(todo)>> \o Flat(F, Tail(todo))
  BY <1>1, <1>2, FlatHeadTail DEF Piece
<1>4. out' = out \o <<Head(todo)>> /\ <<Head(todo)>> \in Seq(Entries)
  BY <1>1, <1>2, AppendIsConcat
<1>5. (out \o <<Head(todo)>>) \o Flat(F, Tail(todo))
        = out \o (<<Head(todo)>> \o Flat(F, Tail(todo)))
  BY <1>2, <1>4, FlatType, ConcatAssociative
<1> QED
  BY <1>1, <1>3, <1>4, <1>5 DEF Spells, TodoSpells

LEMMA FetchSpells ==
  ASSUME RInv, Fetch, NEW F \in Tables, Spells(F) PROVE TodoSpells(F)'
<1>1. rpc = "walk" /\ todo # <<>> /\ Head(todo).t = 2 /\ server \in Servers
  BY HashtreeAssumption DEF Fetch, RInv, OInv, TInv, ReadType, Servers
<1>2. CASE /\ Head(todo).h \in store[server]
           /\ todo' = sha[Head(todo).h] \o Tail(todo)
           /\ UNCHANGED <<rpc, got, out>>
  <2>1. Tail(todo) \in Seq(Links) /\ todo \in Seq(Links)
    BY <1>1, TodoParts DEF RInv, OInv, TInv, ReadType
  <2>2. Head(todo).h \in Hashes
    BY <1>1, <1>2 DEF RInv, OInv, TInv, WorldType
  <2>3. sha[Head(todo).h] \in Seq(Links)
    BY <2>2, ElementOfSeq DEF RInv, OInv, TInv, WorldType, Hashes
  <2>4. F[Head(todo).h] = Flat(F, sha[Head(todo).h])
    BY <2>2 DEF Spells, NodesSpell
  <2>5. Flat(F, todo) = F[Head(todo).h] \o Flat(F, Tail(todo))
    <3>1. Flat(F, todo) = Piece(F, Head(todo)) \o Flat(F, Tail(todo))
      BY <1>1, <2>1, FlatHeadTail
    <3>2. Piece(F, Head(todo)) = F[Head(todo).h]
      BY <1>1 DEF Piece
    <3> QED
      BY <3>1, <3>2
  <2>6. Flat(F, todo') = Flat(F, sha[Head(todo).h]) \o Flat(F, Tail(todo))
    BY <1>2, <2>1, <2>3, FlatConcat
  <2> QED
    BY <1>1, <1>2, <2>4, <2>5, <2>6 DEF Spells, TodoSpells
<1>3. CASE UNCHANGED <<rpc, got, out, todo>> \/ rpc' # "walk"
  BY <1>3 DEF Spells, TodoSpells
<1> QED
  BY <1>2, <1>3 DEF Fetch, EndRead

LEMMA ReturnSpells == ASSUME Return, NEW F PROVE TodoSpells(F)'
BY DEF Return, EndRead, TodoSpells

LEMMA SpellStep == ASSUME OneHash(Nat), BInv, [Next]_vars PROVE BInv'
<1>1. RInv'
  BY ReadStep DEF BInv
<1> SUFFICES NodesKnown' /\ \E F \in Tables : Spells(F)'
  BY <1>1 DEF BInv
<1>2. CASE Chunk
  BY <1>2, ChunkSpells
<1>3. CASE ~Chunk
  <2>0. UNCHANGED sha
    BY <1>3 DEF Next, Begin, Open, Build, Put, Publish, Crash, Read, Parse, Keep, Fetch,
                Return, world, vars
  <2>1. PICK F \in Tables : Spells(F)
    BY DEF BInv
  <2>2. NodesKnown' /\ NodesSpell(F)'
    BY <2>0, <2>1, SameNodes DEF BInv, Spells
  <2> SUFFICES Spells(F)'
    BY <2>2
  <2>3. ASSUME builds < Len(Inputs), NEW I \in Inputs[builds + 1], Begin(I)
        PROVE  Spells(F)'
    BY <2>1, <2>3, BeginSpells DEF BInv
  <2>4. CASE Put \/ Crash \/ (\E r, H : Open(r, H)) \/ UNCHANGED vars
    BY <2>1, <2>2, <2>4, PublisherSpells DEF BInv, Spells
  <2>5. CASE Publish
    BY <2>1, <2>2, <2>5, PublishSpells DEF BInv, Spells
  <2>6. CASE Read
    <3>1. TodoSpells(F)'
      BY <1>1, <2>1, <2>6, ParseSpells, KeepSpells, FetchSpells, ReturnSpells DEF BInv, Read
    <3>2. UNCHANGED <<roots, bpc, next, level, input>>
      BY <2>6 DEF Read, Parse, Keep, Fetch, Return, world, buildVars
    <3> QED
      BY <2>1, <2>2, <3>1, <3>2 DEF Spells, LevelsSpell, RootsSpell
  <2> QED
    BY <1>3, <2>3, <2>4, <2>5, <2>6 DEF Next, Build
<1> QED
  BY <1>2, <1>3

(* If an nhash has one hash, a read that succeeds gives the entries that   *)
(* the tree with this root was built from, in the order of their names:    *)
(* whatever the size of the tree and of its nodes, however many trees have *)
(* nodes in common, whatever the servers answer and wherever a publisher   *)
(* stopped.                                                                *)
THEOREM ReadsBack == OneHash(Nat) => (Spec => ReadBack)
<1> SUFFICES ASSUME OneHash(Nat) PROVE Spec => ReadBack
  OBVIOUS
<1>1. BInv /\ [Next]_vars => BInv'
  BY SpellStep
<1>2. BInv /\ [Next]_vars =>
        [rpc = "walk" /\ result' = "ok" =>
           \E r \in roots : r.root = got /\ out \in Sorted(r.of)]_vars
  <2> SUFFICES ASSUME BInv, [Next]_vars, rpc = "walk", result' = "ok"
               PROVE  \E r \in roots : r.root = got /\ out \in Sorted(r.of)
    OBVIOUS
  <2>1. result = "none" /\ \E r \in roots : r.root = got
    BY DEF BInv, RInv, Origin
  <2>2. Return
    BY <2>1 DEF Next, Begin, Open, Build, Chunk, Put, Publish, Crash, Read, Parse, Keep,
                Fetch, EndRead, vars, readVars
  <2>3. todo = <<>>
    BY <2>2 DEF Return, EndRead
  <2>4. PICK F \in Tables : Spells(F)
    BY DEF BInv
  <2>5. F[got] = out \o <<>>
    BY <2>3, <2>4, FlatEmpty DEF Spells, TodoSpells
  <2>6. out \o <<>> = out
    BY AllKnown, ConcatEmptySeq DEF BInv
  <2> QED
    BY <2>1, <2>4, <2>5, <2>6 DEF Spells, RootsSpell
<1> QED
  BY InitSpells, <1>1, <1>2, PTL DEF Spec, ReadBack
=============================================================================
