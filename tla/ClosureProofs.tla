---------------------------- MODULE ClosureProofs ----------------------------
(***************************************************************************)
(* What resolve returns, for every store directory and every list of       *)
(* inputs: the closure (Lists) with dependencies first (Ordered).          *)
(***************************************************************************)
EXTENDS Closure, FiniteSetTheorems, TLAPS

-----------------------------------------------------------------------------
(* Sequences.                                                              *)

(* Appending adds one element.                                             *)
LEMMA ElementsAppend ==
  ASSUME NEW S, NEW s \in Seq(S), NEW x \in S
  PROVE  /\ Append(s, x) \in Seq(S)
         /\ Elements(Append(s, x)) = Elements(s) \cup {x}
<1>1. /\ Append(s, x) \in Seq(S)
      /\ DOMAIN Append(s, x) = 1..(Len(s) + 1)
      /\ \A i \in 1..Len(s) : Append(s, x)[i] = s[i]
      /\ Append(s, x)[Len(s) + 1] = x
      /\ DOMAIN s = 1..Len(s) /\ Len(s) \in Nat
  OBVIOUS
<1>2. ASSUME NEW y \in Elements(Append(s, x)) PROVE y \in Elements(s) \cup {x}
  <2>1. PICK i \in 1..(Len(s) + 1) : y = Append(s, x)[i]
    BY <1>1 DEF Elements
  <2>2. CASE i = Len(s) + 1
    BY <1>1, <2>1, <2>2
  <2>3. CASE i \in 1..Len(s)
    BY <1>1, <2>1, <2>3 DEF Elements
  <2> QED
    BY <1>1, <2>1, <2>2, <2>3
<1>3. ASSUME NEW y \in Elements(s) PROVE y \in Elements(Append(s, x))
  <2>1. PICK i \in 1..Len(s) : y = s[i]
    BY <1>1 DEF Elements
  <2>2. i \in 1..(Len(s) + 1) /\ Append(s, x)[i] = y
    BY <1>1, <2>1
  <2> QED
    BY <1>1, <2>2 DEF Elements
<1>4. x \in Elements(Append(s, x))
  <2>1. Len(s) + 1 \in 1..(Len(s) + 1)
    BY <1>1
  <2> QED
    BY <1>1, <2>1 DEF Elements
<1> QED
  BY <1>1, <1>2, <1>3, <1>4

(* A nonempty sequence is its front and its last element.                  *)
LEMMA ElementsFront ==
  ASSUME NEW S, NEW s \in Seq(S), s # <<>>
  PROVE  /\ Last(s) \in S /\ Len(s) \in Nat \ {0}
         /\ Front(s) \in Seq(S)
         /\ Len(Front(s)) = Len(s) - 1
         /\ \A i \in 1..(Len(s) - 1) : Front(s)[i] = s[i]
         /\ Elements(s) = Elements(Front(s)) \cup {Last(s)}
<1>1. /\ Len(s) \in Nat \ {0} /\ DOMAIN s = 1..Len(s)
      /\ \A i \in 1..Len(s) : s[i] \in S
  OBVIOUS
<1>2. Last(s) \in S
  BY <1>1 DEF Last
<1>3. /\ Front(s) \in Seq(S)
      /\ Len(Front(s)) = Len(s) - 1
      /\ \A i \in 1..(Len(s) - 1) : Front(s)[i] = s[i]
      /\ DOMAIN Front(s) = 1..(Len(s) - 1)
  BY <1>1 DEF Front
<1>4. ASSUME NEW y \in Elements(s) PROVE y \in Elements(Front(s)) \cup {Last(s)}
  <2>1. PICK i \in 1..Len(s) : y = s[i]
    BY <1>1 DEF Elements
  <2>2. CASE i = Len(s)
    BY <2>1, <2>2 DEF Last
  <2>3. CASE i # Len(s)
    <3>0. i \in Int /\ i >= 1 /\ i <= Len(s) /\ Len(s) \in Int
      BY <1>1
    <3>1. i \in 1..(Len(s) - 1)
      BY <2>3, <3>0
    <3> QED
      BY <1>3, <2>1, <3>1 DEF Elements
  <2> QED
    BY <2>2, <2>3
<1>5. ASSUME NEW y \in Elements(Front(s)) PROVE y \in Elements(s)
  <2>1. PICK i \in 1..(Len(s) - 1) : y = Front(s)[i]
    BY <1>3 DEF Elements
  <2>2. i \in 1..Len(s) /\ s[i] = y
    BY <1>1, <1>3, <2>1
  <2> QED
    BY <1>1, <2>2 DEF Elements
<1>6. Last(s) \in Elements(s)
  BY <1>1 DEF Elements, Last
<1> QED
  BY <1>1, <1>2, <1>3, <1>4, <1>5, <1>6

(* Concatenation joins the elements.                                       *)
LEMMA ElementsConcat ==
  ASSUME NEW S, NEW s \in Seq(S), NEW t \in Seq(S)
  PROVE  /\ s \o t \in Seq(S)
         /\ Elements(s \o t) = Elements(s) \cup Elements(t)
<1>1. /\ s \o t \in Seq(S)
      /\ DOMAIN (s \o t) = 1..(Len(s) + Len(t))
      /\ \A i \in 1..Len(s) : (s \o t)[i] = s[i]
      /\ \A i \in 1..Len(t) : (s \o t)[Len(s) + i] = t[i]
      /\ DOMAIN s = 1..Len(s) /\ Len(s) \in Nat
      /\ DOMAIN t = 1..Len(t) /\ Len(t) \in Nat
  OBVIOUS
<1>2. ASSUME NEW y \in Elements(s \o t) PROVE y \in Elements(s) \cup Elements(t)
  <2>1. PICK i \in 1..(Len(s) + Len(t)) : y = (s \o t)[i]
    BY <1>1 DEF Elements
  <2>2. CASE i \in 1..Len(s)
    BY <1>1, <2>1, <2>2 DEF Elements
  <2>3. CASE i > Len(s)
    <3>1. i - Len(s) \in 1..Len(t) /\ Len(s) + (i - Len(s)) = i
      BY <1>1, <2>1, <2>3
    <3>2. y = t[i - Len(s)]
      BY <1>1, <2>1, <3>1
    <3> QED
      BY <1>1, <3>1, <3>2 DEF Elements
  <2> QED
    BY <1>1, <2>1, <2>2, <2>3
<1>3. ASSUME NEW y \in Elements(s) PROVE y \in Elements(s \o t)
  <2>1. PICK i \in 1..Len(s) : y = s[i]
    BY <1>1 DEF Elements
  <2>2. i \in 1..(Len(s) + Len(t)) /\ (s \o t)[i] = y
    BY <1>1, <2>1
  <2> QED
    BY <1>1, <2>2 DEF Elements
<1>4. ASSUME NEW y \in Elements(t) PROVE y \in Elements(s \o t)
  <2>1. PICK i \in 1..Len(t) : y = t[i]
    BY <1>1 DEF Elements
  <2>2. Len(s) + i \in 1..(Len(s) + Len(t)) /\ (s \o t)[Len(s) + i] = y
    BY <1>1, <2>1
  <2> QED
    BY <1>1, <2>2 DEF Elements
<1> QED
  BY <1>1, <1>2, <1>3, <1>4

(* What lists a finite set is a sequence of its elements.                  *)
LEMMA ListingType ==
  ASSUME NEW S, IsFiniteSet(S), NEW s \in Listings(S)
  PROVE  s \in Seq(S) /\ Elements(s) = S
<1>1. s \in [1..Cardinality(S) -> S] /\ Elements(s) = S
  BY DEF Listings
<1>2. Cardinality(S) \in Nat
  BY FS_CardinalityType
<1> QED
  BY <1>1, <1>2

-----------------------------------------------------------------------------
(* The closure by definition holds the inputs and what its members refer to*)
(* and is the least set that does.                                         *)
LEMMA ReachableIsClosed ==
  ASSUME content \in Graphs, Elements(inputs) \subseteq Store
  PROVE  /\ IsClosed(Reachable)
         /\ \A C \in SUBSET Store : IsClosed(C) => Reachable \subseteq C
<1>1. \A h \in Store : References(h) \subseteq Store
  BY GraphAssumption DEF References, Store
<1>2. Elements(inputs) \subseteq Reachable
  BY DEF Reachable, IsClosed
<1>3. \A h \in Reachable : References(h) \subseteq Reachable
  BY <1>1 DEF Reachable, IsClosed
<1> QED
  BY <1>2, <1>3 DEF IsClosed, Reachable

-----------------------------------------------------------------------------
(* The inductive invariant.                                                *)

Distinct(s) == \A i, j \in DOMAIN s : s[i] = s[j] => i = j

(* Before the search: nothing is listed.                                   *)
Unsorted == stack = <<>> /\ ordered = <<>> /\ seen = {} /\ next = 1

(* What was scanned and what is still to be scanned: together they hold the*)
(* inputs and the references of what was scanned, and no more than the     *)
(* closure.                                                                *)
ScanInv ==
  /\ closure = [h \in visited |-> References(h)]
  /\ pc = "read" => visited = {}
  /\ pc \in {"sort", "done"} => worklist = <<>>
  /\ pc \in {"scan", "sort", "done"} =>
       /\ Elements(inputs) \subseteq Store
       /\ Elements(inputs) \subseteq visited \cup Elements(worklist)
       /\ \A h \in visited : References(h) \subseteq visited \cup Elements(worklist)
       /\ visited \cup Elements(worklist) \subseteq Reachable

(* The search: a path that was seen is listed or on the stack, once; its   *)
(* references were seen but for those in rest; and each path on the stack  *)
(* is referred to by the one below.                                        *)
SortInv ==
  /\ pc \in {"read", "scan"} => Unsorted
  /\ pc \in {"sort", "done"} =>
       /\ DOMAIN rest = visited
       /\ seen = Elements(stack) \cup Elements(ordered)
       /\ seen \subseteq visited
       /\ Elements(stack) \cap Elements(ordered) = {}
       /\ Distinct(stack) /\ Distinct(ordered)
       /\ \A h \in visited : rest[h] \subseteq References(h)
       /\ \A h \in visited : References(h) \ rest[h] \subseteq seen
       /\ \A h \in Elements(ordered) : References(h) \subseteq seen
       /\ \A i \in DOMAIN inputs : i < next => inputs[i] \in seen
       /\ \A i \in 1..(Len(stack) - 1) : stack[i + 1] \in References(stack[i])
  /\ pc = "done" => stack = <<>> /\ next > Len(inputs)

IInv == TypeOK /\ ScanInv /\ SortInv /\ DependenciesFirst

(* Nothing changes the store directory or the inputs.                      *)
LEMMA Fixed ==
  ASSUME UNCHANGED <<content, inputs>>
  PROVE  /\ Store' = Store /\ Reachable' = Reachable
         /\ \A h : References(h)' = References(h)
         /\ Acyclic' = Acyclic
BY DEF Store, Reachable, IsClosed, References, Acyclic

(* Facts used in every step.                                               *)
LEMMA Basics ==
  ASSUME TypeOK
  PROVE  /\ IsFiniteSet(Store)
         /\ \A h \in Store : References(h) \subseteq Store /\ h \notin References(h)
         /\ inputs \in Seq(Hashes)
<1>1. PICK S \in SUBSET Hashes : content \in [S -> SUBSET S]
  BY GraphAssumption DEF TypeOK
<1>2. Store = S
  BY <1>1 DEF Store
<1>3. IsFiniteSet(S)
  BY FS_Subset, GraphAssumption
<1>4. inputs \in Seq(Hashes)
  BY GraphAssumption DEF TypeOK
<1> QED
  BY <1>1, <1>2, <1>3, <1>4 DEF References

LEMMA InitIInv == Init => IInv
<1> SUFFICES ASSUME Init PROVE IInv
  OBVIOUS
<1>1. TypeOK
  BY DEF Init, TypeOK
<1>2. ScanInv
  BY DEF Init, ScanInv
<1>3. SortInv
  BY DEF Init, SortInv, Unsorted
<1>4. DependenciesFirst
  BY DEF Init, DependenciesFirst
<1> QED
  BY <1>1, <1>2, <1>3, <1>4 DEF IInv

-----------------------------------------------------------------------------
(* The worklist.                                                           *)

(* Reading the store directory.                                            *)
LEMMA ReadStoreStep == IInv /\ ReadStore => IInv'
<1> SUFFICES ASSUME IInv, ReadStore PROVE IInv'
  OBVIOUS
<1> USE DEF IInv
<1>0. Store' = Store /\ Reachable' = Reachable /\ \A h : References(h)' = References(h)
  BY Fixed DEF ReadStore
<1>1. pc = "read" /\ visited = {} /\ Unsorted
  BY DEF ReadStore, ScanInv, SortInv
<1>2. CASE Elements(inputs) \subseteq Store /\ pc' = "scan" /\ worklist' = inputs
  <2>1. inputs \in Seq(Store)
    <3>1. inputs \in Seq(Hashes)
      BY Basics
    <3>2. \A i \in DOMAIN inputs : inputs[i] \in Store
      BY <1>2 DEF Elements
    <3> QED
      BY <3>1, <3>2
  <2>2. TypeOK'
    BY <1>0, <1>2, <2>1 DEF TypeOK, ReadStore, sorting
  <2>3. Elements(inputs) \subseteq Reachable
    BY <1>2, ReachableIsClosed DEF TypeOK, IsClosed
  <2>4. ScanInv'
    BY <1>0, <1>1, <1>2, <2>3 DEF ScanInv, ReadStore, sorting, Elements
  <2> QED
    BY <1>1, <1>2, <2>2, <2>4
      DEF ReadStore, sorting, SortInv, Unsorted, DependenciesFirst
<1>3. CASE pc' = "err" /\ worklist' = worklist
  <2>1. TypeOK'
    BY <1>0, <1>3 DEF TypeOK, ReadStore, sorting
  <2>2. ScanInv'
    BY <1>0, <1>3 DEF ScanInv, ReadStore
  <2> QED
    BY <1>1, <1>3, <2>1, <2>2
      DEF ReadStore, sorting, SortInv, Unsorted, DependenciesFirst
<1> QED
  BY <1>2, <1>3 DEF ReadStore

(* Scanning one path, or dropping one that was scanned before.             *)
LEMMA ScanStep == IInv /\ Scan => IInv'
<1> SUFFICES ASSUME IInv, Scan PROVE IInv'
  OBVIOUS
<1> USE DEF IInv
<1> DEFINE h == Last(worklist)
<1>0. Store' = Store /\ Reachable' = Reachable /\ \A g : References(g)' = References(g)
  BY Fixed DEF Scan
<1>1. pc = "scan" /\ pc' = "scan" /\ Unsorted /\ worklist # <<>>
  BY DEF Scan, SortInv
<1>2. /\ h \in Store
      /\ Front(worklist) \in Seq(Store)
      /\ Elements(worklist) = Elements(Front(worklist)) \cup {h}
  BY <1>1, ElementsFront DEF TypeOK
<1>3. SortInv' /\ DependenciesFirst'
  BY <1>1 DEF Scan, sorting, SortInv, Unsorted, DependenciesFirst
<1>4. CASE h \in visited /\ worklist' = Front(worklist) /\ UNCHANGED <<visited, closure>>
  <2>1. TypeOK'
    BY <1>0, <1>2, <1>4 DEF TypeOK, Scan, sorting
  <2>2. ScanInv'
    BY <1>0, <1>1, <1>2, <1>4 DEF ScanInv, Scan
  <2> QED
    BY <1>3, <2>1, <2>2
<1>5. CASE /\ h \notin visited
           /\ visited' = visited \cup {h}
           /\ closure' = [g \in visited \cup {h} |->
                            IF g = h THEN References(h) ELSE closure[g]]
           /\ \E s \in Listings(References(h) \ visited) :
                worklist' = Front(worklist) \o s
  <2>1. PICK s \in Listings(References(h) \ visited) : worklist' = Front(worklist) \o s
    BY <1>5
  <2>2. References(h) \subseteq Store /\ IsFiniteSet(References(h) \ visited)
    BY <1>2, Basics, FS_Subset
  <2>3. s \in Seq(Store) /\ Elements(s) = References(h) \ visited
    <3>1. s \in Seq(References(h) \ visited) /\ Elements(s) = References(h) \ visited
      BY <2>2, ListingType
    <3>2. References(h) \ visited \subseteq Store
      BY <2>2
    <3> QED
      BY <3>1, <3>2
  <2>4. /\ worklist' \in Seq(Store)
        /\ Elements(worklist') = Elements(Front(worklist)) \cup (References(h) \ visited)
    BY <1>2, <2>1, <2>3, ElementsConcat
  <2>5. closure' = [g \in visited' |-> References(g)]
    BY <1>5 DEF ScanInv
  <2>6. \A g \in visited' : References(g) \subseteq Store
    BY <1>2, <1>5, Basics DEF TypeOK
  <2>7. TypeOK'
    BY <1>0, <1>2, <1>5, <2>4, <2>5, <2>6 DEF TypeOK, Scan, sorting
  <2>8. References(h) \subseteq Reachable /\ h \in Reachable
    BY <1>1, <1>2, ReachableIsClosed DEF TypeOK, ScanInv, IsClosed
  <2>9. visited' \cup Elements(worklist') =
          visited \cup Elements(worklist) \cup References(h)
    BY <1>2, <1>5, <2>4
  <2>10. Elements(worklist)' = Elements(worklist')
    BY DEF Elements
  <2>11. /\ Elements(inputs) \subseteq Store /\ inputs' = inputs
         /\ Elements(inputs) \subseteq visited \cup Elements(worklist)
         /\ \A g \in visited : References(g) \subseteq visited \cup Elements(worklist)
         /\ visited \cup Elements(worklist) \subseteq Reachable
    BY <1>1 DEF ScanInv, Scan
  <2>12. Elements(inputs)' = Elements(inputs)
    BY <2>11 DEF Elements
  <2>13. \A g \in visited' : References(g) \subseteq visited' \cup Elements(worklist')
    BY <1>5, <2>9, <2>11
  <2>14. Elements(inputs) \subseteq visited' \cup Elements(worklist')
    BY <2>9, <2>11
  <2>15. visited' \cup Elements(worklist') \subseteq Reachable
    BY <2>8, <2>9, <2>11
  <2>16. closure' = [g \in visited' |-> References(g)']
    BY <1>0, <2>5
  <2>17. ScanInv'
    BY <1>0, <1>1, <2>10, <2>11, <2>12, <2>13, <2>14, <2>15, <2>16 DEF ScanInv
  <2> QED
    BY <1>3, <2>7, <2>17
<1> QED
  BY <1>4, <1>5 DEF Scan

(* A scan fails.                                                           *)
LEMMA ScanErrorStep == IInv /\ ScanError => IInv'
<1> SUFFICES ASSUME IInv, ScanError PROVE IInv'
  OBVIOUS
<1> USE DEF IInv
<1>0. Store' = Store /\ Reachable' = Reachable /\ \A g : References(g)' = References(g)
  BY Fixed DEF ScanError
<1>1. TypeOK' /\ ScanInv'
  BY <1>0 DEF TypeOK, ScanInv, ScanError, scanning, sorting
<1> QED
  BY <1>0, <1>1 DEF ScanError, scanning, sorting, SortInv, DependenciesFirst, Unsorted

(* The search starts: nothing is on the stack, rest has everything.        *)
LEMMA ScannedStep == IInv /\ Scanned => IInv'
<1> SUFFICES ASSUME IInv, Scanned PROVE IInv'
  OBVIOUS
<1> USE DEF IInv
<1>0. Store' = Store /\ Reachable' = Reachable /\ \A g : References(g)' = References(g)
  BY Fixed DEF Scanned
<1>1. Unsorted /\ pc = "scan" /\ worklist = <<>>
  BY DEF Scanned, SortInv
<1>2. closure = [g \in visited |-> References(g)]
  BY DEF ScanInv
<1>3. TypeOK' /\ ScanInv'
  BY <1>0, <1>1 DEF TypeOK, ScanInv, Scanned, scanning
<1>4. Elements(stack) = {} /\ Elements(ordered) = {}
  BY <1>1 DEF Unsorted, Elements
<1>5. SortInv'
  <2>1. /\ pc' = "sort" /\ rest' = closure /\ visited' = visited
        /\ stack' = <<>> /\ ordered' = <<>> /\ seen' = {} /\ next' = 1
        /\ inputs' = inputs
    BY <1>1 DEF Scanned, scanning, Unsorted
  <2>2. Elements(stack)' = {} /\ Elements(ordered)' = {}
    BY <2>1 DEF Elements
  <2>3. Distinct(stack)' /\ Distinct(ordered)'
    BY <2>1 DEF Distinct
  <2>4. /\ DOMAIN rest' = visited
        /\ \A g \in visited : rest'[g] = References(g)
    BY <1>2, <2>1
  <2>5. \A i \in DOMAIN inputs : i < 1 => FALSE
    BY Basics
  <2>6. \A i \in 1..(Len(<<>>) - 1) : FALSE
    OBVIOUS
  <2> QED
    BY <1>0, <2>1, <2>2, <2>3, <2>4, <2>5, <2>6 DEF SortInv
<1>6. DependenciesFirst'
  BY <1>1 DEF Scanned, DependenciesFirst, Unsorted
<1> QED
  BY <1>3, <1>5, <1>6

-----------------------------------------------------------------------------
(* The search.                                                             *)

(* What is scanned stays as it is during the search.                       *)
LEMMA SearchKeepsScanInv ==
  ASSUME ScanInv, pc = "sort", pc' \in {"sort", "done"},
         UNCHANGED <<content, inputs, scanning>>
  PROVE  /\ ScanInv'
         /\ \A h \in visited : References(h) \subseteq visited
         /\ Elements(inputs) \subseteq visited
<1>1. Store' = Store /\ Reachable' = Reachable /\ \A g : References(g)' = References(g)
  BY Fixed
<1>2. worklist = <<>> /\ Elements(worklist) = {}
  BY DEF ScanInv, Elements
<1>3. ScanInv'
  <2>1. Elements(inputs)' = Elements(inputs) /\ Elements(worklist)' = Elements(worklist)
    BY DEF Elements, scanning
  <2>2. visited' = visited /\ closure' = closure /\ worklist' = worklist
    BY DEF scanning
  <2> QED
    BY <1>1, <2>1, <2>2 DEF ScanInv
<1> QED
  BY <1>2, <1>3 DEF ScanInv

(* A call of dfs marks the path, and puts it on the stack once.            *)
LEMMA CallStep ==
  ASSUME IInv, pc = "sort", NEW x \in visited, Call(x),
         stack = <<>> \/ x \in References(Last(stack))
  PROVE  /\ stack' \in Seq(Store) /\ seen' = seen \cup {x}
         /\ seen' \subseteq visited /\ seen' \subseteq Store
         /\ seen' = Elements(stack') \cup Elements(ordered)
         /\ Elements(stack') \cap Elements(ordered) = {}
         /\ Distinct(stack')
         /\ \A i \in 1..(Len(stack') - 1) : stack'[i + 1] \in References(stack'[i])
<1> USE DEF IInv
<1>1. /\ stack \in Seq(Store) /\ visited \subseteq Store /\ seen \subseteq visited
      /\ seen = Elements(stack) \cup Elements(ordered)
      /\ Elements(stack) \cap Elements(ordered) = {}
      /\ Distinct(stack)
      /\ \A i \in 1..(Len(stack) - 1) : stack[i + 1] \in References(stack[i])
  BY DEF TypeOK, SortInv
<1>2. DOMAIN closure = visited /\ seen' = seen \cup {x}
  BY DEF ScanInv, Call
<1>3. CASE x \in seen
  <2>1. stack' = stack /\ seen' = seen
    BY <1>2, <1>3 DEF Call
  <2> QED
    BY <1>1, <1>2, <2>1
<1>4. CASE x \notin seen
  <2>1. stack' = Append(stack, x)
    BY <1>2, <1>4 DEF Call
  <2>2. /\ stack' \in Seq(Store)
        /\ Elements(stack') = Elements(stack) \cup {x}
    BY <1>1, <2>1, ElementsAppend
  <2>3. /\ Len(stack) \in Nat /\ DOMAIN stack = 1..Len(stack)
        /\ DOMAIN stack' = 1..(Len(stack) + 1) /\ Len(stack') = Len(stack) + 1
        /\ \A i \in 1..Len(stack) : stack'[i] = stack[i]
        /\ stack'[Len(stack) + 1] = x
    BY <1>1, <2>1
  <2>4. \A i \in 1..Len(stack) : stack[i] # x
    BY <1>1, <1>4, <2>3 DEF Elements
  <2>5. Distinct(stack')
    <3> SUFFICES ASSUME NEW i \in DOMAIN stack', NEW j \in DOMAIN stack',
                        stack'[i] = stack'[j]
                 PROVE  i = j
      BY DEF Distinct
    <3>1. /\ i = Len(stack) + 1 \/ i \in 1..Len(stack)
          /\ j = Len(stack) + 1 \/ j \in 1..Len(stack)
      BY <2>3
    <3>2. CASE i \in 1..Len(stack) /\ j \in 1..Len(stack)
      BY <1>1, <2>3, <3>2 DEF Distinct
    <3>3. CASE i = Len(stack) + 1 \/ j = Len(stack) + 1
      BY <2>3, <2>4, <3>1, <3>3
    <3> QED
      BY <3>1, <3>2, <3>3
  <2>6. ASSUME NEW i \in 1..(Len(stack') - 1)
        PROVE  stack'[i + 1] \in References(stack'[i])
    <3>1. i \in 1..Len(stack) /\ stack'[i] = stack[i]
      BY <2>3
    <3>2. CASE i = Len(stack)
      <4>1. stack # <<>> /\ Last(stack) = stack[i]
        BY <2>3, <3>1, <3>2 DEF Last
      <4> QED
        BY <2>3, <3>1, <3>2, <4>1
    <3>3. CASE i # Len(stack)
      <4>0. i \in Int /\ i >= 1 /\ i <= Len(stack) /\ Len(stack) \in Int
        BY <2>3, <3>1
      <4>1. i \in 1..(Len(stack) - 1) /\ i + 1 \in 1..Len(stack)
        BY <3>3, <4>0
      <4> QED
        BY <1>1, <2>3, <3>1, <4>1
    <3> QED
      BY <3>2, <3>3
  <2>7. /\ seen' \subseteq visited /\ seen' \subseteq Store
        /\ seen' = Elements(stack') \cup Elements(ordered)
        /\ Elements(stack') \cap Elements(ordered) = {}
    BY <1>1, <1>2, <1>4, <2>2
  <2> QED
    BY <1>2, <2>2, <2>5, <2>6, <2>7
<1> QED
  BY <1>3, <1>4

(* The next input is the root of a search.                                 *)
LEMMA CallRootStep == IInv /\ CallRoot => IInv'
<1> SUFFICES ASSUME IInv, CallRoot PROVE IInv'
  OBVIOUS
<1> USE DEF IInv
<1>0. Store' = Store /\ Reachable' = Reachable /\ \A g : References(g)' = References(g)
  BY Fixed DEF CallRoot
<1>1. /\ pc = "sort" /\ pc' = "sort" /\ stack = <<>> /\ next' = next + 1
      /\ rest' = rest /\ ordered' = ordered /\ visited' = visited
      /\ closure' = closure /\ worklist' = worklist
      /\ inputs' = inputs /\ content' = content
      /\ next \in Nat /\ next <= Len(inputs)
  BY DEF CallRoot, scanning, TypeOK
<1>2. ScanInv' /\ Elements(inputs) \subseteq visited
  BY <1>1, SearchKeepsScanInv DEF scanning
<1> DEFINE x == inputs[next]
<1>3. ASSUME NEW i \in DOMAIN inputs, i < next + 1 PROVE i < next \/ i = next
  BY <1>1, <1>3, Basics
<1>4. CASE next \in DOMAIN inputs
  <2>1. x \in visited /\ Call(x)
    BY <1>2, <1>4 DEF CallRoot, Elements
  <2> HIDE DEF x
  <2>2. /\ stack' \in Seq(Store) /\ seen' = seen \cup {x}
        /\ seen' \subseteq visited /\ seen' \subseteq Store
        /\ seen' = Elements(stack') \cup Elements(ordered)
        /\ Elements(stack') \cap Elements(ordered) = {}
        /\ Distinct(stack')
        /\ \A i \in 1..(Len(stack') - 1) : stack'[i + 1] \in References(stack'[i])
    BY <1>1, <2>1, CallStep
  <2>3. TypeOK'
    BY <1>0, <1>1, <2>2 DEF TypeOK
  <2>4. \A i \in DOMAIN inputs : i < next' => inputs[i] \in seen'
    BY <1>1, <1>3, <2>2 DEF SortInv, x
  <2>5. /\ Elements(stack)' = Elements(stack') /\ Elements(ordered)' = Elements(ordered)
        /\ Distinct(stack)' = Distinct(stack') /\ Distinct(ordered)' = Distinct(ordered)
    BY <1>1 DEF Elements, Distinct
  <2>6. /\ DOMAIN rest = visited /\ Distinct(ordered)
        /\ \A h \in visited : rest[h] \subseteq References(h)
        /\ \A h \in visited : References(h) \ rest[h] \subseteq seen'
        /\ \A h \in Elements(ordered) : References(h) \subseteq seen'
    BY <1>1, <2>2 DEF SortInv
  <2>7. SortInv'
    BY <1>0, <1>1, <2>2, <2>4, <2>5, <2>6 DEF SortInv
  <2>8. DependenciesFirst'
    <3>1. Acyclic' = Acyclic /\ ordered' = ordered
      BY <1>1, Fixed
    <3> QED
      BY <1>0, <3>1 DEF DependenciesFirst
  <2> QED
    BY <1>2, <2>3, <2>7, <2>8
<1>5. next \in DOMAIN inputs
  <2>1. inputs \in Seq(Hashes)
    BY Basics
  <2>2. next >= 1
    BY DEF TypeOK
  <2> QED
    BY <1>1, <2>1, <2>2
<1> QED
  BY <1>4, <1>5

(* The innermost dfs goes on to a reference.                               *)
LEMMA CallReferenceStep == IInv /\ CallReference => IInv'
<1> SUFFICES ASSUME IInv, CallReference PROVE IInv'
  OBVIOUS
<1> USE DEF IInv
<1>0. Store' = Store /\ Reachable' = Reachable /\ \A g : References(g)' = References(g)
  BY Fixed DEF CallReference
<1> DEFINE k == Last(stack)
<1>1. /\ pc = "sort" /\ pc' = "sort" /\ stack # <<>> /\ next' = next
      /\ ordered' = ordered /\ visited' = visited
      /\ closure' = closure /\ worklist' = worklist
      /\ inputs' = inputs /\ content' = content
  BY DEF CallReference, scanning
<1>2. PICK x \in rest[k] : rest' = [rest EXCEPT ![k] = @ \ {x}] /\ Call(x)
  BY DEF CallReference
<1>3. k \in visited /\ k \in Elements(stack)
  BY <1>1, ElementsFront DEF TypeOK, SortInv
<1> HIDE DEF k
<1>4. /\ ScanInv' /\ \A h \in visited : References(h) \subseteq visited
  BY <1>1, SearchKeepsScanInv DEF scanning
<1>5. x \in References(k) /\ x \in visited
  BY <1>1, <1>2, <1>3, <1>4 DEF SortInv
<1>6. /\ stack' \in Seq(Store) /\ seen' = seen \cup {x}
      /\ seen' \subseteq visited /\ seen' \subseteq Store
      /\ seen' = Elements(stack') \cup Elements(ordered)
      /\ Elements(stack') \cap Elements(ordered) = {}
      /\ Distinct(stack')
      /\ \A i \in 1..(Len(stack') - 1) : stack'[i + 1] \in References(stack'[i])
  BY <1>1, <1>2, <1>5, CallStep DEF k
<1>7. /\ DOMAIN rest = visited /\ DOMAIN rest' = visited
      /\ \A h \in visited : rest'[h] \subseteq rest[h]
      /\ \A h \in visited : rest[h] \subseteq rest'[h] \cup {x}
  BY <1>1, <1>2, <1>3 DEF SortInv
<1>8. rest' \in [DOMAIN rest' -> SUBSET Store]
  <2>1. \A h \in visited : rest[h] \subseteq Store
    BY <1>7 DEF TypeOK
  <2>2. \A h \in visited : rest'[h] \subseteq Store
    BY <1>7, <2>1
  <2>3. rest' = [h \in visited |-> rest'[h]]
    BY <1>2, <1>7
  <2> QED
    BY <1>7, <2>2, <2>3
<1>9. TypeOK'
  BY <1>0, <1>1, <1>6, <1>8 DEF TypeOK
<1>10. /\ Elements(stack)' = Elements(stack') /\ Elements(ordered)' = Elements(ordered)
       /\ Distinct(stack)' = Distinct(stack') /\ Distinct(ordered)' = Distinct(ordered)
  BY <1>1 DEF Elements, Distinct
<1>11. /\ Distinct(ordered)
       /\ \A h \in visited : rest[h] \subseteq References(h)
       /\ \A h \in visited : References(h) \ rest[h] \subseteq seen
       /\ \A h \in Elements(ordered) : References(h) \subseteq seen
       /\ \A i \in DOMAIN inputs : i < next => inputs[i] \in seen
  BY <1>1 DEF SortInv
<1>12. /\ \A h \in visited : rest'[h] \subseteq References(h)
       /\ \A h \in visited : References(h) \ rest'[h] \subseteq seen'
       /\ \A h \in Elements(ordered) : References(h) \subseteq seen'
       /\ \A i \in DOMAIN inputs : i < next => inputs[i] \in seen'
  BY <1>6, <1>7, <1>11
<1>13. SortInv'
  BY <1>0, <1>1, <1>6, <1>7, <1>10, <1>11, <1>12 DEF SortInv
<1>14. DependenciesFirst'
  <2>1. Acyclic' = Acyclic /\ ordered' = ordered
    BY <1>1, Fixed
  <2> QED
    BY <1>0, <2>1 DEF DependenciesFirst
<1> QED
  BY <1>4, <1>9, <1>13, <1>14

(* Without cycles, what the innermost dfs refers to is not on the stack:   *)
(* from there to the top the stack would be a cycle.                       *)
LEMMA NotOnStack ==
  ASSUME IInv, pc = "sort", stack # <<>>, Acyclic
  PROVE  References(Last(stack)) \cap Elements(stack) = {}
<1> USE DEF IInv
<1>1. /\ stack \in Seq(Store) /\ Len(stack) \in Nat \ {0} /\ DOMAIN stack = 1..Len(stack)
      /\ \A i \in 1..(Len(stack) - 1) : stack[i + 1] \in References(stack[i])
  BY ElementsFront DEF TypeOK, SortInv
<1> SUFFICES ASSUME NEW m \in 1..Len(stack), stack[m] \in References(Last(stack))
             PROVE  FALSE
  BY <1>1 DEF Elements
<1> DEFINE C == {stack[i] : i \in m..Len(stack)}
<1>2. C \in (SUBSET Store) \ {{}}
  <2>1. m \in m..Len(stack)
    BY <1>1
  <2> QED
    BY <1>1, <2>1
<1>3. PICK h \in C : References(h) \cap C = {}
  BY <1>2 DEF Acyclic
<1>4. PICK i \in m..Len(stack) : h = stack[i]
  OBVIOUS
<1>5. CASE i = Len(stack)
  <2>1. stack[m] \in C /\ h = Last(stack)
    BY <1>1, <1>4, <1>5 DEF Last
  <2> QED
    BY <1>3, <2>1
<1>6. CASE i # Len(stack)
  <2>0. /\ i \in Int /\ i >= m /\ i <= Len(stack) /\ Len(stack) \in Int
        /\ m \in Int /\ m >= 1
    BY <1>1, <1>4
  <2>1. i \in 1..(Len(stack) - 1) /\ i + 1 \in m..Len(stack)
    BY <1>6, <2>0
  <2>2. stack[i + 1] \in C /\ stack[i + 1] \in References(h)
    BY <1>1, <1>4, <2>1
  <2> QED
    BY <1>3, <2>2
<1> QED
  BY <1>5, <1>6

(* The innermost dfs lists its path.                                       *)
LEMMA ReturnStep == IInv /\ Return => IInv'
<1> SUFFICES ASSUME IInv, Return PROVE IInv'
  OBVIOUS
<1> USE DEF IInv
<1>0. Store' = Store /\ Reachable' = Reachable /\ \A g : References(g)' = References(g)
  BY Fixed DEF Return
<1> DEFINE k == Last(stack)
<1>1. /\ pc = "sort" /\ pc' = "sort" /\ stack # <<>> /\ next' = next
      /\ rest[k] = {} /\ ordered' = Append(ordered, k) /\ stack' = Front(stack)
      /\ rest' = rest /\ seen' = seen /\ visited' = visited
      /\ closure' = closure /\ worklist' = worklist
      /\ inputs' = inputs /\ content' = content
  BY DEF Return, scanning
<1>2. /\ stack \in Seq(Store) /\ ordered \in Seq(Store)
      /\ DOMAIN rest = visited
      /\ seen = Elements(stack) \cup Elements(ordered)
      /\ seen \subseteq visited
      /\ Elements(stack) \cap Elements(ordered) = {}
      /\ Distinct(stack) /\ Distinct(ordered)
      /\ \A h \in visited : rest[h] \subseteq References(h)
      /\ \A h \in visited : References(h) \ rest[h] \subseteq seen
      /\ \A h \in Elements(ordered) : References(h) \subseteq seen
      /\ \A i \in DOMAIN inputs : i < next => inputs[i] \in seen
      /\ \A i \in 1..(Len(stack) - 1) : stack[i + 1] \in References(stack[i])
  BY <1>1 DEF TypeOK, SortInv
<1>3. /\ k \in Store /\ stack' \in Seq(Store) /\ Len(stack) \in Nat \ {0}
      /\ Len(stack') = Len(stack) - 1
      /\ \A i \in 1..(Len(stack) - 1) : stack'[i] = stack[i]
      /\ Elements(stack) = Elements(stack') \cup {k}
  BY <1>1, <1>2, ElementsFront
<1>4. /\ k \in Elements(stack) /\ k \notin Elements(ordered) /\ k \in visited
      /\ References(k) \subseteq seen
  BY <1>1, <1>2, <1>3
<1>5. k = stack[Len(stack)]
  BY DEF Last
<1> HIDE DEF k
<1>6. DOMAIN stack = 1..Len(stack) /\ DOMAIN stack' = 1..(Len(stack) - 1)
  BY <1>2, <1>3
<1>7. k \notin Elements(stack')
  <2> SUFFICES ASSUME NEW i \in 1..(Len(stack) - 1), stack'[i] = k PROVE FALSE
    BY <1>6 DEF Elements
  <2>1. i \in 1..Len(stack) /\ Len(stack) \in 1..Len(stack) /\ stack[i] = stack[Len(stack)]
    BY <1>3, <1>5
  <2>2. i = Len(stack)
    BY <1>2, <1>6, <2>1 DEF Distinct
  <2> QED
    BY <1>3, <2>2
<1>8. Distinct(stack')
  <2> SUFFICES ASSUME NEW i \in 1..(Len(stack) - 1), NEW j \in 1..(Len(stack) - 1),
                      stack'[i] = stack'[j]
               PROVE  i = j
    BY <1>6 DEF Distinct
  <2>1. i \in 1..Len(stack) /\ j \in 1..Len(stack) /\ stack[i] = stack[j]
    BY <1>3
  <2> QED
    BY <1>2, <1>6, <2>1 DEF Distinct
<1>9. \A i \in 1..(Len(stack') - 1) : stack'[i + 1] \in References(stack'[i])
  <2> SUFFICES ASSUME NEW i \in 1..(Len(stack') - 1)
               PROVE  stack'[i + 1] \in References(stack'[i])
    OBVIOUS
  <2>1. /\ i \in 1..(Len(stack) - 1) /\ i + 1 \in 1..(Len(stack) - 1)
        /\ stack'[i] = stack[i] /\ stack'[i + 1] = stack[i + 1]
    BY <1>3
  <2> QED
    BY <1>2, <2>1
<1>10. /\ ordered' \in Seq(Store)
       /\ Elements(ordered') = Elements(ordered) \cup {k}
  BY <1>1, <1>2, <1>3, ElementsAppend
<1>11. /\ Len(ordered) \in Nat /\ DOMAIN ordered = 1..Len(ordered)
       /\ DOMAIN ordered' = 1..(Len(ordered) + 1)
       /\ \A i \in 1..Len(ordered) : ordered'[i] = ordered[i]
       /\ ordered'[Len(ordered) + 1] = k
  BY <1>1, <1>2, <1>3
<1>12. Distinct(ordered')
  <2>1. \A i \in 1..Len(ordered) : ordered[i] # k
    BY <1>4, <1>11 DEF Elements
  <2> SUFFICES ASSUME NEW i \in DOMAIN ordered', NEW j \in DOMAIN ordered',
                      ordered'[i] = ordered'[j]
               PROVE  i = j
    BY DEF Distinct
  <2>2. /\ i = Len(ordered) + 1 \/ i \in 1..Len(ordered)
        /\ j = Len(ordered) + 1 \/ j \in 1..Len(ordered)
    BY <1>11
  <2>3. CASE i \in 1..Len(ordered) /\ j \in 1..Len(ordered)
    BY <1>2, <1>11, <2>3 DEF Distinct
  <2>4. CASE i = Len(ordered) + 1 \/ j = Len(ordered) + 1
    BY <1>11, <2>1, <2>2, <2>4
  <2> QED
    BY <2>2, <2>3, <2>4
<1>13. ScanInv'
  BY <1>1, SearchKeepsScanInv DEF scanning
<1>14. TypeOK'
  BY <1>0, <1>1, <1>3, <1>10 DEF TypeOK
<1>15. /\ Elements(stack)' = Elements(stack') /\ Elements(ordered)' = Elements(ordered')
       /\ Distinct(stack)' = Distinct(stack') /\ Distinct(ordered)' = Distinct(ordered')
  BY DEF Elements, Distinct
<1>16. /\ seen = Elements(stack') \cup Elements(ordered')
       /\ Elements(stack') \cap Elements(ordered') = {}
       /\ \A h \in Elements(ordered') : References(h) \subseteq seen
  BY <1>2, <1>3, <1>4, <1>7, <1>10
<1>17. SortInv'
  BY <1>0, <1>1, <1>2, <1>8, <1>9, <1>12, <1>15, <1>16 DEF SortInv
<1>18. ASSUME Acyclic, NEW i \in DOMAIN ordered', NEW r \in References(ordered'[i])
       PROVE  \E j \in 1..(i - 1) : ordered'[j] = r
  <2>1. CASE i \in 1..Len(ordered)
    <3>1. PICK j \in 1..(i - 1) : ordered[j] = r
      BY <1>11, <1>18, <2>1 DEF DependenciesFirst
    <3>2. ordered'[j] = r
      BY <1>11, <2>1, <3>1
    <3> QED
      BY <3>2
  <2>2. CASE i = Len(ordered) + 1
    <3>1. r \in References(k) /\ r \in seen
      BY <1>4, <1>11, <2>2
    <3>2. r \notin Elements(stack)
      BY <1>1, <1>18, <3>1, NotOnStack DEF k
    <3>3. PICK j \in 1..Len(ordered) : ordered[j] = r
      BY <1>2, <1>11, <3>1, <3>2 DEF Elements
    <3>4. j \in 1..(i - 1) /\ ordered'[j] = r
      BY <1>11, <2>2, <3>3
    <3> QED
      BY <3>4
  <2> QED
    BY <1>11, <2>1, <2>2
<1>19. DependenciesFirst'
  <2>1. Acyclic' = Acyclic
    BY <1>1, Fixed
  <2> QED
    BY <1>0, <1>18, <2>1 DEF DependenciesFirst
<1> QED
  BY <1>13, <1>14, <1>17, <1>19

(* The search ends.                                                        *)
LEMMA SortedStep == IInv /\ Sorted => IInv'
<1> SUFFICES ASSUME IInv, Sorted PROVE IInv'
  OBVIOUS
<1> USE DEF IInv
<1>0. Store' = Store /\ Reachable' = Reachable /\ \A g : References(g)' = References(g)
  BY Fixed DEF Sorted
<1>1. /\ pc = "sort" /\ pc' = "done" /\ stack = <<>> /\ next > Len(inputs)
      /\ UNCHANGED <<content, inputs, scanning, next, stack, rest, seen, ordered>>
  BY DEF Sorted, sorting
<1>2. ScanInv'
  BY <1>1, SearchKeepsScanInv
<1>3. TypeOK'
  BY <1>0, <1>1 DEF TypeOK, scanning
<1>4. /\ Elements(stack)' = Elements(stack) /\ Elements(ordered)' = Elements(ordered)
      /\ Distinct(stack)' = Distinct(stack) /\ Distinct(ordered)' = Distinct(ordered)
  BY <1>1 DEF Elements, Distinct
<1>5. SortInv'
  BY <1>0, <1>1, <1>4 DEF SortInv, scanning
<1>6. DependenciesFirst'
  <2>1. Acyclic' = Acyclic /\ ordered' = ordered
    BY <1>1, Fixed
  <2> QED
    BY <1>0, <2>1 DEF DependenciesFirst
<1> QED
  BY <1>2, <1>3, <1>5, <1>6

-----------------------------------------------------------------------------
(* Every step preserves the invariant.                                     *)
LEMMA NextIInv == IInv /\ [Next]_vars => IInv'
<1> SUFFICES ASSUME IInv, [Next]_vars PROVE IInv'
  OBVIOUS
<1>1. CASE Next
  BY <1>1, ReadStoreStep, ScanStep, ScanErrorStep, ScannedStep,
     CallRootStep, CallReferenceStep, ReturnStep, SortedStep DEF Next
<1>2. CASE UNCHANGED vars
  <2>1. Store' = Store /\ Reachable' = Reachable /\ \A g : References(g)' = References(g)
    BY <1>2, Fixed DEF vars
  <2>2. TypeOK'
    BY <1>2, <2>1 DEF IInv, vars, TypeOK
  <2>3. ScanInv'
    <3>1. Elements(inputs)' = Elements(inputs) /\ Elements(worklist)' = Elements(worklist)
      BY <1>2 DEF vars, Elements
    <3> QED
      BY <1>2, <2>1, <3>1 DEF IInv, vars, ScanInv
  <2>4. SortInv'
    <3>1. /\ Elements(stack)' = Elements(stack) /\ Elements(ordered)' = Elements(ordered)
          /\ Distinct(stack)' = Distinct(stack) /\ Distinct(ordered)' = Distinct(ordered)
      BY <1>2 DEF vars, Elements, Distinct
    <3> QED
      BY <1>2, <2>1, <3>1 DEF IInv, vars, SortInv, Unsorted
  <2>5. DependenciesFirst'
    <3>1. Acyclic' = Acyclic /\ ordered' = ordered
      BY <1>2, Fixed DEF vars
    <3> QED
      BY <2>1, <3>1 DEF IInv, DependenciesFirst
  <2> QED
    BY <2>2, <2>3, <2>4, <2>5 DEF IInv
<1> QED
  BY <1>1, <1>2

(* The invariant holds in every state of every run of resolve.             *)
THEOREM Invariance == Spec => []IInv
<1> QED
  BY InitIInv, NextIInv, PTL DEF Spec

(* The variables have their types.                                         *)
THEOREM TypeCorrect == Spec => []TypeOK
<1>1. IInv => TypeOK
  BY DEF IInv
<1> QED
  BY <1>1, Invariance, PTL

(* resolve returns the closure of its inputs, each path once, for every    *)
(* store directory, also with paths that refer to each other, and for every*)
(* list of inputs.                                                         *)
THEOREM Lists == Spec => []ListsClosure
<1>1. IInv => ListsClosure
  <2> SUFFICES ASSUME IInv, pc = "done"
               PROVE  /\ Elements(ordered) = Reachable
                      /\ \A i, j \in DOMAIN ordered : ordered[i] = ordered[j] => i = j
    BY DEF ListsClosure
  <2> USE DEF IInv
  <2>1. /\ stack = <<>> /\ next > Len(inputs) /\ next \in Nat
        /\ seen = Elements(stack) \cup Elements(ordered)
        /\ seen \subseteq visited /\ Distinct(ordered)
        /\ \A h \in Elements(ordered) : References(h) \subseteq seen
        /\ \A i \in DOMAIN inputs : i < next => inputs[i] \in seen
    BY DEF SortInv, TypeOK
  <2>2. seen = Elements(ordered)
    BY <2>1 DEF Elements
  <2>3. \A i \in DOMAIN inputs : i < next
    BY <2>1, Basics
  <2>4. IsClosed(Elements(ordered))
    BY <2>1, <2>2, <2>3 DEF IsClosed, Elements
  <2>5. Elements(inputs) \subseteq Store /\ visited \subseteq Reachable
    BY DEF ScanInv
  <2>6. Elements(ordered) \subseteq Store
    BY <2>1, <2>2 DEF TypeOK
  <2>7. Reachable \subseteq Elements(ordered)
    BY <2>4, <2>5, <2>6, ReachableIsClosed DEF TypeOK
  <2> QED
    BY <2>1, <2>2, <2>5, <2>7 DEF Distinct
<1> QED
  BY <1>1, Invariance, PTL

(* Where the references have no cycle, each path is listed after the paths *)
(* it refers to.                                                           *)
THEOREM Ordered == Spec => []DependenciesFirst
<1>1. IInv => DependenciesFirst
  BY DEF IInv
<1> QED
  BY <1>1, Invariance, PTL
=============================================================================
