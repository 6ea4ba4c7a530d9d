------------------------------- MODULE Closure -------------------------------
(***************************************************************************)
(* closure::resolve: from the paths given to the list of paths to publish. *)
(* A worklist finds the closure by scanning each path for the hash parts of*)
(* others; a depth-first search then lists it.  A path is represented by   *)
(* its hash part, which is unique in the store directory.                  *)
(***************************************************************************)
EXTENDS Integers, Sequences, FiniteSets

CONSTANTS
  Hashes,     \* hash parts
  Graphs,     \* the store directories: graphs of who contains whose hash part
  InputLists  \* the lists of paths that may be given

(* A path may contain its own hash part, and paths may contain each other's.*)
ASSUME GraphAssumption ==
  /\ IsFiniteSet(Hashes)
  /\ Graphs \subseteq UNION {[S -> SUBSET S] : S \in SUBSET Hashes}
  /\ InputLists \subseteq Seq(Hashes)

VARIABLES
  content,   \* content[h]: the hash parts in the bytes of h, the store's state
  inputs,    \* input_hashparts
  pc,        \* where resolve is
  worklist,  \* hash parts to scan, the next one last
  visited,   \* hash parts taken from the worklist
  closure,   \* the references of each path scanned
  next,      \* the next root of topo_sort
  stack,     \* the calls of dfs, the innermost last
  rest,      \* rest[h]: the references that dfs(h) has still to visit
  seen,      \* visited of topo_sort
  ordered    \* result of topo_sort

scanning == <<worklist, visited, closure>>
sorting == <<next, stack, rest, seen, ordered>>
vars == <<content, inputs, pc, worklist, visited, closure, next, stack, rest,
          seen, ordered>>

Store == DOMAIN content
Elements(s) == {s[i] : i \in DOMAIN s}

TypeOK ==
  /\ content \in Graphs
  /\ inputs \in InputLists
  /\ pc \in {"read", "scan", "sort", "done", "err"}
  /\ worklist \in Seq(Store)
  /\ visited \in SUBSET Store
  /\ closure \in [visited -> SUBSET Store]
  /\ next \in Nat \ {0}
  /\ stack \in Seq(Store)
  /\ rest \in [DOMAIN rest -> SUBSET Store]
  /\ seen \in SUBSET Store
  /\ ordered \in Seq(Store)

-----------------------------------------------------------------------------
Init ==
  /\ content \in Graphs /\ inputs \in InputLists
  /\ pc = "read"
  /\ worklist = <<>> /\ visited = {} /\ closure = [h \in {} |-> {}]
  /\ next = 1 /\ stack = <<>> /\ rest = closure
  /\ seen = {} /\ ordered = <<>>

(* Mutant: inputs that are not in the store directory are accepted.        *)
ReadStoreUnchecked ==
  /\ pc = "read"
  /\ pc' = "scan" /\ worklist' = inputs
  /\ UNCHANGED <<content, inputs, visited, closure, sorting>>

(* read_store_candidates, and the check that every input is in the store.  *)
(* Reading the store directory, or an input's name, may fail.              *)
ReadStore ==
  /\ pc = "read"
  /\ \/ /\ Elements(inputs) \subseteq Store
        /\ pc' = "scan" /\ worklist' = inputs
     \/ pc' = "err" /\ UNCHANGED worklist
  /\ UNCHANGED <<content, inputs, visited, closure, sorting>>

(* The sequences that list a set, in the order of the matches.             *)
Listings(S) ==
  {s \in [1..Cardinality(S) -> S] : Elements(s) = S}

(* What the scan of a path finds: the candidates, itself excluded.         *)
References(h) == content[h] \ {h}

Last(s) == s[Len(s)]
Front(s) == SubSeq(s, 1, Len(s) - 1)

(* Mutants: only what was given is scanned, and a path that was scanned    *)
(* before stays on the worklist.                                           *)
ScanInputsOnly ==
  /\ pc = "scan" /\ worklist # <<>>
  /\ LET h == Last(worklist) IN
       /\ visited' = visited \cup {h}
       /\ closure' = [g \in visited \cup {h} |->
                        IF g = h THEN References(h) ELSE closure[g]]
       /\ worklist' = Front(worklist)
  /\ UNCHANGED <<content, inputs, pc, sorting>>

ScanNoSkip ==
  /\ pc = "scan" /\ worklist # <<>>
  /\ LET h == Last(worklist) IN
       /\ h \notin visited
       /\ visited' = visited \cup {h}
       /\ closure' = [g \in visited \cup {h} |->
                        IF g = h THEN References(h) ELSE closure[g]]
       /\ \E s \in Listings(References(h) \ visited) :
            worklist' = Front(worklist) \o s
  /\ UNCHANGED <<content, inputs, pc, sorting>>

(* One round of the worklist loop: a path seen before is dropped, another  *)
(* one is scanned and its references put on the worklist.                  *)
Scan ==
  /\ pc = "scan" /\ worklist # <<>>
  /\ LET h == Last(worklist) IN
       \/ /\ h \in visited
          /\ worklist' = Front(worklist)
          /\ UNCHANGED <<visited, closure>>
       \/ /\ h \notin visited
          /\ visited' = visited \cup {h}
          /\ closure' = [g \in visited \cup {h} |->
                           IF g = h THEN References(h) ELSE closure[g]]
          /\ \E s \in Listings(References(h) \ visited) :
               worklist' = Front(worklist) \o s
  /\ UNCHANGED <<content, inputs, pc, sorting>>

(* A path cannot be read.                                                  *)
ScanError ==
  /\ pc = "scan" /\ worklist # <<>> /\ Last(worklist) \notin visited
  /\ pc' = "err"
  /\ UNCHANGED <<content, inputs, scanning, sorting>>

(* The worklist is empty: topo_sort starts.  dfs runs at most once for a   *)
(* path, so rest may start as the references of all.                       *)
Scanned ==
  /\ pc = "scan" /\ worklist = <<>>
  /\ pc' = "sort"
  /\ rest' = closure
  /\ UNCHANGED <<content, inputs, scanning, next, stack, seen, ordered>>

-----------------------------------------------------------------------------
(* dfs(h) is called: it returns at once when h was seen, and when h is not *)
(* in the closure.                                                         *)
Call(h) ==
  /\ seen' = seen \cup {h}
  /\ stack' = IF h \notin seen /\ h \in DOMAIN closure
              THEN Append(stack, h) ELSE stack

CallRoot ==
  /\ pc = "sort" /\ stack = <<>> /\ next <= Len(inputs)
  /\ next' = next + 1
  /\ Call(inputs[next])
  /\ UNCHANGED <<content, inputs, pc, scanning, rest, ordered>>

(* The innermost dfs goes on to the next reference.                        *)
CallReference ==
  /\ pc = "sort" /\ stack # <<>>
  /\ \E x \in rest[Last(stack)] :
       /\ rest' = [rest EXCEPT ![Last(stack)] = @ \ {x}]
       /\ Call(x)
  /\ UNCHANGED <<content, inputs, pc, scanning, next, ordered>>

(* Mutant: a path is listed before what was listed so far.                 *)
ReturnReversed ==
  /\ pc = "sort" /\ stack # <<>> /\ rest[Last(stack)] = {}
  /\ ordered' = <<Last(stack)>> \o ordered
  /\ stack' = Front(stack)
  /\ UNCHANGED <<content, inputs, pc, scanning, next, rest, seen>>

(* After its references, the innermost dfs lists its path and returns.     *)
Return ==
  /\ pc = "sort" /\ stack # <<>> /\ rest[Last(stack)] = {}
  /\ ordered' = Append(ordered, Last(stack))
  /\ stack' = Front(stack)
  /\ UNCHANGED <<content, inputs, pc, scanning, next, rest, seen>>

Sorted ==
  /\ pc = "sort" /\ stack = <<>> /\ next > Len(inputs)
  /\ pc' = "done"
  /\ UNCHANGED <<content, inputs, scanning, sorting>>

Next ==
  \/ ReadStore \/ Scan \/ ScanError \/ Scanned
  \/ CallRoot \/ CallReference \/ Return \/ Sorted

Spec == Init /\ [][Next]_vars

(* Nothing is waited for.                                                  *)
FairSpec == Spec /\ WF_vars(Next)

-----------------------------------------------------------------------------
(* The closure by definition: what every set that holds the inputs and is  *)
(* closed under references has in common.                                  *)
IsClosed(C) == Elements(inputs) \subseteq C /\ \A h \in C : References(h) \subseteq C
Reachable == {h \in Store : \A C \in SUBSET Store : IsClosed(C) => h \in C}

(* resolve lists the closure of the inputs, each path once, however the    *)
(* store refers to itself and whatever was given twice.                    *)
ListsClosure ==
  pc = "done" => /\ Elements(ordered) = Reachable
                 /\ \A i, j \in DOMAIN ordered : ordered[i] = ordered[j] => i = j

(* References without cycles (but for those of a path to itself).          *)
Acyclic ==
  \A C \in (SUBSET Store) \ {{}} : \E h \in C : References(h) \cap C = {}

(* "Returns paths in topological order (dependencies first)": every path   *)
(* is listed after all the paths it refers to.                             *)
DependenciesFirst ==
  Acyclic => \A i \in DOMAIN ordered : \A r \in References(ordered[i]) :
               \E j \in 1..(i - 1) : ordered[j] = r

(* resolve returns, also when references go round in a circle.             *)
Resolves == <>(pc \in {"done", "err"})
=============================================================================
