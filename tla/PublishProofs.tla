---------------------------- MODULE PublishProofs ----------------------------
(***************************************************************************)
(* Theorems about Publish, for every set of publishers, paths, servers,    *)
(* relays and command lines, any number of runs, and every behaviour of    *)
(* the environment.                                                        *)
(***************************************************************************)
EXTENDS Publish, TLAPS

-----------------------------------------------------------------------------
(* Lemmas on the data.                                                     *)

(* The map that merges two entry maps (lib.rs step 5) is an entry map.     *)
LEMMA MergeType ==
  ASSUME NEW f \in EntryMaps, NEW g \in EntryMaps
  PROVE  /\ Merge(f, g) \in EntryMaps
         /\ DOMAIN Merge(f, g) = DOMAIN f \cup DOMAIN g
         /\ \A n \in DOMAIN f : Merge(f, g)[n] = f[n]
         /\ \A n \in DOMAIN g \ DOMAIN f : Merge(f, g)[n] = g[n]
<1>1. PICK S \in SUBSET Names : f \in [S -> EntryBlobs]
  BY DEF EntryMaps
<1>2. PICK T \in SUBSET Names : g \in [T -> EntryBlobs]
  BY DEF EntryMaps
<1>3. Merge(f, g) \in [S \cup T -> EntryBlobs]
  BY <1>1, <1>2 DEF Merge
<1>4. S \cup T \in SUBSET Names
  OBVIOUS
<1>5. Merge(f, g) \in EntryMaps
  BY <1>3, <1>4 DEF EntryMaps
<1> QED
  BY <1>5 DEF Merge

(* A map with one entry, and the empty one, are entry maps.                *)
LEMMA SmallMaps ==
  /\ EmptyMap \in EntryMaps
  /\ DOMAIN EmptyMap = {}
  /\ \A n \in Names, b \in EntryBlobs :
       /\ [m \in {n} |-> b] \in EntryMaps
       /\ DOMAIN [m \in {n} |-> b] = {n}
       /\ [m \in {n} |-> b][n] = b
<1>1. EmptyMap \in [{} -> EntryBlobs]
  BY DEF EmptyMap
<1>2. EmptyMap \in EntryMaps
  BY <1>1 DEF EntryMaps
<1>3. DOMAIN EmptyMap = {}
  BY DEF EmptyMap
<1>4. ASSUME NEW n \in Names, NEW b \in EntryBlobs
      PROVE  [m \in {n} |-> b] \in EntryMaps
  <2> DEFINE f == [m \in {n} |-> b]
  <2>1. PICK S \in SUBSET Names : S = {n}
    OBVIOUS
  <2>2. f \in [S -> EntryBlobs]
    BY <2>1
  <2> HIDE DEF f
  <2>3. f \in EntryMaps
    BY <2>2 DEF EntryMaps
  <2> QED
    BY <2>3 DEF f
<1> QED
  BY <1>2, <1>3, <1>4

(* An entry map maps names to the blobs entries may name.                  *)
LEMMA EntryType ==
  ASSUME NEW f \in EntryMaps
  PROVE  /\ DOMAIN f \subseteq Names
         /\ \A n \in DOMAIN f : f[n] \in EntryBlobs
BY DEF EntryMaps

(* The blobs a run makes for a path are blobs.                             *)
LEMMA MadeBlobs ==
  ASSUME NEW c \in Configs, NEW x \in Paths
  PROVE  /\ NarInfo(x, c) \in EntryBlobs
         /\ NarInfo(x, c) \in Blobs
         /\ Nar(x, c) \in Blobs
         /\ CacheInfo \in EntryBlobs
         /\ CacheInfo \in Blobs
<1>1. c.comp \in Compressions /\ c.key \in Keys \cup {NoKey}
  BY ConfigAssumption
<1> QED
  BY <1>1 DEF NarInfo, Nar, CacheInfo, EntryBlobs, NarBlobs, Blobs

(* The nodes of a tree are blobs, and the root is one of them.             *)
LEMMA NodesType ==
  ASSUME NEW t \in Trees
  PROVE  /\ ManifestNodes(t) \in Seq(Blobs)
         /\ NodeSet(t) \subseteq Blobs
<1>1. [inner |-> t] \in Blobs /\ [root |-> t] \in Blobs
  BY DEF Blobs
<1>2. ManifestNodes(t) \in Seq(Blobs)
  BY <1>1 DEF ManifestNodes
<1> QED
  BY <1>2 DEF NodeSet

-----------------------------------------------------------------------------
(* Type correctness.                                                       *)

(* The tree a run builds is a tree over the entries it merged.             *)
LEMMA NewTreeType ==
  ASSUME TypeOK, NEW p \in Publishers
  PROVE  /\ NewTree(p) \in Trees
         /\ DOMAIN NewTree(p).ents =
              {CacheInfoName} \cup DOMAIN fresh[p] \cup DOMAIN existing[p]
         /\ NewTree(p).ents[CacheInfoName] = CacheInfo
         /\ \A n \in DOMAIN fresh[p] \ {CacheInfoName} :
              NewTree(p).ents[n] = fresh[p][n]
         /\ \A n \in DOMAIN existing[p] \ (DOMAIN fresh[p] \cup {CacheInfoName}) :
              NewTree(p).ents[n] = existing[p][n]
<1> DEFINE M == Merge(fresh[p], existing[p])
           C == [n \in {CacheInfoName} |-> CacheInfo]
<1>1. fresh[p] \in EntryMaps /\ existing[p] \in EntryMaps
  BY DEF TypeOK
<1>2. /\ M \in EntryMaps
      /\ DOMAIN M = DOMAIN fresh[p] \cup DOMAIN existing[p]
      /\ \A n \in DOMAIN fresh[p] : M[n] = fresh[p][n]
      /\ \A n \in DOMAIN existing[p] \ DOMAIN fresh[p] : M[n] = existing[p][n]
  BY <1>1, MergeType
<1>3. /\ C \in EntryMaps
      /\ DOMAIN C = {CacheInfoName}
      /\ C[CacheInfoName] = CacheInfo
  <2>1. CacheInfoName \in Names /\ CacheInfo \in EntryBlobs
    BY DEF Names, EntryBlobs
  <2> QED
    BY <2>1, SmallMaps
<1> HIDE DEF M, C
<1>4. /\ Merge(C, M) \in EntryMaps
      /\ DOMAIN Merge(C, M) = DOMAIN C \cup DOMAIN M
      /\ \A n \in DOMAIN C : Merge(C, M)[n] = C[n]
      /\ \A n \in DOMAIN M \ DOMAIN C : Merge(C, M)[n] = M[n]
  BY <1>2, <1>3, MergeType
<1>5. NewTree(p) = [ents |-> Merge(C, M),
                    dup |-> CacheInfoName \in DOMAIN existing[p]]
  BY DEF NewTree, C, M
<1>6. NewTree(p) \in Trees
  BY <1>4, <1>5 DEF Trees
<1>7. NewTree(p).ents = Merge(C, M)
  BY <1>5
<1> QED
  BY <1>2, <1>3, <1>4, <1>6, <1>7

(* The default command line is one of the command lines.                   *)
LEMMA AnyConfigType == AnyConfig \in Configs
BY ConfigAssumption DEF AnyConfig

(* A run that ends leaves well-typed (empty) memory.                       *)
LEMMA FinishType ==
  ASSUME TypeOK, NEW p \in Publishers, NEW res \in {"ok", "err"},
         Finish(p, res)
  PROVE  /\ pc' \in [Publishers -> Positions]
         /\ cfg' \in [Publishers -> Configs]
         /\ root' \in [Publishers -> SUBSET Events]
         /\ existing' \in [Publishers -> EntryMaps]
         /\ todo' \in [Publishers -> SUBSET Paths]
         /\ fresh' \in [Publishers -> EntryMaps]
         /\ queue' \in [Publishers -> Seq(Blobs)]
         /\ event' \in [Publishers -> SUBSET Events]
         /\ result' \in [Publishers -> {"none", "ok", "err"}]
<1>1. EmptyMap \in EntryMaps
  BY SmallMaps
<1>2. AnyConfig \in Configs
  BY AnyConfigType
<1>3. <<>> \in Seq(Blobs)
  OBVIOUS
<1> QED
  BY <1>1, <1>2, <1>3 DEF TypeOK, Finish, Positions

(* The types hold at the start.                                            *)
LEMMA InitType == Init => TypeOK
<1>1. EmptyMap \in EntryMaps
  BY SmallMaps
<1>2. AnyConfig \in Configs
  BY AnyConfigType
<1>3. <<>> \in Seq(Blobs)
  OBVIOUS
<1>4. 0 \in 0..MaxRuns
  BY EnvironmentAssumption
<1> QED
  BY <1>1, <1>2, <1>3, <1>4 DEF Init, TypeOK, Positions

(* The events that some relays hold are events, and so are the newest.     *)
LEMMA HeldType ==
  ASSUME TypeOK, NEW R \in SUBSET Relays
  PROVE  Held(R) \subseteq Events /\ Newest(Held(R)) \subseteq Held(R)
BY DEF TypeOK, Held, Newest

(* Every step keeps the types.                                             *)
LEMMA NextType == TypeOK /\ [Next]_vars => TypeOK'
<1> SUFFICES ASSUME TypeOK, [Next]_vars PROVE TypeOK'
  OBVIOUS
<1>1. ASSUME NEW p \in Publishers, NEW c \in Configs, Start(p, c)
      PROVE  TypeOK'
  <2>1. started' \in 0..MaxRuns
    BY <1>1, EnvironmentAssumption DEF TypeOK, Start
  <2> QED
    BY <1>1, <2>1 DEF TypeOK, Start, remote, Positions
<1>2. ASSUME NEW p \in Publishers, FetchRoot(p) PROVE TypeOK'
  <2>1. PICK R \in FetchSets :
          \/ pc' = [pc EXCEPT ![p] = "closure"] /\ UNCHANGED root
          \/ \E e \in Newest(Held(R)) :
               /\ root' = [root EXCEPT ![p] = {e}]
               /\ pc' = [pc EXCEPT ![p] = "flatten"]
    BY <1>2 DEF FetchRoot
  <2>2. Newest(Held(R)) \subseteq Events
    BY HeldType, EnvironmentAssumption
  <2>3. root' \in [Publishers -> SUBSET Events]
    <3>1. CASE UNCHANGED root
      BY <3>1 DEF TypeOK
    <3>2. CASE \E e \in Newest(Held(R)) : root' = [root EXCEPT ![p] = {e}]
      BY <2>2, <3>2 DEF TypeOK
    <3> QED
      BY <2>1, <3>1, <3>2
  <2>4. pc' \in [Publishers -> Positions]
    BY <2>1 DEF TypeOK, Positions
  <2> QED
    BY <1>2, <2>3, <2>4 DEF TypeOK, FetchRoot, remote
<1>3. ASSUME NEW p \in Publishers, FlattenTree(p) PROVE TypeOK'
  <2>1. PICK e \in root[p] :
          \/ /\ existing' = [existing EXCEPT ![p] = e.tree.ents]
             /\ pc' = [pc EXCEPT ![p] = "closure"]
             /\ UNCHANGED <<cfg, root, todo, fresh, queue, event, result>>
          \/ Finish(p, "err")
    BY <1>3 DEF FlattenTree
  <2>2. e.tree.ents \in EntryMaps
    BY DEF TypeOK, Events, Trees
  <2>3. UNCHANGED <<store, relay, clock, started>>
    BY <1>3 DEF FlattenTree, remote
  <2>4. CASE Finish(p, "err")
    BY <2>3, <2>4, FinishType DEF TypeOK
  <2>5. CASE ~Finish(p, "err")
    <3>1. /\ existing' = [existing EXCEPT ![p] = e.tree.ents]
          /\ pc' = [pc EXCEPT ![p] = "closure"]
          /\ UNCHANGED <<cfg, root, todo, fresh, queue, event, result>>
      BY <2>1, <2>5
    <3> QED
      BY <2>2, <2>3, <3>1 DEF TypeOK, Positions
  <2> QED
    BY <2>4, <2>5
<1>4. ASSUME NEW p \in Publishers, ResolveClosure(p) PROVE TypeOK'
  <2>1. cfg[p].paths \in SUBSET Paths
    BY ConfigAssumption DEF TypeOK
  <2> QED
    BY <1>4, <2>1 DEF TypeOK, ResolveClosure, remote, Positions
<1>5. ASSUME NEW p \in Publishers, ProcessPath(p) PROVE TypeOK'
  <2>1. PICK x \in todo[p], entry \in EntryBlobs :
          /\ todo' = [todo EXCEPT ![p] = @ \ {x}]
          /\ fresh' = [fresh EXCEPT ![p] = Merge([n \in {x} |-> entry], @)]
          /\ \/ queue' = [queue EXCEPT ![p] = <<>>]
             \/ queue' = [queue EXCEPT ![p] =
                            <<Nar(x, cfg[p]), NarInfo(x, cfg[p])>>]
    <3>1. PICK x \in todo[p] :
            /\ todo' = [todo EXCEPT ![p] = @ \ {x}]
            /\ LET known == x \in DOMAIN existing[p]
                   entry == IF known THEN existing[p][x] ELSE NarInfo(x, cfg[p])
               IN /\ fresh' = [fresh EXCEPT ![p] = Merge([n \in {x} |-> entry], @)]
                  /\ queue' = [queue EXCEPT ![p] =
                                 IF known \/ cfg[p].dry THEN <<>>
                                 ELSE <<Nar(x, cfg[p]), NarInfo(x, cfg[p])>>]
      BY <1>5 DEF ProcessPath
    <3>2. x \in Paths /\ cfg[p] \in Configs /\ existing[p] \in EntryMaps
      BY DEF TypeOK
    <3>3. NarInfo(x, cfg[p]) \in EntryBlobs
      BY <3>2, MadeBlobs
    <3>4. x \in DOMAIN existing[p] => existing[p][x] \in EntryBlobs
      BY <3>2, EntryType
    <3> QED
      BY <3>1, <3>3, <3>4
  <2>2. x \in Paths /\ cfg[p] \in Configs /\ fresh[p] \in EntryMaps
    BY DEF TypeOK
  <2>3. [n \in {x} |-> entry] \in EntryMaps
    BY <2>2, SmallMaps DEF Names
  <2>4. Merge([n \in {x} |-> entry], fresh[p]) \in EntryMaps
    BY <2>2, <2>3, MergeType
  <2>5. fresh' \in [Publishers -> EntryMaps]
    BY <2>1, <2>4 DEF TypeOK
  <2>6. <<Nar(x, cfg[p]), NarInfo(x, cfg[p])>> \in Seq(Blobs)
    BY <2>2, MadeBlobs
  <2>7. queue' \in [Publishers -> Seq(Blobs)]
    <3>1. <<>> \in Seq(Blobs)
      OBVIOUS
    <3>2. PICK q \in Seq(Blobs) : queue' = [queue EXCEPT ![p] = q]
      BY <2>1, <2>6, <3>1
    <3> QED
      BY <3>2 DEF TypeOK
  <2>8. todo' \in [Publishers -> SUBSET Paths]
    BY <2>1 DEF TypeOK
  <2> QED
    BY <1>5, <2>5, <2>7, <2>8 DEF TypeOK, ProcessPath, remote
<1>6. ASSUME NEW p \in Publishers, BuildTree(p) PROVE TypeOK'
  <2>1. ManifestNodes(NewTree(p)) \in Seq(Blobs)
    BY NewTreeType, NodesType
  <2>2. <<CacheInfo>> \in Seq(Blobs)
    BY DEF Blobs, EntryBlobs
  <2>3. <<CacheInfo>> \o ManifestNodes(NewTree(p)) \in Seq(Blobs)
    BY <2>1, <2>2
  <2> QED
    BY <1>6, <2>3 DEF TypeOK, BuildTree, remote, Positions
<1>7. ASSUME NEW p \in Publishers, Upload(p) PROVE TypeOK'
  <2>1. PICK W \in SUBSET cfg[p].servers :
          /\ store' = [s \in Servers |->
                         IF s \in W THEN store[s] \cup {Head(queue[p])}
                         ELSE store[s]]
          /\ \/ /\ queue' = [queue EXCEPT ![p] = Tail(@)]
                /\ UNCHANGED <<pc, cfg, root, existing, todo, fresh, event,
                               result>>
             \/ Finish(p, "err")
    BY <1>7 DEF Upload
  <2>2. queue[p] \in Seq(Blobs) /\ queue[p] # <<>>
    BY <1>7 DEF TypeOK, Upload
  <2>3. Head(queue[p]) \in Blobs /\ Tail(queue[p]) \in Seq(Blobs)
    BY <2>2
  <2>4. store' \in [Servers -> SUBSET Blobs]
    BY <2>1, <2>3 DEF TypeOK
  <2>5. UNCHANGED <<relay, clock, started>>
    BY <1>7 DEF Upload
  <2>6. CASE Finish(p, "err")
    BY <2>4, <2>5, <2>6, FinishType DEF TypeOK
  <2> QED
    BY <2>1, <2>3, <2>4, <2>5, <2>6 DEF TypeOK
<1>8. ASSUME NEW p \in Publishers, FinishDry(p) PROVE TypeOK'
  BY <1>8, FinishType DEF FinishDry, remote, TypeOK
<1>9. ASSUME NEW p \in Publishers, SignRoot(p) PROVE TypeOK'
  <2>1. cfg[p] \in Configs
    BY DEF TypeOK
  <2>2. cfg[p].servers \in SUBSET Servers /\ cfg[p].key \in Keys \cup {NoKey}
    BY <2>1, ConfigAssumption
  <2>3. clock + Skew[p] \in Int
    BY EnvironmentAssumption DEF TypeOK
  <2>4. NewTree(p) \in Trees
    BY NewTreeType
  <2>5. [tree |-> NewTree(p), servers |-> cfg[p].servers,
         keys |-> {cfg[p].key} \ {NoKey}, at |-> clock + Skew[p]] \in Events
    BY <2>2, <2>3, <2>4 DEF Events
  <2>6. event' \in [Publishers -> SUBSET Events]
    BY <1>9, <2>5 DEF TypeOK, SignRoot, RootEvent
  <2>7. clock' \in Nat
    BY <1>9, EnvironmentAssumption DEF TypeOK, SignRoot, RootEvent
  <2> QED
    BY <1>9, <2>6, <2>7 DEF TypeOK, SignRoot, remote, Positions
<1>10. ASSUME NEW p \in Publishers, SendRoot(p) PROVE TypeOK'
  <2>1. relay' \in [Relays -> SUBSET Events]
    BY <1>10 DEF SendRoot, TypeOK
  <2>2. PICK res \in {"ok", "err"} : Finish(p, res)
    BY <1>10 DEF SendRoot
  <2>3. UNCHANGED <<store, clock, started>>
    BY <1>10 DEF SendRoot
  <2> QED
    BY <2>1, <2>2, <2>3, FinishType DEF TypeOK
<1>11. ASSUME NEW p \in Publishers, Abort(p) PROVE TypeOK'
  BY <1>11, FinishType DEF Abort, remote, TypeOK
<1>12. CASE UNCHANGED vars
  BY <1>12 DEF vars, TypeOK
<1> QED
  BY <1>1, <1>2, <1>3, <1>4, <1>5, <1>6, <1>7, <1>8, <1>9, <1>10, <1>11,
     <1>12 DEF Next, Step

(* In every reachable state the variables have their types: no run ever    *)
(* uploads, merges or publishes anything but blobs, entries and trees.     *)
THEOREM TypeCorrect == Spec => []TypeOK
BY InitType, NextType, PTL DEF Spec

-----------------------------------------------------------------------------
(* Every root event has its blobs.                                         *)

(* The blobs that p has still to upload.                                   *)
Queued(p) == {queue[p][i] : i \in DOMAIN queue[p]}

(* An event that clients can be given.                                     *)
Backed(e) ==
  /\ \A b \in TreeNeeds(e.tree) : Stored(b, Servers)
  /\ \A b \in NodeSet(e.tree) : Stored(b, e.servers)

(* A blob a run relies on is stored, or the run is still to upload it.     *)
OnItsWay(b, p) == Stored(b, cfg[p].servers) \/ b \in Queued(p)

(* The entries a run reuses have their blobs; the entries it makes (unless *)
(* it is a dry run) have theirs stored or queued; and so have the nodes of *)
(* the tree it builds from them.  A signed event has everything.           *)
RunBacked(p) ==
  /\ \A e \in root[p] \cup event[p] : Backed(e)
  /\ \A n \in DOMAIN existing[p] :
       \A b \in EntryNeeds(existing[p][n]) : Stored(b, Servers)
  /\ ~cfg[p].dry =>
       \A n \in DOMAIN fresh[p] :
         \A b \in EntryNeeds(fresh[p][n]) :
           Stored(b, Servers) \/ b \in Queued(p)
  /\ pc[p] = "tree" /\ ~cfg[p].dry =>
       \A b \in NodeSet(NewTree(p)) \cup {CacheInfo} : OnItsWay(b, p)
  /\ pc[p] = "idle" => fresh[p] = EmptyMap

BackedInv ==
  /\ \A r \in Relays : \A e \in relay[r] : Backed(e)
  /\ \A p \in Publishers : RunBacked(p)

(* Servers never lose a blob.                                              *)
LEMMA StoreGrows ==
  ASSUME TypeOK, [Next]_vars
  PROVE  \A s \in Servers : store[s] \subseteq store'[s]
<1>1. ASSUME NEW p \in Publishers, Upload(p)
      PROVE  \A s \in Servers : store[s] \subseteq store'[s]
  BY <1>1 DEF Upload
<1>2. CASE UNCHANGED store
  BY <1>2
<1>3. (\E p \in Publishers : Upload(p)) \/ UNCHANGED store
  BY DEF Next, Step, vars, remote, Start, FetchRoot, FlattenTree, ResolveClosure,
         ProcessPath, BuildTree, FinishDry, SignRoot, SendRoot, Abort
<1> QED
  BY <1>1, <1>2, <1>3

(* A step leaves the memory of q as it is.                                 *)
Untouched(q) ==
  /\ pc'[q] = pc[q] /\ cfg'[q] = cfg[q] /\ root'[q] = root[q]
  /\ existing'[q] = existing[q] /\ todo'[q] = todo[q]
  /\ fresh'[q] = fresh[q] /\ queue'[q] = queue[q] /\ event'[q] = event[q]

(* The end of a run touches no other run.                                  *)
LEMMA FinishAlone ==
  ASSUME TypeOK, NEW p \in Publishers, NEW q \in Publishers, q # p,
         NEW res, Finish(p, res)
  PROVE  Untouched(q)
BY DEF TypeOK, Finish, Untouched

(* Publishers share no memory: a step of p touches no other run.           *)
LEMMA OthersUntouched ==
  ASSUME TypeOK, NEW p \in Publishers, NEW q \in Publishers, q # p,
         (\E c \in Configs : Start(p, c)) \/ Step(p) \/ Abort(p)
  PROVE  Untouched(q)
<1>1. CASE \E c \in Configs : Start(p, c)
  BY <1>1 DEF TypeOK, Start, Untouched
<1>2. CASE FetchRoot(p)
  <2>1. /\ \E v : pc' = [pc EXCEPT ![p] = v]
        /\ root' = root \/ \E v : root' = [root EXCEPT ![p] = v]
        /\ UNCHANGED <<cfg, existing, todo, fresh, queue, event>>
    BY <1>2 DEF FetchRoot
  <2> QED
    BY <2>1 DEF TypeOK, Untouched
<1>3. CASE FlattenTree(p)
  <2>1. CASE Finish(p, "err")
    BY <2>1, FinishAlone
  <2>2. CASE /\ \E v : existing' = [existing EXCEPT ![p] = v]
             /\ pc' = [pc EXCEPT ![p] = "closure"]
             /\ UNCHANGED <<cfg, root, todo, fresh, queue, event, result>>
    BY <2>2 DEF TypeOK, Untouched
  <2> QED
    BY <1>3, <2>1, <2>2 DEF FlattenTree
<1>4. CASE ResolveClosure(p)
  BY <1>4 DEF TypeOK, ResolveClosure, Untouched
<1>5. CASE ProcessPath(p)
  <2>1. /\ \E v : todo' = [todo EXCEPT ![p] = v]
        /\ \E v : fresh' = [fresh EXCEPT ![p] = v]
        /\ \E v : queue' = [queue EXCEPT ![p] = v]
        /\ UNCHANGED <<pc, cfg, root, existing, event>>
    BY <1>5 DEF ProcessPath
  <2> QED
    BY <2>1 DEF TypeOK, Untouched
<1>6. CASE Upload(p)
  <2>1. CASE Finish(p, "err")
    BY <2>1, FinishAlone
  <2>2. CASE /\ queue' = [queue EXCEPT ![p] = Tail(@)]
             /\ UNCHANGED <<pc, cfg, root, existing, todo, fresh, event, result>>
    BY <2>2 DEF TypeOK, Untouched
  <2> QED
    BY <1>6, <2>1, <2>2 DEF Upload
<1>7. CASE BuildTree(p)
  BY <1>7 DEF TypeOK, BuildTree, Untouched
<1>8. CASE FinishDry(p)
  BY <1>8, FinishAlone DEF FinishDry
<1>9. CASE SignRoot(p)
  BY <1>9 DEF TypeOK, SignRoot, RootEvent, Untouched
<1>10. CASE SendRoot(p)
  BY <1>10, FinishAlone DEF SendRoot
<1>11. CASE Abort(p)
  BY <1>11, FinishAlone DEF Abort
<1> QED
  BY <1>1, <1>2, <1>3, <1>4, <1>5, <1>6, <1>7, <1>8, <1>9, <1>10, <1>11 DEF Step

(* The store only grows: this is what the lemmas below ask of a step.      *)
Grows == \A s \in Servers : store[s] \subseteq store'[s]

(* What is stored stays stored.                                            *)
LEMMA StaysStored ==
  ASSUME Grows, NEW b, NEW S \in SUBSET Servers, Stored(b, S)
  PROVE  Stored(b, S)'
BY DEF Grows, Stored

(* An event that has its blobs keeps them.                                 *)
LEMMA StaysBacked ==
  ASSUME Grows, NEW e \in Events, Backed(e)
  PROVE  Backed(e)'
<1>1. e.servers \in SUBSET Servers
  BY DEF Events
<1> QED
  BY <1>1, StaysStored DEF Backed

(* A run that does not move keeps what it relies on.                       *)
LEMMA StaysRunBacked ==
  ASSUME TypeOK, Grows, NEW q \in Publishers, RunBacked(q), Untouched(q)
  PROVE  RunBacked(q)'
<1>1. /\ NewTree(q)' = NewTree(q)
      /\ Queued(q)' = Queued(q)
  BY DEF Untouched, NewTree, Queued
<1>2. cfg[q].servers \in SUBSET Servers
  BY ConfigAssumption DEF TypeOK
<1>3. \A e \in root'[q] \cup event'[q] : Backed(e)'
  BY StaysBacked DEF TypeOK, Untouched, RunBacked
<1>4. \A n \in DOMAIN existing'[q] :
        \A b \in EntryNeeds(existing'[q][n]) : Stored(b, Servers)'
  BY StaysStored DEF Untouched, RunBacked
<1>5. ~cfg'[q].dry =>
        \A n \in DOMAIN fresh'[q] :
          \A b \in EntryNeeds(fresh'[q][n]) :
            Stored(b, Servers)' \/ b \in Queued(q)'
  BY <1>1, StaysStored DEF Untouched, RunBacked
<1>6. pc'[q] = "tree" /\ ~cfg'[q].dry =>
        \A b \in NodeSet(NewTree(q)') \cup {CacheInfo} : OnItsWay(b, q)'
  BY <1>1, <1>2, StaysStored DEF Untouched, RunBacked, OnItsWay
<1>7. pc'[q] = "idle" => fresh'[q] = EmptyMap
  BY DEF Untouched, RunBacked
<1> QED
  BY <1>3, <1>4, <1>5, <1>6, <1>7 DEF RunBacked

(* A run that has ended relies on nothing.                                 *)
LEMMA FinishBacked ==
  ASSUME TypeOK, NEW p \in Publishers, NEW res, Finish(p, res)
  PROVE  RunBacked(p)'
<1>1. /\ pc'[p] = "idle" /\ root'[p] = {} /\ event'[p] = {}
      /\ existing'[p] = EmptyMap /\ fresh'[p] = EmptyMap
  BY DEF TypeOK, Finish
<1>2. DOMAIN existing'[p] = {} /\ DOMAIN fresh'[p] = {}
  BY <1>1, SmallMaps
<1> QED
  BY <1>1, <1>2 DEF RunBacked

(* What an entry needs is its blob and, for a narinfo, the NAR of the same *)
(* path and compression.                                                   *)
LEMMA MadeNeeds ==
  ASSUME NEW x, NEW c
  PROVE  EntryNeeds(NarInfo(x, c)) \subseteq {Nar(x, c), NarInfo(x, c)}
<1>1. NarInfo(x, c).narinfo = x /\ NarInfo(x, c).comp = c.comp
  BY DEF NarInfo
<1> QED
  BY <1>1 DEF EntryNeeds, Nar, CacheInfo, NarInfo

(* A run that starts keeps an empty map.                                   *)
LEMMA StartBacked ==
  ASSUME TypeOK, BackedInv, Grows, NEW p \in Publishers, NEW c \in Configs,
         Start(p, c)
  PROVE  RunBacked(p)'
<1>1. /\ pc'[p] = "fetch" /\ root'[p] = root[p] /\ event'[p] = event[p]
      /\ existing'[p] = existing[p] /\ fresh'[p] = fresh[p]
      /\ fresh[p] = EmptyMap
  BY DEF TypeOK, Start, BackedInv, RunBacked
<1>2. DOMAIN fresh'[p] = {}
  BY <1>1, SmallMaps
<1>3. \A e \in root'[p] \cup event'[p] : Backed(e)'
  BY <1>1, StaysBacked DEF TypeOK, BackedInv, RunBacked
<1>4. \A n \in DOMAIN existing'[p] :
        \A b \in EntryNeeds(existing'[p][n]) : Stored(b, Servers)'
  BY <1>1, StaysStored DEF BackedInv, RunBacked
<1> QED
  BY <1>1, <1>2, <1>3, <1>4 DEF RunBacked

(* The steps that change neither the entries, nor the queue, nor the       *)
(* command line of the run, and do not lead to "tree" or "idle", keep what *)
(* they need if the events and the entries they take up are backed.        *)
LEMMA QuietBacked ==
  ASSUME TypeOK, Grows, NEW p \in Publishers, RunBacked(p),
         cfg'[p] = cfg[p], fresh'[p] = fresh[p], queue'[p] = queue[p],
         pc'[p] \notin {"tree", "idle"},
         \A e \in root'[p] \cup event'[p] : Backed(e)',
         \A n \in DOMAIN existing'[p] :
           \A b \in EntryNeeds(existing'[p][n]) : Stored(b, Servers)'
  PROVE  RunBacked(p)'
<1>1. Queued(p)' = Queued(p)
  BY DEF Queued
<1>2. ~cfg'[p].dry =>
        \A n \in DOMAIN fresh'[p] :
          \A b \in EntryNeeds(fresh'[p][n]) :
            Stored(b, Servers)' \/ b \in Queued(p)'
  BY <1>1, StaysStored DEF RunBacked
<1> QED
  BY <1>2 DEF RunBacked

(* The fetched event is one that a relay holds.                            *)
LEMMA FetchBacked ==
  ASSUME TypeOK, BackedInv, Grows, NEW p \in Publishers, FetchRoot(p)
  PROVE  RunBacked(p)'
<1>1. PICK R \in FetchSets :
        \/ pc' = [pc EXCEPT ![p] = "closure"] /\ UNCHANGED root
        \/ \E e \in Newest(Held(R)) :
             /\ root' = [root EXCEPT ![p] = {e}]
             /\ pc' = [pc EXCEPT ![p] = "flatten"]
  BY DEF FetchRoot
<1>2. R \in SUBSET Relays
  BY EnvironmentAssumption
<1>3. \A e \in Newest(Held(R)) : e \in Events /\ Backed(e)
  BY <1>2 DEF TypeOK, BackedInv, Held, Newest
<1>4. \A e \in root[p] \cup event[p] : e \in Events /\ Backed(e)
  BY DEF TypeOK, BackedInv, RunBacked
<1>5. \A e \in root'[p] : e \in Events /\ Backed(e)
  <2>1. CASE UNCHANGED root
    BY <1>4, <2>1
  <2>2. CASE \E e \in Newest(Held(R)) : root' = [root EXCEPT ![p] = {e}]
    BY <1>3, <2>2 DEF TypeOK
  <2> QED
    BY <1>1, <2>1, <2>2
<1>6. event' = event /\ existing' = existing /\ fresh' = fresh /\ queue' = queue
      /\ cfg' = cfg
  BY DEF FetchRoot
<1>7. \A e \in root'[p] \cup event'[p] : Backed(e)'
  BY <1>4, <1>5, <1>6, StaysBacked
<1>8. \A n \in DOMAIN existing'[p] :
        \A b \in EntryNeeds(existing'[p][n]) : Stored(b, Servers)'
  BY <1>6, StaysStored DEF BackedInv, RunBacked
<1>9. pc'[p] \notin {"tree", "idle"}
  BY <1>1 DEF TypeOK
<1>10. RunBacked(p)
  BY DEF BackedInv
<1> QED
  BY <1>6, <1>7, <1>8, <1>9, <1>10, QuietBacked

(* The entries of a backed tree are backed.                                *)
LEMMA FlattenBacked ==
  ASSUME TypeOK, BackedInv, Grows, NEW p \in Publishers, FlattenTree(p)
  PROVE  RunBacked(p)'
<1>1. CASE Finish(p, "err")
  BY <1>1, FinishBacked
<1>2. CASE ~Finish(p, "err")
  <2>1. PICK e \in root[p] :
          /\ existing' = [existing EXCEPT ![p] = e.tree.ents]
          /\ pc' = [pc EXCEPT ![p] = "closure"]
          /\ UNCHANGED <<cfg, root, todo, fresh, queue, event, result>>
    BY <1>2 DEF FlattenTree
  <2>2. \A d \in root[p] \cup event[p] : d \in Events /\ Backed(d)
    BY DEF TypeOK, BackedInv, RunBacked
  <2>3. existing'[p] = e.tree.ents
    BY <2>1 DEF TypeOK
  <2>4. \A n \in DOMAIN existing'[p] :
          \A b \in EntryNeeds(existing'[p][n]) : b \in TreeNeeds(e.tree)
    BY <2>3 DEF TreeNeeds
  <2>5. \A n \in DOMAIN existing'[p] :
          \A b \in EntryNeeds(existing'[p][n]) : Stored(b, Servers)'
    BY <2>2, <2>4, StaysStored DEF Backed
  <2>6. \A d \in root'[p] \cup event'[p] : Backed(d)'
    BY <2>1, <2>2, StaysBacked
  <2>7. pc'[p] \notin {"tree", "idle"}
    BY <2>1 DEF TypeOK
  <2>8. RunBacked(p)
    BY DEF BackedInv
  <2> QED
    BY <2>1, <2>5, <2>6, <2>7, <2>8, QuietBacked
<1> QED
  BY <1>1, <1>2

(* Resolving the closure takes up no event and no entry.                   *)
LEMMA ResolveBacked ==
  ASSUME TypeOK, BackedInv, Grows, NEW p \in Publishers, ResolveClosure(p)
  PROVE  RunBacked(p)'
<1>1. \A e \in root'[p] \cup event'[p] : Backed(e)'
  BY StaysBacked DEF TypeOK, BackedInv, RunBacked, ResolveClosure
<1>2. \A n \in DOMAIN existing'[p] :
        \A b \in EntryNeeds(existing'[p][n]) : Stored(b, Servers)'
  BY StaysStored DEF BackedInv, RunBacked, ResolveClosure
<1>3. pc'[p] = "process" /\ cfg' = cfg /\ fresh' = fresh /\ queue' = queue
  BY DEF TypeOK, ResolveClosure
<1> QED
  BY <1>1, <1>2, <1>3, QuietBacked DEF BackedInv

(* A path is either reused, and its entry backed by the existing tree, or  *)
(* made, and then its NAR and its narinfo are what is queued.              *)
LEMMA ProcessBacked ==
  ASSUME TypeOK, BackedInv, Grows, NEW p \in Publishers, ProcessPath(p)
  PROVE  RunBacked(p)'
<1> DEFINE Entry(x) == IF x \in DOMAIN existing[p]
                       THEN existing[p][x] ELSE NarInfo(x, cfg[p])
<1>0. PICK x \in todo[p] :
        /\ fresh' = [fresh EXCEPT ![p] = Merge([n \in {x} |-> Entry(x)], @)]
        /\ queue' = [queue EXCEPT ![p] =
                       IF x \in DOMAIN existing[p] \/ cfg[p].dry THEN <<>>
                       ELSE <<Nar(x, cfg[p]), NarInfo(x, cfg[p])>>]
  BY DEF ProcessPath
<1> DEFINE entry == Entry(x)
<1>1. /\ entry = IF x \in DOMAIN existing[p]
                 THEN existing[p][x] ELSE NarInfo(x, cfg[p])
      /\ fresh' = [fresh EXCEPT ![p] = Merge([n \in {x} |-> entry], @)]
      /\ queue' = [queue EXCEPT ![p] =
                     IF x \in DOMAIN existing[p] \/ cfg[p].dry THEN <<>>
                     ELSE <<Nar(x, cfg[p]), NarInfo(x, cfg[p])>>]
  BY <1>0
<1> HIDE DEF entry
<1>2. /\ pc[p] = "process" /\ queue[p] = <<>> /\ pc' = pc /\ cfg' = cfg
      /\ root' = root /\ event' = event /\ existing' = existing
  BY DEF ProcessPath
<1>3. /\ fresh'[p] = Merge([n \in {x} |-> entry], fresh[p])
      /\ queue'[p] = IF x \in DOMAIN existing[p] \/ cfg[p].dry THEN <<>>
                     ELSE <<Nar(x, cfg[p]), NarInfo(x, cfg[p])>>
  BY <1>1 DEF TypeOK
<1>4. \A e \in root'[p] \cup event'[p] : Backed(e)'
  BY <1>2, StaysBacked DEF TypeOK, BackedInv, RunBacked
<1>5. \A n \in DOMAIN existing'[p] :
        \A b \in EntryNeeds(existing'[p][n]) : Stored(b, Servers)'
  BY <1>2, StaysStored DEF BackedInv, RunBacked
<1>6. ASSUME ~cfg[p].dry, NEW n \in DOMAIN fresh'[p],
             NEW b \in EntryNeeds(fresh'[p][n])
      PROVE  Stored(b, Servers)' \/ b \in Queued(p)'
  <2>1. CASE n = x /\ x \in DOMAIN existing[p]
    <3>1. fresh'[p][n] = existing'[p][x] /\ x \in DOMAIN existing'[p]
      BY <1>1, <1>2, <1>3, <2>1 DEF Merge
    <3> QED
      BY <1>5, <1>6, <3>1
  <2>2. CASE n = x /\ x \notin DOMAIN existing[p]
    <3>1. fresh'[p][n] = NarInfo(x, cfg[p])
      BY <1>1, <1>3, <2>2 DEF Merge
    <3>2. b \in {Nar(x, cfg[p]), NarInfo(x, cfg[p])}
      BY <1>6, <3>1, MadeNeeds
    <3>3. queue'[p] = <<Nar(x, cfg[p]), NarInfo(x, cfg[p])>>
      BY <1>3, <1>6, <2>2
    <3>4. Queued(p)' = {queue'[p][j] : j \in DOMAIN queue'[p]}
      BY DEF Queued
    <3>5. DOMAIN queue'[p] = 1..2 /\ queue'[p][1] = Nar(x, cfg[p])
          /\ queue'[p][2] = NarInfo(x, cfg[p])
      BY <3>3
    <3> QED
      BY <3>2, <3>4, <3>5
  <2>3. CASE n # x
    <3>1. n \in DOMAIN fresh[p] /\ fresh'[p][n] = fresh[p][n]
      BY <1>3, <2>3 DEF Merge
    <3>2. Queued(p) = {}
      BY <1>2 DEF Queued
    <3>3. Stored(b, Servers)
      BY <1>6, <3>1, <3>2 DEF BackedInv, RunBacked
    <3> QED
      BY <3>3, StaysStored
  <2> QED
    BY <2>1, <2>2, <2>3
<1>7. pc'[p] = "process"
  BY <1>2
<1> QED
  BY <1>2, <1>4, <1>5, <1>6, <1>7 DEF RunBacked

(* The tree a run builds needs nothing but its nodes, nix-cache-info, and  *)
(* what the entries it made or found need.                                 *)
LEMMA NewTreeNeeds ==
  ASSUME TypeOK, NEW p \in Publishers, NEW b \in TreeNeeds(NewTree(p))
  PROVE  \/ b \in NodeSet(NewTree(p)) \cup {CacheInfo}
         \/ \E n \in DOMAIN fresh[p] : b \in EntryNeeds(fresh[p][n])
         \/ \E n \in DOMAIN existing[p] : b \in EntryNeeds(existing[p][n])
<1>1. CASE b \in NodeSet(NewTree(p))
  BY <1>1
<1>2. CASE \E n \in DOMAIN NewTree(p).ents : b \in EntryNeeds(NewTree(p).ents[n])
  <2>1. PICK n \in DOMAIN NewTree(p).ents : b \in EntryNeeds(NewTree(p).ents[n])
    BY <1>2
  <2>2. EntryNeeds(CacheInfo) = {CacheInfo}
    BY DEF EntryNeeds
  <2> QED
    BY <2>1, <2>2, NewTreeType
<1> QED
  BY <1>1, <1>2 DEF TreeNeeds

(* When the tree is built, nix-cache-info and its nodes are all queued.    *)
LEMMA BuildBacked ==
  ASSUME TypeOK, BackedInv, Grows, NEW p \in Publishers, BuildTree(p)
  PROVE  RunBacked(p)'
<1>1. /\ pc[p] = "process" /\ queue[p] = <<>> /\ cfg' = cfg /\ fresh' = fresh
      /\ root' = root /\ event' = event /\ existing' = existing
      /\ pc'[p] = "tree"
  BY DEF TypeOK, BuildTree
<1>2. \A e \in root'[p] \cup event'[p] : Backed(e)'
  BY <1>1, StaysBacked DEF TypeOK, BackedInv, RunBacked
<1>3. \A n \in DOMAIN existing'[p] :
        \A b \in EntryNeeds(existing'[p][n]) : Stored(b, Servers)'
  BY <1>1, StaysStored DEF BackedInv, RunBacked
<1>4. Queued(p) = {}
  BY <1>1 DEF Queued
<1>5. ~cfg'[p].dry =>
        \A n \in DOMAIN fresh'[p] :
          \A b \in EntryNeeds(fresh'[p][n]) : Stored(b, Servers)'
  BY <1>1, <1>4, StaysStored DEF BackedInv, RunBacked
<1>6. ASSUME ~cfg[p].dry, NEW b \in NodeSet(NewTree(p)') \cup {CacheInfo}
      PROVE  b \in Queued(p)'
  <2> DEFINE m == ManifestNodes(NewTree(p))
  <2>1. NewTree(p)' = NewTree(p)
    BY <1>1 DEF NewTree
  <2>2. m \in Seq(Blobs)
    BY NewTreeType, NodesType
  <2>3. queue'[p] = <<CacheInfo>> \o m
    BY <1>6 DEF TypeOK, BuildTree
  <2>4. Queued(p)' = {queue'[p][j] : j \in DOMAIN queue'[p]}
    BY DEF Queued
  <2>5. NodeSet(NewTree(p)) = {m[j] : j \in DOMAIN m}
    BY DEF NodeSet
  <2> HIDE DEF m
  <2>6. CASE b = CacheInfo
    <3>1. 1 \in DOMAIN queue'[p] /\ queue'[p][1] = CacheInfo
      BY <2>2, <2>3
    <3> QED
      BY <2>4, <2>6, <3>1
  <2>7. CASE b # CacheInfo
    <3>1. PICK j \in DOMAIN m : b = m[j]
      BY <1>6, <2>1, <2>5, <2>7
    <3>2. j + 1 \in DOMAIN queue'[p] /\ queue'[p][j + 1] = m[j]
      BY <2>2, <2>3, <3>1
    <3> QED
      BY <2>4, <3>1, <3>2
  <2> QED
    BY <2>6, <2>7
<1> QED
  BY <1>1, <1>2, <1>3, <1>5, <1>6 DEF RunBacked, OnItsWay

(* A blob leaves the queue when one of the run's servers has it.           *)
LEMMA UploadBacked ==
  ASSUME TypeOK, BackedInv, Grows, NEW p \in Publishers, Upload(p)
  PROVE  RunBacked(p)'
<1>1. CASE Finish(p, "err")
  BY <1>1, FinishBacked
<1>2. CASE ~Finish(p, "err")
  <2>0. PICK h : h = Head(queue[p])
    OBVIOUS
  <2>1. /\ Stored(h, cfg[p].servers)'
        /\ queue'[p] = Tail(queue[p])
        /\ UNCHANGED <<pc, cfg, root, existing, todo, fresh, event, result>>
    <3>1. PICK W \in SUBSET cfg[p].servers :
            /\ store' = [s \in Servers |->
                           IF s \in W THEN store[s] \cup {h} ELSE store[s]]
            /\ \E s \in cfg[p].servers : s \in W \/ h \in store[s]
            /\ queue' = [queue EXCEPT ![p] = Tail(@)]
            /\ UNCHANGED <<pc, cfg, root, existing, todo, fresh, event, result>>
      BY <1>2, <2>0 DEF Upload
    <3>2. cfg[p].servers \subseteq Servers
      BY ConfigAssumption DEF TypeOK
    <3>3. \E s \in cfg[p].servers : h \in store'[s]
      BY <3>1, <3>2
    <3> QED
      BY <3>1, <3>3 DEF TypeOK, Stored
  <2>2. cfg[p].servers \in SUBSET Servers
    BY ConfigAssumption DEF TypeOK
  <2>3. Stored(h, Servers)'
    BY <2>1, <2>2 DEF Stored
  <2>4. \A b \in Queued(p) : b = h \/ b \in Queued(p)'
    <3>1. queue[p] \in Seq(Blobs) /\ queue[p] # <<>>
      BY DEF TypeOK, Upload
    <3>2. ASSUME NEW j \in DOMAIN queue[p], j # 1
          PROVE  j - 1 \in DOMAIN queue'[p] /\ queue'[p][j - 1] = queue[p][j]
      BY <2>1, <3>1, <3>2
    <3>3. Queued(p)' = {queue'[p][j] : j \in DOMAIN queue'[p]}
      BY DEF Queued
    <3>4. h = queue[p][1]
      BY <2>0, <3>1
    <3> QED
      BY <3>2, <3>3, <3>4 DEF Queued
  <2>5. \A e \in root'[p] \cup event'[p] : Backed(e)'
    BY <2>1, StaysBacked DEF TypeOK, BackedInv, RunBacked
  <2>6. \A n \in DOMAIN existing'[p] :
          \A b \in EntryNeeds(existing'[p][n]) : Stored(b, Servers)'
    BY <2>1, StaysStored DEF BackedInv, RunBacked
  <2>7. ~cfg'[p].dry =>
          \A n \in DOMAIN fresh'[p] :
            \A b \in EntryNeeds(fresh'[p][n]) :
              Stored(b, Servers)' \/ b \in Queued(p)'
    BY <2>1, <2>3, <2>4, StaysStored DEF BackedInv, RunBacked
  <2>8. NewTree(p)' = NewTree(p)
    BY <2>1 DEF NewTree
  <2>9. pc'[p] = "tree" /\ ~cfg'[p].dry =>
          \A b \in NodeSet(NewTree(p)') \cup {CacheInfo} : OnItsWay(b, p)'
    <3>1. ASSUME NEW b, OnItsWay(b, p) PROVE OnItsWay(b, p)'
      BY <2>1, <2>2, <2>4, <3>1, StaysStored DEF OnItsWay
    <3> QED
      BY <2>1, <2>8, <3>1 DEF BackedInv, RunBacked
  <2>10. pc'[p] = "idle" => fresh'[p] = EmptyMap
    BY <2>1 DEF BackedInv, RunBacked
  <2> QED
    BY <2>5, <2>6, <2>7, <2>9, <2>10 DEF RunBacked
<1> QED
  BY <1>1, <1>2

(* A run signs its event when its queue is empty: nothing is on its way    *)
(* any more, so everything its tree needs is stored.                       *)
LEMMA SignBacked ==
  ASSUME TypeOK, BackedInv, Grows, NEW p \in Publishers, SignRoot(p)
  PROVE  RunBacked(p)'
<1>1. /\ pc[p] = "tree" /\ queue[p] = <<>> /\ ~cfg[p].dry /\ cfg' = cfg
      /\ fresh' = fresh /\ root' = root /\ queue' = queue
      /\ existing' = existing /\ pc'[p] = "send"
  BY DEF TypeOK, SignRoot, RootEvent
<1>2. PICK d : /\ d = [tree |-> NewTree(p), servers |-> cfg[p].servers,
                      keys |-> {cfg[p].key} \ {NoKey}, at |-> clock + Skew[p]]
               /\ event'[p] = {d}
  BY DEF TypeOK, SignRoot, RootEvent
<1>3. cfg[p].servers \in SUBSET Servers /\ cfg[p].servers \subseteq Servers
  BY ConfigAssumption DEF TypeOK
<1>4. Queued(p) = {}
  BY <1>1 DEF Queued
<1>5. \A b \in NodeSet(NewTree(p)) \cup {CacheInfo} : Stored(b, cfg[p].servers)
  BY <1>1, <1>4 DEF BackedInv, RunBacked, OnItsWay
<1>6. \A b \in TreeNeeds(NewTree(p)) : Stored(b, Servers)
  <2>1. \A b : Stored(b, cfg[p].servers) => Stored(b, Servers)
    BY <1>3 DEF Stored
  <2>2. \A n \in DOMAIN fresh[p] : \A b \in EntryNeeds(fresh[p][n]) : Stored(b, Servers)
    BY <1>1, <1>4 DEF BackedInv, RunBacked
  <2>3. \A n \in DOMAIN existing[p] :
          \A b \in EntryNeeds(existing[p][n]) : Stored(b, Servers)
    BY DEF BackedInv, RunBacked
  <2> QED
    BY <1>5, <2>1, <2>2, <2>3, NewTreeNeeds
<1>7. d.tree = NewTree(p) /\ d.servers = cfg[p].servers
  BY <1>2
<1>8. \A b \in TreeNeeds(d.tree) : Stored(b, Servers)'
  BY <1>6, <1>7, StaysStored
<1>9. \A b \in NodeSet(d.tree) : Stored(b, d.servers)'
  BY <1>3, <1>5, <1>7, StaysStored
<1>10. Backed(d)'
  BY <1>8, <1>9 DEF Backed
<1>11. \A e \in root'[p] : Backed(e)'
  BY <1>1, StaysBacked DEF TypeOK, BackedInv, RunBacked
<1>12. \A e \in root'[p] \cup event'[p] : Backed(e)'
  BY <1>2, <1>10, <1>11
<1>13. \A n \in DOMAIN existing'[p] :
         \A b \in EntryNeeds(existing'[p][n]) : Stored(b, Servers)'
  BY <1>1, StaysStored DEF BackedInv, RunBacked
<1>14. pc'[p] \notin {"tree", "idle"} /\ RunBacked(p)
  BY <1>1 DEF BackedInv
<1> QED
  BY <1>1, <1>12, <1>13, <1>14, QuietBacked

(* The invariant is kept by every step.                                    *)
LEMMA NextBacked == TypeOK /\ BackedInv /\ [Next]_vars => BackedInv'
<1> SUFFICES ASSUME TypeOK, BackedInv, [Next]_vars PROVE BackedInv'
  OBVIOUS
<1>1. Grows
  BY StoreGrows DEF Grows
<1>2. ASSUME NEW p \in Publishers,
             (\E c \in Configs : Start(p, c)) \/ Step(p) \/ Abort(p)
      PROVE  BackedInv'
  <2>1. ASSUME NEW r \in Relays, NEW e \in relay'[r] PROVE Backed(e)'
    <3>1. e \in relay[r] \/ e \in event[p]
      <4>1. CASE SendRoot(p)
        BY <4>1 DEF SendRoot
      <4>2. CASE ~SendRoot(p)
        BY <1>2, <4>2 DEF Step, remote, Start, FetchRoot, FlattenTree, ResolveClosure,
           ProcessPath, BuildTree, Upload, FinishDry, SignRoot, Abort
      <4> QED
        BY <4>1, <4>2
    <3>2. e \in Events /\ Backed(e)
      BY <3>1 DEF TypeOK, BackedInv, RunBacked
    <3> QED
      BY <1>1, <3>2, StaysBacked
  <2>2. RunBacked(p)'
    <3>1. CASE \E c \in Configs : Start(p, c)
      BY <1>1, <3>1, StartBacked
    <3>2. CASE Step(p)
      <4>1. CASE FetchRoot(p) \/ FlattenTree(p) \/ ResolveClosure(p)
        BY <1>1, <4>1, FetchBacked, FlattenBacked, ResolveBacked
      <4>2. CASE ProcessPath(p) \/ Upload(p) \/ BuildTree(p)
        BY <1>1, <4>2, ProcessBacked, UploadBacked, BuildBacked
      <4>3. CASE SignRoot(p)
        BY <1>1, <4>3, SignBacked
      <4>4. CASE FinishDry(p) \/ SendRoot(p)
        BY <4>4, FinishBacked DEF FinishDry, SendRoot
      <4> QED
        BY <3>2, <4>1, <4>2, <4>3, <4>4 DEF Step
    <3>3. CASE Abort(p)
      BY <3>3, FinishBacked DEF Abort
    <3> QED
      BY <1>2, <3>1, <3>2, <3>3
  <2>3. ASSUME NEW q \in Publishers, q # p PROVE RunBacked(q)'
    <3>1. Untouched(q)
      BY <1>2, <2>3, OthersUntouched
    <3>2. RunBacked(q)
      BY DEF BackedInv
    <3> QED
      BY <1>1, <3>1, <3>2, StaysRunBacked
  <2> QED
    BY <2>1, <2>2, <2>3 DEF BackedInv
<1>3. CASE UNCHANGED vars
  <2>1. \A q \in Publishers : Untouched(q)
    BY <1>3 DEF vars, Untouched
  <2>2. \A q \in Publishers : RunBacked(q)'
    BY <1>1, <2>1, StaysRunBacked DEF BackedInv
  <2>3. \A r \in Relays : \A e \in relay'[r] : Backed(e)'
    BY <1>1, <1>3, StaysBacked DEF vars, TypeOK, BackedInv
  <2> QED
    BY <2>2, <2>3 DEF BackedInv
<1> QED
  BY <1>2, <1>3 DEF Next

(* It holds at the start: there are no events and no entries.              *)
LEMMA InitBacked == Init => BackedInv
<1> SUFFICES ASSUME Init PROVE BackedInv
  OBVIOUS
<1>1. DOMAIN EmptyMap = {}
  BY SmallMaps
<1> QED
  BY <1>1 DEF Init, BackedInv, RunBacked

(* The invariant holds throughout.                                         *)
LEMMA AlwaysBacked == Spec => []BackedInv
BY TypeCorrect, InitBacked, NextBacked, PTL DEF Spec

(* Whatever fails, crashes, is lost or runs concurrently, a root event is  *)
(* never on a relay before every blob its tree needs is on some server.    *)
THEOREM RootAlwaysBacked == Spec => []RootBacked
<1>1. BackedInv => RootBacked
  BY DEF BackedInv, Backed, RootBacked
<1> QED
  BY <1>1, AlwaysBacked, PTL

(* The next publish can always read the tree it builds on from the servers *)
(* that the root event names, even if blobs of the entries are elsewhere.  *)
THEOREM NodesAlwaysServed == Spec => []NodesServed
<1>1. BackedInv => NodesServed
  BY DEF BackedInv, Backed, NodesServed
<1> QED
  BY <1>1, AlwaysBacked, PTL

-----------------------------------------------------------------------------
(* Every published tree is closed under references, and has the closure    *)
(* that the run that published it was started for.                         *)

(* A tree that is closed under references.                                 *)
ClosedTree(t) ==
  \A x \in DOMAIN t.ents \cap Paths : Refs[x] \subseteq DOMAIN t.ents

(* The entries a run starts from are closed; the entries it has made and   *)
(* the paths it has still to process make up its closure; no path is left  *)
(* when it builds the tree, and the event it signs has them all.           *)
RunClosed(p) ==
  /\ \A e \in root[p] \cup event[p] : ClosedTree(e.tree)
  /\ \A x \in DOMAIN existing[p] \cap Paths :
       Refs[x] \subseteq DOMAIN existing[p]
  /\ pc[p] \in {"process", "tree"} =>
       cfg[p].paths \subseteq DOMAIN fresh[p] \cup todo[p]
  /\ pc[p] = "tree" => todo[p] = {}
  /\ pc[p] = "send" =>
       \A e \in event[p] : cfg[p].paths \subseteq DOMAIN e.tree.ents
  /\ DOMAIN fresh[p] \cup todo[p] \subseteq cfg[p].paths
  /\ pc[p] = "idle" => fresh[p] = EmptyMap /\ todo[p] = {}
  /\ pc[p] # "send" => event[p] = {}

ClosedInv ==
  /\ \A r \in Relays : \A e \in relay[r] : ClosedTree(e.tree)
  /\ \A p \in Publishers : RunClosed(p)

(* A run that has ended has empty maps.                                    *)
LEMMA FinishClosed ==
  ASSUME TypeOK, NEW p \in Publishers, NEW res, Finish(p, res)
  PROVE  RunClosed(p)'
<1>1. /\ pc'[p] = "idle" /\ root'[p] = {} /\ event'[p] = {}
      /\ existing'[p] = EmptyMap /\ fresh'[p] = EmptyMap /\ todo'[p] = {}
  BY DEF TypeOK, Finish
<1>2. DOMAIN existing'[p] = {} /\ DOMAIN fresh'[p] = {}
  BY <1>1, SmallMaps
<1> QED
  BY <1>1, <1>2 DEF RunClosed

(* The tree a run builds is closed: the run's own paths are, being a       *)
(* closure, and so are the entries it found.                               *)
LEMMA NewTreeClosed ==
  ASSUME TypeOK, NEW p \in Publishers, RunClosed(p), pc[p] = "tree"
  PROVE  /\ ClosedTree(NewTree(p))
         /\ cfg[p].paths \subseteq DOMAIN NewTree(p).ents
<1>1. /\ DOMAIN fresh[p] = cfg[p].paths
      /\ \A x \in DOMAIN existing[p] \cap Paths : Refs[x] \subseteq DOMAIN existing[p]
  BY DEF RunClosed
<1>2. cfg[p] \in Configs
  BY DEF TypeOK
<1>3. \A x \in cfg[p].paths : Refs[x] \subseteq cfg[p].paths
  BY <1>2, ConfigAssumption
<1>4. DOMAIN NewTree(p).ents = {CacheInfoName} \cup DOMAIN fresh[p] \cup DOMAIN existing[p]
  BY NewTreeType
<1>5. CacheInfoName \notin Paths
  BY ConfigAssumption
<1> QED
  BY <1>1, <1>3, <1>4, <1>5 DEF ClosedTree

(* What a run relies on, when it does not move.                            *)
LEMMA StaysRunClosed ==
  ASSUME NEW q \in Publishers, RunClosed(q), Untouched(q)
  PROVE  RunClosed(q)'
BY DEF RunClosed, Untouched

(* Every step of a run keeps what it relies on.                            *)
LEMMA StepClosed ==
  ASSUME TypeOK, ClosedInv, NEW p \in Publishers,
         (\E c \in Configs : Start(p, c)) \/ Step(p) \/ Abort(p)
  PROVE  RunClosed(p)'
<1>0. RunClosed(p)
  BY DEF ClosedInv
<1>1. ASSUME NEW c \in Configs, Start(p, c) PROVE RunClosed(p)'
  <2>1. /\ pc[p] = "idle" /\ pc'[p] = "fetch" /\ cfg'[p] = c
        /\ UNCHANGED <<root, existing, todo, fresh, event>>
    BY <1>1 DEF TypeOK, Start
  <2>2. DOMAIN fresh[p] = {}
    BY <1>0, <2>1, SmallMaps DEF RunClosed
  <2> QED
    BY <1>0, <2>1, <2>2 DEF RunClosed
<1>2. CASE FetchRoot(p)
  <2>1. PICK R \in FetchSets :
          \/ pc' = [pc EXCEPT ![p] = "closure"] /\ UNCHANGED root
          \/ \E e \in Newest(Held(R)) :
               /\ root' = [root EXCEPT ![p] = {e}]
               /\ pc' = [pc EXCEPT ![p] = "flatten"]
    BY <1>2 DEF FetchRoot
  <2>2. R \in SUBSET Relays
    BY EnvironmentAssumption
  <2>3. \A e \in Newest(Held(R)) : ClosedTree(e.tree)
    BY <2>2 DEF ClosedInv, Held, Newest
  <2>4. \A e \in root'[p] : ClosedTree(e.tree)
    <3>1. CASE UNCHANGED root
      BY <1>0, <3>1 DEF RunClosed
    <3>2. CASE \E e \in Newest(Held(R)) : root' = [root EXCEPT ![p] = {e}]
      BY <2>3, <3>2 DEF TypeOK
    <3> QED
      BY <2>1, <3>1, <3>2
  <2>5. /\ pc[p] = "fetch" /\ pc'[p] \in {"closure", "flatten"}
        /\ UNCHANGED <<cfg, existing, todo, fresh, event>>
    BY <1>2, <2>1 DEF TypeOK, FetchRoot
  <2> QED
    BY <1>0, <2>4, <2>5 DEF RunClosed
<1>3. CASE FlattenTree(p)
  <2>1. CASE ~Finish(p, "err")
    <3>1. PICK e \in root[p] :
            /\ existing' = [existing EXCEPT ![p] = e.tree.ents]
            /\ pc' = [pc EXCEPT ![p] = "closure"]
            /\ UNCHANGED <<cfg, root, todo, fresh, queue, event, result>>
      BY <1>3, <2>1 DEF FlattenTree
    <3>2. existing'[p] = e.tree.ents /\ pc'[p] = "closure" /\ pc[p] = "flatten"
      BY <1>3, <3>1 DEF TypeOK, FlattenTree
    <3>3. ClosedTree(e.tree)
      BY <1>0 DEF RunClosed
    <3>4. \A x \in DOMAIN existing'[p] \cap Paths : Refs[x] \subseteq DOMAIN existing'[p]
      BY <3>2, <3>3 DEF ClosedTree
    <3> QED
      BY <1>0, <3>1, <3>2, <3>4 DEF RunClosed
  <2> QED
    BY <2>1, FinishClosed
<1>4. CASE ResolveClosure(p)
  <2>1. /\ pc[p] = "closure" /\ pc'[p] = "process" /\ todo'[p] = cfg[p].paths
        /\ UNCHANGED <<cfg, root, existing, fresh, event>>
    BY <1>4 DEF TypeOK, ResolveClosure
  <2> QED
    BY <1>0, <2>1 DEF RunClosed
<1>5. CASE ProcessPath(p)
  <2> DEFINE Entry(x) == IF x \in DOMAIN existing[p]
                         THEN existing[p][x] ELSE NarInfo(x, cfg[p])
  <2>1. PICK x \in todo[p] :
          /\ todo' = [todo EXCEPT ![p] = @ \ {x}]
          /\ fresh' = [fresh EXCEPT ![p] = Merge([n \in {x} |-> Entry(x)], @)]
    BY <1>5 DEF ProcessPath
  <2>2. todo'[p] = todo[p] \ {x} /\ DOMAIN fresh'[p] = {x} \cup DOMAIN fresh[p]
    BY <2>1 DEF TypeOK, Merge
  <2>3. pc[p] = "process" /\ UNCHANGED <<pc, cfg, root, existing, event>>
    BY <1>5 DEF ProcessPath
  <2> QED
    BY <1>0, <2>2, <2>3 DEF RunClosed
<1>6. CASE Upload(p)
  <2>1. CASE ~Finish(p, "err")
    <3>1. UNCHANGED <<pc, cfg, root, existing, todo, fresh, event, result>>
      BY <1>6, <2>1 DEF Upload
    <3> QED
      BY <1>0, <3>1 DEF RunClosed
  <2> QED
    BY <2>1, FinishClosed
<1>7. CASE BuildTree(p)
  <2>1. /\ pc[p] = "process" /\ pc'[p] = "tree" /\ todo[p] = {}
        /\ UNCHANGED <<cfg, root, existing, todo, fresh, event>>
    BY <1>7 DEF TypeOK, BuildTree
  <2> QED
    BY <1>0, <2>1 DEF RunClosed
<1>8. CASE SignRoot(p)
  <2>1. pc[p] = "tree" /\ pc'[p] = "send"
        /\ UNCHANGED <<cfg, root, existing, todo, fresh>>
    BY <1>8 DEF TypeOK, SignRoot, RootEvent
  <2>2. \A e \in event'[p] : e.tree = NewTree(p)
    BY <1>8 DEF TypeOK, SignRoot, RootEvent
  <2> QED
    BY <1>0, <2>1, <2>2, NewTreeClosed DEF RunClosed
<1>9. CASE FinishDry(p) \/ SendRoot(p) \/ Abort(p)
  BY <1>9, FinishClosed DEF FinishDry, SendRoot, Abort
<1> QED
  BY <1>1, <1>2, <1>3, <1>4, <1>5, <1>6, <1>7, <1>8, <1>9 DEF Step

(* The invariant is kept by every step.                                    *)
LEMMA NextClosed == TypeOK /\ ClosedInv /\ [Next]_vars => ClosedInv'
<1> SUFFICES ASSUME TypeOK, ClosedInv, [Next]_vars PROVE ClosedInv'
  OBVIOUS
<1>1. ASSUME NEW p \in Publishers,
             (\E c \in Configs : Start(p, c)) \/ Step(p) \/ Abort(p)
      PROVE  ClosedInv'
  <2>1. ASSUME NEW r \in Relays, NEW e \in relay'[r] PROVE ClosedTree(e.tree)
    <3>1. e \in relay[r] \/ e \in event[p]
      <4>1. CASE SendRoot(p)
        BY <4>1 DEF SendRoot
      <4>2. CASE ~SendRoot(p)
        BY <1>1, <4>2 DEF Step, remote, Start, FetchRoot, FlattenTree, ResolveClosure,
           ProcessPath, BuildTree, Upload, FinishDry, SignRoot, Abort
      <4> QED
        BY <4>1, <4>2
    <3> QED
      BY <3>1 DEF ClosedInv, RunClosed
  <2>2. RunClosed(p)'
    BY <1>1, StepClosed
  <2>3. ASSUME NEW q \in Publishers, q # p PROVE RunClosed(q)'
    BY <1>1, <2>3, OthersUntouched, StaysRunClosed DEF ClosedInv
  <2> QED
    BY <2>1, <2>2, <2>3 DEF ClosedInv
<1>2. CASE UNCHANGED vars
  BY <1>2 DEF vars, ClosedInv, RunClosed
<1> QED
  BY <1>1, <1>2 DEF Next

(* It holds at the start.                                                  *)
LEMMA InitClosed == Init => ClosedInv
<1> SUFFICES ASSUME Init PROVE ClosedInv
  OBVIOUS
<1>1. DOMAIN EmptyMap = {}
  BY SmallMaps
<1> QED
  BY <1>1 DEF Init, ClosedInv, RunClosed

(* The invariant holds throughout.                                         *)
LEMMA AlwaysClosed == Spec => []ClosedInv
BY TypeCorrect, InitClosed, NextClosed, PTL DEF Spec

(* Every published tree is closed under references, whatever failed and    *)
(* whatever it was merged with.                                            *)
THEOREM TreesAlwaysClosed == Spec => []ClosedTrees
<1>1. ClosedInv => ClosedTrees
  BY DEF ClosedInv, ClosedTree, ClosedTrees
<1> QED
  BY <1>1, AlwaysClosed, PTL

(* A run that reports success has left its whole closure on some relay.    *)
THEOREM SuccessIsPublished == Spec => OkMeansPublished
<1> DEFINE Published ==
      \A p \in Publishers :
        result[p] # "ok" /\ result'[p] = "ok" /\ ~cfg[p].dry
          => \E r \in Relays : \E e \in relay'[r] :
               cfg[p].paths \subseteq DOMAIN e.tree.ents
<1>1. ASSUME TypeOK, ClosedInv, [Next]_vars PROVE Published
  <2>1. SUFFICES ASSUME NEW p \in Publishers, result[p] # "ok",
                        result'[p] = "ok", ~cfg[p].dry
                 PROVE  \E r \in Relays : \E e \in relay'[r] :
                          cfg[p].paths \subseteq DOMAIN e.tree.ents
    OBVIOUS
  <2>2. ASSUME NEW q \in Publishers, NEW res, Finish(q, res)
        PROVE  q = p /\ res = "ok"
    BY <2>1, <2>2 DEF TypeOK, Finish
  <2>3. ASSUME NEW q \in Publishers, NEW c \in Configs, Start(q, c) PROVE FALSE
    BY <2>1, <2>3 DEF TypeOK, Start
  <2>4. ASSUME NEW q \in Publishers, Abort(q) PROVE FALSE
    BY <2>2, <2>4 DEF Abort
  <2>5. ASSUME NEW q \in Publishers, Upload(q) \/ FlattenTree(q) PROVE FALSE
    BY <2>1, <2>2, <2>5 DEF Upload, FlattenTree
  <2>6. ASSUME NEW q \in Publishers, Step(q), ~SendRoot(q) PROVE FALSE
    <3>1. CASE FinishDry(q)
      BY <2>1, <2>2, <3>1 DEF FinishDry
    <3>2. CASE UNCHANGED result
      BY <2>1, <3>2
    <3> QED
      BY <2>5, <2>6, <3>1, <3>2 DEF Step, FetchRoot, ResolveClosure, ProcessPath,
         BuildTree, SignRoot
  <2>7. PICK q \in Publishers : SendRoot(q)
    BY <1>1, <2>1, <2>3, <2>4, <2>6 DEF Next, vars
  <2>8. PICK e \in event[q], A \in AcceptSets :
          LET accepted == {r \in A : \A f \in relay[r] : f.at <= e.at} IN
          /\ relay' = [r \in Relays |-> IF r \in accepted THEN {e} ELSE relay[r]]
          /\ \/ accepted # {} /\ Finish(q, "ok")
             \/ Finish(q, "err")
    BY <2>7 DEF SendRoot
  <2>9. ~Finish(q, "err")
    BY <2>2
  <2>10. PICK r \in A : relay' = [s \in Relays |-> IF s \in {t \in A : \A f \in relay[t] : f.at <= e.at}
                                                THEN {e} ELSE relay[s]]
                        /\ \A f \in relay[r] : f.at <= e.at
    BY <2>8, <2>9
  <2>11. r \in Relays
    BY EnvironmentAssumption
  <2>12. relay'[r] = {e}
    BY <2>10, <2>11
  <2>13. q = p
    BY <2>2, <2>8
  <2>14. cfg[p].paths \subseteq DOMAIN e.tree.ents
    BY <1>1, <2>7, <2>13 DEF ClosedInv, RunClosed, SendRoot
  <2> QED
    BY <2>11, <2>12, <2>14
<1>2. ASSUME TypeOK, ClosedInv, [Next]_vars PROVE [Published]_vars
  BY <1>1, <1>2
<1> HIDE DEF Published
<1>3. Spec => [][Published]_vars
  BY <1>2, TypeCorrect, AlwaysClosed, PTL DEF Spec
<1> QED
  BY <1>3 DEF Published, OkMeansPublished

-----------------------------------------------------------------------------
(* Runs that are all given the same servers.                               *)

(* An event names the servers of some command line.                        *)
Advertised(e) == \E c \in Configs : e.servers = c.servers

(* Only servers of command lines are given anything, and only such servers *)
(* are advertised.                                                         *)
ServersInv ==
  /\ \A s \in Servers : store[s] # {} => \E c \in Configs : s \in c.servers
  /\ \A r \in Relays : \A e \in relay[r] : Advertised(e)
  /\ \A p \in Publishers : \A e \in event[p] : Advertised(e)

LEMMA InitServers == Init => ServersInv
BY DEF Init, ServersInv

(* A step of p, which touches no event but its own.                        *)
LEMMA StepServers ==
  ASSUME TypeOK, ServersInv, NEW p \in Publishers,
         (\E c \in Configs : Start(p, c)) \/ Step(p) \/ Abort(p)
  PROVE  ServersInv'
<1>1. cfg[p] \in Configs
  BY DEF TypeOK
<1>2. ASSUME NEW s \in Servers, store'[s] # {}
      PROVE  \E c \in Configs : s \in c.servers
  <2>1. CASE Upload(p)
    <3>1. store[s] # {} \/ s \in cfg[p].servers
      BY <1>2, <2>1 DEF Upload
    <3> QED
      BY <1>1, <3>1 DEF ServersInv
  <2>2. CASE ~Upload(p)
    <3>1. UNCHANGED store
      BY <2>2 DEF Step, remote, Start, FetchRoot, FlattenTree, ResolveClosure,
         ProcessPath, BuildTree, SendRoot, FinishDry, SignRoot, Abort
    <3> QED
      BY <1>2, <3>1 DEF ServersInv
  <2> QED
    BY <2>1, <2>2
<1>3. ASSUME NEW r \in Relays, NEW e \in relay'[r] PROVE Advertised(e)
  <2>1. e \in relay[r] \/ e \in event[p]
    <3>1. CASE SendRoot(p)
      BY <3>1 DEF SendRoot
    <3>2. CASE ~SendRoot(p)
      BY <1>3, <3>2 DEF Step, remote, Start, FetchRoot, FlattenTree, ResolveClosure,
         ProcessPath, BuildTree, Upload, FinishDry, SignRoot, Abort
    <3> QED
      BY <3>1, <3>2
  <2> QED
    BY <2>1 DEF ServersInv
<1>4. ASSUME NEW q \in Publishers, NEW e \in event'[q] PROVE Advertised(e)
  <2>1. CASE q # p
    BY <1>4, <2>1, OthersUntouched DEF Untouched, ServersInv
  <2>2. CASE q = p /\ SignRoot(p)
    <3>1. e.servers = cfg[p].servers
      BY <1>4, <2>2 DEF TypeOK, SignRoot, RootEvent
    <3> QED
      BY <1>1, <3>1 DEF Advertised
  <2>3. CASE q = p /\ ~SignRoot(p)
    <3>1. event'[p] = event[p] \/ event'[p] = {}
      <4>1. (\E res : Finish(p, res)) \/ UNCHANGED event
        BY <2>3 DEF Step, Start, FetchRoot, FlattenTree, ResolveClosure,
           ProcessPath, BuildTree, Upload, FinishDry, SendRoot, Abort
      <4> QED
        BY <4>1 DEF TypeOK, Finish
    <3> QED
      BY <1>4, <2>3, <3>1 DEF ServersInv
  <2> QED
    BY <2>1, <2>2, <2>3
<1> QED
  BY <1>2, <1>3, <1>4 DEF ServersInv

LEMMA NextServers == TypeOK /\ ServersInv /\ [Next]_vars => ServersInv'
<1> SUFFICES ASSUME TypeOK, ServersInv, [Next]_vars PROVE ServersInv'
  OBVIOUS
<1>1. CASE UNCHANGED vars
  BY <1>1 DEF vars, ServersInv
<1> QED
  BY <1>1, StepServers DEF Next

(* Where every run is given the same servers, those that a root event      *)
(* advertises together hold all that its tree needs, the entries of        *)
(* earlier runs included: whatever failed, wherever each blob landed.      *)
THEOREM UniformlyServed ==
  (\A c, d \in Configs : c.servers = d.servers) => (Spec => []RootServed)
<1> SUFFICES ASSUME \A c, d \in Configs : c.servers = d.servers
             PROVE  Spec => []RootServed
  OBVIOUS
<1>1. BackedInv /\ ServersInv => RootServed
  <2> SUFFICES ASSUME BackedInv, ServersInv, NEW r \in Relays, NEW e \in relay[r],
                      NEW b \in TreeNeeds(e.tree)
               PROVE  Stored(b, e.servers)
    BY DEF RootServed
  <2>1. PICK s \in Servers : b \in store[s]
    BY DEF BackedInv, Backed, Stored
  <2>2. PICK c \in Configs : s \in c.servers
    BY <2>1 DEF ServersInv
  <2>3. e.servers = c.servers
    BY DEF ServersInv, Advertised
  <2> QED
    BY <2>1, <2>2, <2>3 DEF Stored
<1>2. Spec => []ServersInv
  BY TypeCorrect, InitServers, NextServers, PTL DEF Spec
<1> QED
  BY <1>1, <1>2, AlwaysBacked, PTL

-----------------------------------------------------------------------------
(* What a run keeps and what it signs.                                     *)

(* A run knows the entries of the root it read and nothing else; an entry  *)
(* it has made is one of those, or a narinfo signed with its key; and what *)
(* it sends is the merge, with its key.                                    *)
RunKeeps(p) ==
  /\ root[p] = {} \/ \E e : root[p] = {e}
  /\ pc[p] \in {"idle", "fetch"} => root[p] = {}
  /\ pc[p] \in {"idle", "fetch", "flatten"} => existing[p] = EmptyMap /\ fresh[p] = EmptyMap
  /\ root[p] = {} => existing[p] = EmptyMap
  /\ pc[p] # "flatten" => \A e \in root[p] : existing[p] = e.tree.ents
  /\ \A x \in DOMAIN fresh[p] :
       fresh[p][x] = IF x \in DOMAIN existing[p] THEN existing[p][x] ELSE NarInfo(x, cfg[p])
  /\ \A e \in event[p] :
       pc[p] = "send" /\ e.keys = {cfg[p].key} \ {NoKey} /\ e.tree = NewTree(p)

KeptInv == \A p \in Publishers : RunKeeps(p)

LEMMA InitKept == Init => KeptInv
BY SmallMaps DEF Init, KeptInv, RunKeeps

LEMMA FinishKept ==
  ASSUME TypeOK, NEW p \in Publishers, NEW res, Finish(p, res) PROVE RunKeeps(p)'
<1>1. /\ pc'[p] = "idle" /\ root'[p] = {} /\ event'[p] = {}
      /\ existing'[p] = EmptyMap /\ fresh'[p] = EmptyMap
  BY DEF TypeOK, Finish
<1> QED
  BY <1>1, SmallMaps DEF RunKeeps

(* Every step of a run keeps it.                                           *)
LEMMA StepKept ==
  ASSUME TypeOK, KeptInv, NEW p \in Publishers,
         (\E c \in Configs : Start(p, c)) \/ Step(p) \/ Abort(p)
  PROVE  RunKeeps(p)'
<1>0. RunKeeps(p)
  BY DEF KeptInv
<1>1. CASE \E c \in Configs : Start(p, c)
  <2>1. /\ pc[p] = "idle" /\ pc'[p] = "fetch"
        /\ UNCHANGED <<root, existing, fresh, event>>
    BY <1>1 DEF TypeOK, Start
  <2> QED
    BY <1>0, <2>1, SmallMaps DEF RunKeeps
<1>2. CASE FetchRoot(p)
  <2>1. \/ pc'[p] = "closure" /\ root'[p] = root[p]
        \/ pc'[p] = "flatten" /\ \E e : root'[p] = {e}
    BY <1>2 DEF TypeOK, FetchRoot
  <2>2. /\ pc[p] = "fetch" /\ root[p] = {} /\ event[p] = {}
        /\ existing[p] = EmptyMap /\ fresh[p] = EmptyMap
        /\ UNCHANGED <<cfg, existing, fresh, event>>
    BY <1>0, <1>2 DEF FetchRoot, RunKeeps
  <2> QED
    BY <2>1, <2>2, SmallMaps DEF RunKeeps
<1>3. CASE FlattenTree(p)
  <2>1. CASE ~Finish(p, "err")
    <3>1. PICK e \in root[p] :
            /\ existing' = [existing EXCEPT ![p] = e.tree.ents]
            /\ pc' = [pc EXCEPT ![p] = "closure"]
            /\ UNCHANGED <<cfg, root, todo, fresh, queue, event, result>>
      BY <1>3, <2>1 DEF FlattenTree
    <3>2. existing'[p] = e.tree.ents /\ pc'[p] = "closure" /\ pc[p] = "flatten"
      BY <1>3, <3>1 DEF TypeOK, FlattenTree
    <3>3. fresh[p] = EmptyMap /\ event[p] = {} /\ root[p] = {e}
      BY <1>0, <3>1, <3>2 DEF RunKeeps
    <3> QED
      BY <3>1, <3>2, <3>3, SmallMaps DEF RunKeeps
  <2> QED
    BY <2>1, FinishKept
<1>4. CASE ResolveClosure(p) \/ BuildTree(p)
  <2>1. /\ pc[p] \in {"closure", "process"} /\ pc'[p] \in {"process", "tree"}
        /\ UNCHANGED <<cfg, root, existing, fresh, event>>
    BY <1>4 DEF TypeOK, ResolveClosure, BuildTree
  <2> QED
    BY <1>0, <2>1 DEF RunKeeps
<1>5. CASE ProcessPath(p)
  <2> DEFINE Entry(x) == IF x \in DOMAIN existing[p]
                         THEN existing[p][x] ELSE NarInfo(x, cfg[p])
  <2>1. PICK x \in todo[p] :
          fresh' = [fresh EXCEPT ![p] = Merge([n \in {x} |-> Entry(x)], @)]
    BY <1>5 DEF ProcessPath
  <2>2. /\ DOMAIN fresh'[p] = {x} \cup DOMAIN fresh[p]
        /\ \A n \in DOMAIN fresh'[p] : fresh'[p][n] = IF n = x THEN Entry(x) ELSE fresh[p][n]
    BY <2>1 DEF TypeOK, Merge
  <2>3. \A n \in DOMAIN fresh'[p] : fresh'[p][n] = Entry(n)
    BY <1>0, <2>2 DEF RunKeeps
  <2>4. pc[p] = "process" /\ UNCHANGED <<pc, cfg, root, existing, event>>
    BY <1>5 DEF ProcessPath
  <2> QED
    BY <1>0, <2>3, <2>4 DEF RunKeeps
<1>6. CASE Upload(p)
  <2>1. CASE ~Finish(p, "err")
    <3>1. UNCHANGED <<pc, cfg, root, existing, todo, fresh, event, result>>
      BY <1>6, <2>1 DEF Upload
    <3> QED
      BY <1>0, <3>1 DEF RunKeeps, NewTree
  <2> QED
    BY <2>1, FinishKept
<1>7. CASE SignRoot(p)
  <2>1. /\ pc[p] = "tree" /\ pc'[p] = "send" /\ event'[p] = {RootEvent(p)}
        /\ UNCHANGED <<cfg, root, existing, fresh>>
    BY <1>7 DEF TypeOK, SignRoot
  <2>2. /\ RootEvent(p).keys = {cfg'[p].key} \ {NoKey}
        /\ RootEvent(p).tree = NewTree(p)'
    BY <2>1 DEF RootEvent, NewTree
  <2> QED
    BY <1>0, <2>1, <2>2 DEF RunKeeps
<1>8. CASE FinishDry(p) \/ SendRoot(p) \/ Abort(p)
  BY <1>8, FinishKept DEF FinishDry, SendRoot, Abort
<1> QED
  BY <1>1, <1>2, <1>3, <1>4, <1>5, <1>6, <1>7, <1>8 DEF Step

LEMMA NextKept == TypeOK /\ KeptInv /\ [Next]_vars => KeptInv'
<1> SUFFICES ASSUME TypeOK, KeptInv, [Next]_vars PROVE KeptInv'
  OBVIOUS
<1>1. ASSUME NEW p \in Publishers,
             (\E c \in Configs : Start(p, c)) \/ Step(p) \/ Abort(p)
      PROVE  KeptInv'
  <2>1. ASSUME NEW q \in Publishers, q # p PROVE RunKeeps(q)'
    <3>1. RunKeeps(q) /\ Untouched(q)
      BY <1>1, <2>1, OthersUntouched DEF KeptInv
    <3>2. NewTree(q)' = NewTree(q)
      BY <3>1 DEF Untouched, NewTree
    <3> QED
      BY <3>1, <3>2 DEF Untouched, RunKeeps
  <2> QED
    BY <1>1, <2>1, StepKept DEF KeptInv
<1>2. CASE UNCHANGED vars
  BY <1>2 DEF vars, KeptInv, RunKeeps, NewTree
<1> QED
  BY <1>1, <1>2 DEF Next

(* An event replaces the root its run read without touching a narinfo of   *)
(* it, and advertises the key of all others, for every mix of keys.        *)
THEOREM KeepsOrCovers == Spec => []KeptOrCovered
<1>1. TypeOK /\ ClosedInv /\ KeptInv => KeptOrCovered
  <2> SUFFICES ASSUME TypeOK, ClosedInv, KeptInv, NEW p \in Publishers, NEW e \in event[p]
               PROVE  LET found == Paths \cap UNION {DOMAIN f.tree.ents : f \in root[p]} IN
                      /\ \A f \in root[p] : \A x \in found :
                           x \in DOMAIN e.tree.ents /\ e.tree.ents[x] = f.tree.ents[x]
                      /\ \A x \in (Paths \cap DOMAIN e.tree.ents) \ found :
                           x \in cfg[p].paths /\ e.tree.ents[x].key \in e.keys \cup {NoKey}
    BY DEF KeptOrCovered
  <2> DEFINE found == Paths \cap UNION {DOMAIN f.tree.ents : f \in root[p]}
  <2>1. RunKeeps(p) /\ RunClosed(p)
    BY DEF KeptInv, ClosedInv
  <2>2. /\ pc[p] = "send" /\ e.tree = NewTree(p)
        /\ e.keys = {cfg[p].key} \ {NoKey}
        /\ DOMAIN fresh[p] \subseteq cfg[p].paths
    BY <2>1 DEF RunKeeps, RunClosed
  <2>3. found = Paths \cap DOMAIN existing[p]
    <3>1. CASE root[p] = {}
      BY <2>1, <3>1, SmallMaps DEF RunKeeps
    <3>2. CASE root[p] # {}
      <4>1. PICK f : root[p] = {f}
        BY <2>1, <3>2 DEF RunKeeps
      <4>2. existing[p] = f.tree.ents
        BY <2>1, <2>2, <4>1 DEF RunKeeps
      <4> QED
        BY <4>1, <4>2
    <3> QED
      BY <3>1, <3>2
  <2> HIDE DEF found
  <2>4. /\ DOMAIN e.tree.ents = {CacheInfoName} \cup DOMAIN fresh[p] \cup DOMAIN existing[p]
        /\ \A n \in DOMAIN fresh[p] \ {CacheInfoName} : e.tree.ents[n] = fresh[p][n]
        /\ \A n \in DOMAIN existing[p] \ (DOMAIN fresh[p] \cup {CacheInfoName}) :
             e.tree.ents[n] = existing[p][n]
    BY <2>2, NewTreeType
  <2>5. CacheInfoName \notin Paths
    BY ConfigAssumption
  <2>6. ASSUME NEW f \in root[p], NEW x \in found
        PROVE  x \in DOMAIN e.tree.ents /\ e.tree.ents[x] = f.tree.ents[x]
    <3>1. existing[p] = f.tree.ents
      BY <2>1, <2>2 DEF RunKeeps
    <3>2. x \in Paths /\ x \in DOMAIN existing[p] /\ x # CacheInfoName
      BY <2>3, <2>5
    <3>3. x \in DOMAIN fresh[p] => fresh[p][x] = existing[p][x]
      BY <2>1, <3>2 DEF RunKeeps
    <3> QED
      BY <2>4, <3>1, <3>2, <3>3
  <2>7. ASSUME NEW x \in (Paths \cap DOMAIN e.tree.ents) \ found
        PROVE  x \in cfg[p].paths /\ e.tree.ents[x].key \in e.keys \cup {NoKey}
    <3>1. x \in DOMAIN fresh[p] /\ x \notin DOMAIN existing[p] /\ x # CacheInfoName
      BY <2>3, <2>4, <2>5
    <3>2. e.tree.ents[x] = NarInfo(x, cfg[p])
      BY <2>1, <2>4, <3>1 DEF RunKeeps
    <3>3. e.tree.ents[x].key = cfg[p].key
      BY <3>2 DEF NarInfo
    <3> QED
      BY <2>2, <3>1, <3>3
  <2> QED
    BY <2>6, <2>7 DEF found
<1> QED
  BY <1>1, TypeCorrect, AlwaysClosed, InitKept, NextKept, PTL DEF Spec

-----------------------------------------------------------------------------
(* Dry runs.                                                               *)

(* A dry run, and a run that has ended, has nothing to upload, and a dry   *)
(* run no event to send.                                                   *)
DryRun(p) ==
  /\ cfg[p].dry \/ pc[p] = "idle" => queue[p] = <<>>
  /\ cfg[p].dry => pc[p] # "send"

DryInv == \A p \in Publishers : DryRun(p)

LEMMA InitDry == Init => DryInv
BY DEF Init, DryInv, DryRun

LEMMA FinishDryRun ==
  ASSUME TypeOK, NEW p \in Publishers, NEW res, Finish(p, res) PROVE DryRun(p)'
<1>1. pc'[p] = "idle" /\ queue'[p] = <<>>
  BY DEF TypeOK, Finish
<1> QED
  BY <1>1 DEF DryRun

LEMMA StepDry ==
  ASSUME TypeOK, DryInv, NEW p \in Publishers,
         (\E c \in Configs : Start(p, c)) \/ Step(p) \/ Abort(p)
  PROVE  DryRun(p)' /\ (cfg[p].dry => UNCHANGED remote)
<1>0. DryRun(p)
  BY DEF DryInv
<1>1. CASE \E c \in Configs : Start(p, c)
  <2>1. /\ pc[p] = "idle" /\ pc'[p] = "fetch" /\ UNCHANGED <<queue, remote>>
    BY <1>1 DEF TypeOK, Start
  <2> QED
    BY <1>0, <2>1 DEF DryRun
<1>2. CASE FetchRoot(p)
  <2>1. pc'[p] \in {"closure", "flatten"} /\ UNCHANGED <<queue, cfg, remote>>
    BY <1>2 DEF TypeOK, FetchRoot
  <2>2. pc[p] = "fetch"
    BY <1>2 DEF FetchRoot
  <2> QED
    BY <1>0, <2>1, <2>2 DEF DryRun
<1>3. CASE FlattenTree(p)
  <2>1. UNCHANGED remote
    BY <1>3 DEF FlattenTree
  <2>2. CASE ~Finish(p, "err")
    <3>1. pc'[p] = "closure" /\ UNCHANGED <<queue, cfg>>
      BY <1>3, <2>2 DEF TypeOK, FlattenTree
    <3> QED
      BY <1>0, <2>1, <3>1 DEF DryRun
  <2> QED
    BY <2>1, <2>2, FinishDryRun
<1>4. CASE ResolveClosure(p)
  <2>1. pc'[p] = "process" /\ UNCHANGED <<queue, cfg, remote>>
    BY <1>4 DEF TypeOK, ResolveClosure
  <2> QED
    BY <1>0, <2>1 DEF DryRun
<1>5. CASE ProcessPath(p)
  <2>1. /\ cfg[p].dry => queue'[p] = <<>>
        /\ pc[p] = "process" /\ UNCHANGED <<pc, cfg, remote>>
    BY <1>5 DEF TypeOK, ProcessPath
  <2> QED
    BY <2>1 DEF DryRun
<1>6. CASE Upload(p)
  <2>1. ~cfg[p].dry /\ pc[p] # "idle"
    BY <1>0, <1>6 DEF DryRun, Upload
  <2>2. Finish(p, "err") \/ UNCHANGED <<pc, cfg>>
    BY <1>6 DEF Upload
  <2> QED
    BY <2>1, <2>2, FinishDryRun DEF DryRun
<1>7. CASE BuildTree(p)
  <2>1. /\ cfg[p].dry => queue'[p] = <<>>
        /\ pc'[p] = "tree" /\ UNCHANGED <<cfg, remote>>
    BY <1>7 DEF TypeOK, BuildTree
  <2> QED
    BY <2>1 DEF DryRun
<1>8. CASE SignRoot(p)
  <2>1. ~cfg[p].dry /\ pc'[p] = "send" /\ UNCHANGED <<cfg, queue>>
    BY <1>8 DEF TypeOK, SignRoot
  <2> QED
    BY <2>1 DEF DryRun
<1>9. CASE SendRoot(p)
  <2>1. ~cfg[p].dry
    BY <1>0, <1>9 DEF DryRun, SendRoot
  <2> QED
    BY <1>9, <2>1, FinishDryRun DEF SendRoot
<1>10. CASE FinishDry(p) \/ Abort(p)
  BY <1>10, FinishDryRun DEF FinishDry, Abort
<1> QED
  BY <1>1, <1>2, <1>3, <1>4, <1>5, <1>6, <1>7, <1>8, <1>9, <1>10 DEF Step

LEMMA NextDry == TypeOK /\ DryInv /\ [Next]_vars => DryInv'
<1> SUFFICES ASSUME TypeOK, DryInv, [Next]_vars PROVE DryInv'
  OBVIOUS
<1>1. ASSUME NEW p \in Publishers,
             (\E c \in Configs : Start(p, c)) \/ Step(p) \/ Abort(p)
      PROVE  DryInv'
  <2>1. ASSUME NEW q \in Publishers, q # p PROVE DryRun(q)'
    BY <1>1, <2>1, OthersUntouched DEF Untouched, DryInv, DryRun
  <2> QED
    BY <1>1, <2>1, StepDry DEF DryInv
<1>2. CASE UNCHANGED vars
  BY <1>2 DEF vars, DryInv, DryRun
<1> QED
  BY <1>1, <1>2 DEF Next

(* A dry run writes nothing to a server or a relay: each of its steps      *)
(* leaves them alone, and a step of its own is all that moves it.          *)
THEOREM DryRunsAreSilent == Spec => DryRunSilent
<1> DEFINE Silent ==
      \A p \in Publishers :
        cfg[p].dry /\ (pc'[p] # pc[p] \/ queue'[p] # queue[p]) => UNCHANGED remote
<1>1. ASSUME TypeOK, DryInv, [Next]_vars PROVE [Silent]_vars
  <2>1. ASSUME NEW q \in Publishers,
               (\E c \in Configs : Start(q, c)) \/ Step(q) \/ Abort(q),
               NEW p \in Publishers, cfg[p].dry,
               pc'[p] # pc[p] \/ queue'[p] # queue[p]
        PROVE  UNCHANGED remote
    <3>1. p = q
      BY <1>1, <2>1, OthersUntouched DEF Untouched
    <3> QED
      BY <1>1, <2>1, <3>1, StepDry
  <2> QED
    BY <1>1, <2>1 DEF Next
<1> HIDE DEF Silent
<1>2. Spec => [][Silent]_vars
  BY <1>1, TypeCorrect, InitDry, NextDry, PTL DEF Spec
<1> QED
  BY <1>2 DEF Silent, DryRunSilent
=============================================================================
