-------------------------- MODULE CacheRegisterProofs --------------------------
(***************************************************************************)
(* The publish pipeline implements the atomic register of CacheRegister,   *)
(* for any number of publishers, as long as only one of them is at work.   *)
(***************************************************************************)
EXTENDS PublishProofs

(* No two runs overlap.                                                    *)
OneAtATime ==
  \A p, q \in Publishers : pc[p] # "idle" /\ pc[q] # "idle" => p = q

(* The clocks agree, a run takes a second or more from its signature to    *)
(* the next one, and a fetch hears from a relay of each set that a root    *)
(* event may have reached.                                                 *)
Orderly ==
  /\ \A p, q \in Publishers : Skew[p] = Skew[q]
  /\ 0 \notin Delays
  /\ \A R \in FetchSets, A \in AcceptSets : A = {} \/ R \cap A # {}

-----------------------------------------------------------------------------
(* The register.                                                           *)

Added(c) ==
  [n \in c.paths \cup {CacheInfoName} |->
     IF n = CacheInfoName THEN CacheInfo ELSE NarInfo(n, c)]

LEMMA RegisterInit == Register!Init <=> VisibleCache = EmptyMap
BY DEF Register!Init, Register!EmptyMap, EmptyMap, Register!CacheInfo, CacheInfo

LEMMA RegisterPublish ==
  ASSUME NEW c \in Configs, ~c.dry, VisibleCache' = Merge(VisibleCache, Added(c))
  PROVE  Register!Next
<1>1. Register!NewEntries(c) = Added(c)
  BY DEF Register!NewEntries, Added, Register!CacheInfoName, CacheInfoName,
         Register!CacheInfo, CacheInfo, Register!NarInfo, NarInfo
<1>2. Register!Merge(VisibleCache, Added(c)) = Merge(VisibleCache, Added(c))
  BY DEF Register!Merge, Merge
<1>3. Register!Publish(c)
  BY <1>1, <1>2 DEF Register!Publish
<1> QED
  BY <1>3 DEF Register!Next

(* With one newest event a client sees its entries.                        *)
LEMMA SeenIsNewest ==
  ASSUME NEW e, Newest(Held(Relays)) = {e} PROVE VisibleCache = e.tree.ents
BY DEF VisibleCache

LEMMA NothingSeen ==
  ASSUME Held(Relays) = {} PROVE Newest(Held(Relays)) = {} /\ VisibleCache = EmptyMap
BY DEF VisibleCache, Newest
-----------------------------------------------------------------------------
(* The relays: some set of relays that a root event reached hold nothing   *)
(* but the newest of all; it is older than what will be signed; and        *)
(* nix-cache-info is what it always is.                                    *)
OnAll(e, A) == A # {} /\ \A r \in A : relay[r] = {e}

OneNewest ==
  \/ Held(Relays) = {}
  \/ \E e \in Held(Relays), A \in AcceptSets :
       OnAll(e, A) /\ \A f \in Held(Relays) : f = e \/ f.at < e.at

Older == \A f \in Held(Relays), p \in Publishers : f.at < clock + Skew[p]

Info(m) == CacheInfoName \in DOMAIN m => m[CacheInfoName] = CacheInfo

Infos == \A f \in Held(Relays) : Info(f.tree.ents)

RelaysInv == OneNewest /\ Older /\ Infos

(* The runs: what a run has read is what a client sees still, it keeps     *)
(* what it found for every path it has been through, and it signs what the *)
(* register would hold.                                                    *)
Entered(p, X) ==
  [x \in X |-> IF x \in DOMAIN existing[p] THEN existing[p][x] ELSE NarInfo(x, cfg[p])]

SignedUpdate(p, e) ==
  /\ e.tree.ents = Merge(VisibleCache, Added(cfg[p]))
  /\ e.at < clock + Skew[p]
  /\ \A f \in Held(Relays) : f.at < e.at

RunSees(p) ==
  /\ pc[p] = "flatten" => root[p] = Newest(Held(Relays))
  /\ existing[p] = IF pc[p] \in {"idle", "fetch", "flatten"} THEN EmptyMap
                                                             ELSE VisibleCache
  /\ pc[p] \in {"idle", "fetch", "flatten", "closure"} => fresh[p] = EmptyMap
  /\ pc[p] = "process" =>
       todo[p] \subseteq cfg[p].paths /\ fresh[p] = Entered(p, cfg[p].paths \ todo[p])
  /\ pc[p] = "tree" => fresh[p] = Entered(p, cfg[p].paths)
  /\ pc[p] = "send" => ~cfg[p].dry /\ \E e : event[p] = {e} /\ SignedUpdate(p, e)

SeesInv == RelaysInv /\ \A p \in Publishers : RunSees(p)

LEMMA InitSees == Init => SeesInv
<1> SUFFICES ASSUME Init PROVE SeesInv
  OBVIOUS
<1>1. Held(Relays) = {}
  BY DEF Held, Init
<1> QED
  BY <1>1 DEF Init, SeesInv, RelaysInv, OneNewest, Older, Infos, RunSees

LEMMA HeldTypes ==
  ASSUME TypeOK
  PROVE  /\ clock \in Int /\ \A p \in Publishers : Skew[p] \in Int
         /\ \A f \in Held(Relays) : f.at \in Int /\ f.tree.ents \in EntryMaps
BY EnvironmentAssumption DEF TypeOK, Held, Events, Trees

(* The newest of all is the only newest one.                               *)
LEMMA OnlyOne ==
  ASSUME NEW E, \A f \in E : f.at \in Int, NEW e \in E,
         \A f \in E : f = e \/ f.at < e.at
  PROVE  Newest(E) = {e}
<1>1. e \in Newest(E)
  BY DEF Newest
<1>2. ASSUME NEW f \in Newest(E) PROVE f = e
  BY <1>2 DEF Newest
<1> QED
  BY <1>1, <1>2

(* A fetch finds what a client sees.                                       *)
LEMMA FetchesNewest ==
  ASSUME TypeOK, Orderly, RelaysInv, NEW R \in FetchSets
  PROVE  /\ Held(R) = {} <=> Held(Relays) = {}
         /\ Held(R) # {} => Newest(Held(R)) = Newest(Held(Relays))
<1>1. R \subseteq Relays /\ Held(R) \subseteq Held(Relays)
  BY EnvironmentAssumption DEF Held
<1>2. CASE Held(Relays) = {}
  BY <1>1, <1>2
<1>3. ASSUME NEW e \in Held(Relays), NEW A \in AcceptSets, OnAll(e, A),
             \A f \in Held(Relays) : f = e \/ f.at < e.at
      PROVE  e \in Held(R) /\ Newest(Held(R)) = Newest(Held(Relays))
  <2>1. PICK r \in R : relay[r] = {e}
    BY <1>3 DEF Orderly, OnAll
  <2>2. e \in Held(R)
    BY <2>1 DEF Held
  <2>3. Newest(Held(Relays)) = {e}
    BY <1>3, HeldTypes, OnlyOne
  <2>4. Newest(Held(R)) = {e}
    <3>1. \A f \in Held(R) : f.at \in Int /\ (f = e \/ f.at < e.at)
      BY <1>1, <1>3, HeldTypes
    <3> QED
      BY <2>2, <3>1, OnlyOne
  <2> QED
    BY <2>2, <2>3, <2>4
<1> QED
  BY <1>2, <1>3 DEF RelaysInv, OneNewest

(* What a client sees is the entries of an event of a relay, or nothing.   *)
LEMMA SeenInfo ==
  ASSUME TypeOK, RelaysInv PROVE VisibleCache \in EntryMaps /\ Info(VisibleCache)
<1>1. CASE Held(Relays) = {}
  BY <1>1, NothingSeen, SmallMaps DEF Info
<1>2. ASSUME NEW e \in Held(Relays), \A f \in Held(Relays) : f = e \/ f.at < e.at
      PROVE  VisibleCache \in EntryMaps /\ Info(VisibleCache)
  <2>1. VisibleCache = e.tree.ents
    BY <1>2, HeldTypes, OnlyOne, SeenIsNewest
  <2> QED
    BY <2>1, HeldTypes DEF RelaysInv, Infos
<1> QED
  BY <1>1, <1>2 DEF RelaysInv, OneNewest

(* The entries of the new tree are those of the register.                  *)
LEMMA TreeIsUpdate ==
  ASSUME TypeOK, RelaysInv, NEW p \in Publishers, RunSees(p), pc[p] = "tree"
  PROVE  NewTree(p).ents = Merge(VisibleCache, Added(cfg[p]))
<1> DEFINE m == existing[p]
           X == cfg[p].paths
           new == [n \in {CacheInfoName} |-> CacheInfo]
<1>1. m = VisibleCache /\ fresh[p] = Entered(p, X)
  BY DEF RunSees
<1>2. Info(m)
  BY <1>1, SeenInfo
<1>3. CacheInfoName \notin X
  BY ConfigAssumption DEF TypeOK
<1>4. Entered(p, X) = [x \in X |-> IF x \in DOMAIN m THEN m[x] ELSE NarInfo(x, cfg[p])]
  BY DEF Entered
<1>5. NewTree(p).ents = Merge(new, Merge(Entered(p, X), m))
  BY <1>1 DEF NewTree
<1> HIDE DEF m
<1>6. Merge(new, Merge(Entered(p, X), m)) = Merge(m, Added(cfg[p]))
  <2> DEFINE f == Merge(new, Merge(Entered(p, X), m))
             g == Merge(m, Added(cfg[p]))
  <2>1. DOMAIN f = {CacheInfoName} \cup (X \cup DOMAIN m)
    BY <1>4 DEF Merge
  <2>2. DOMAIN g = DOMAIN m \cup (X \cup {CacheInfoName})
    BY DEF Merge, Added
  <2>3. ASSUME NEW n \in {CacheInfoName} \cup (X \cup DOMAIN m) PROVE f[n] = g[n]
    <3>1. CASE n = CacheInfoName
      <4>1. f[n] = CacheInfo
        BY <3>1 DEF Merge
      <4>2. g[n] = CacheInfo
        BY <1>2, <3>1 DEF Merge, Added, Info
      <4> QED
        BY <4>1, <4>2
    <3>2. CASE n # CacheInfoName /\ n \in X
      <4>1. f[n] = IF n \in DOMAIN m THEN m[n] ELSE NarInfo(n, cfg[p])
        BY <1>4, <3>2 DEF Merge
      <4>2. g[n] = IF n \in DOMAIN m THEN m[n] ELSE NarInfo(n, cfg[p])
        BY <3>2 DEF Merge, Added
      <4> QED
        BY <4>1, <4>2
    <3>3. CASE n # CacheInfoName /\ n \notin X
      <4>1. f[n] = m[n]
        BY <1>4, <2>3, <3>3 DEF Merge
      <4>2. g[n] = m[n]
        BY <2>3, <3>3 DEF Merge
      <4> QED
        BY <4>1, <4>2
    <3> QED
      BY <3>1, <3>2, <3>3
  <2> QED
    BY <2>1, <2>2, <2>3 DEF Merge
<1> QED
  BY <1>1, <1>5, <1>6
-----------------------------------------------------------------------------
(* The steps that leave the relays alone.                                  *)

Quiet == UNCHANGED relay /\ clock' \in Int /\ clock' >= clock

LEMMA QuietHeld ==
  ASSUME UNCHANGED relay
  PROVE  Held(Relays)' = Held(Relays) /\ VisibleCache' = VisibleCache
BY DEF Held, VisibleCache, Newest

LEMMA QuietRelays ==
  ASSUME TypeOK, RelaysInv, Quiet PROVE RelaysInv'
<1>1. UNCHANGED relay /\ Held(Relays)' = Held(Relays)
  BY QuietHeld DEF Quiet
<1>2. OneNewest'
  BY <1>1 DEF RelaysInv, OneNewest, OnAll
<1>3. Older'
  BY <1>1, HeldTypes DEF Quiet, RelaysInv, Older
<1>4. Infos'
  BY <1>1 DEF RelaysInv, Infos, Info
<1> QED
  BY <1>2, <1>3, <1>4 DEF RelaysInv

LEMMA SignedStays ==
  ASSUME TypeOK, NEW p \in Publishers, NEW e, event[p] = {e}, SignedUpdate(p, e),
         Quiet, cfg'[p] = cfg[p]
  PROVE  SignedUpdate(p, e)'
<1>1. Held(Relays)' = Held(Relays) /\ VisibleCache' = VisibleCache
  BY QuietHeld DEF Quiet
<1>2. e.at \in Int
  BY DEF TypeOK, Events
<1>3. e.at < clock' + Skew[p]
  BY <1>2, HeldTypes DEF Quiet, SignedUpdate
<1> QED
  BY <1>1, <1>3 DEF SignedUpdate, Merge, Added

LEMMA OthersSee ==
  ASSUME TypeOK, NEW q \in Publishers, RunSees(q), Untouched(q), Quiet
  PROVE  RunSees(q)'
<1>1. Held(Relays)' = Held(Relays) /\ VisibleCache' = VisibleCache
  BY QuietHeld DEF Quiet
<1>2. Newest(Held(Relays))' = Newest(Held(Relays))
  BY <1>1 DEF Newest
<1>3. \A X : Entered(q, X)' = Entered(q, X)
  BY DEF Entered, Untouched
<1>4. pc[q] = "send" => ~cfg'[q].dry /\ \E e : event'[q] = {e} /\ SignedUpdate(q, e)'
  BY SignedStays DEF RunSees, Untouched
<1> QED
  BY <1>1, <1>2, <1>3, <1>4 DEF RunSees, Untouched

LEMMA FinishSees ==
  ASSUME TypeOK, NEW p \in Publishers, NEW res, Finish(p, res) PROVE RunSees(p)'
<1>1. pc'[p] = "idle" /\ existing'[p] = EmptyMap /\ fresh'[p] = EmptyMap
  BY DEF TypeOK, Finish
<1> QED
  BY <1>1 DEF RunSees

LEMMA FetchSees ==
  ASSUME TypeOK, Orderly, SeesInv, NEW p \in Publishers, FetchRoot(p)
  PROVE  RunSees(p)'
<1>0. pc[p] = "fetch" /\ UNCHANGED <<relay, existing, fresh>> /\ RunSees(p)
  BY DEF FetchRoot, remote, SeesInv
<1>1. Held(Relays)' = Held(Relays) /\ VisibleCache' = VisibleCache
  BY <1>0, QuietHeld
<1>2. PICK R \in FetchSets :
        \/ Held(R) = {} /\ pc' = [pc EXCEPT ![p] = "closure"] /\ UNCHANGED root
        \/ \E e \in Newest(Held(R)) :
             root' = [root EXCEPT ![p] = {e}] /\ pc' = [pc EXCEPT ![p] = "flatten"]
  BY DEF FetchRoot
<1>3. CASE Held(R) = {} /\ pc' = [pc EXCEPT ![p] = "closure"]
  <2>1. VisibleCache = EmptyMap
    BY <1>3, FetchesNewest, NothingSeen DEF SeesInv
  <2>2. pc'[p] = "closure"
    BY <1>3 DEF TypeOK
  <2> QED
    BY <1>0, <1>1, <2>1, <2>2 DEF RunSees
<1>4. ASSUME NEW e \in Newest(Held(R)), root' = [root EXCEPT ![p] = {e}],
             pc' = [pc EXCEPT ![p] = "flatten"]
      PROVE  RunSees(p)'
  <2>1. pc'[p] = "flatten" /\ root'[p] = {e}
    BY <1>4 DEF TypeOK
  <2>2. Held(R) # {}
    BY <1>4 DEF Newest
  <2>3. Newest(Held(R)) = Newest(Held(Relays)) /\ Held(Relays) # {}
    BY <2>2, FetchesNewest DEF SeesInv
  <2>4. Newest(Held(Relays)) = {e}
    <3>1. PICK d \in Held(Relays) : \A f \in Held(Relays) : f = d \/ f.at < d.at
      BY <2>3 DEF SeesInv, RelaysInv, OneNewest
    <3>2. Newest(Held(Relays)) = {d}
      BY <3>1, HeldTypes, OnlyOne
    <3> QED
      BY <1>4, <2>3, <3>2
  <2>5. Newest(Held(Relays))' = {e}
    BY <1>1, <2>4 DEF Newest
  <2> QED
    BY <1>0, <2>1, <2>5 DEF RunSees
<1> QED
  BY <1>2, <1>3, <1>4

LEMMA FlattenSees ==
  ASSUME TypeOK, SeesInv, NEW p \in Publishers, FlattenTree(p), ~Finish(p, "err")
  PROVE  RunSees(p)'
<1>1. PICK e \in root[p] :
        /\ existing' = [existing EXCEPT ![p] = e.tree.ents]
        /\ pc' = [pc EXCEPT ![p] = "closure"]
        /\ UNCHANGED <<cfg, root, todo, fresh, queue, event, result>>
  BY DEF FlattenTree
<1>2. pc[p] = "flatten" /\ UNCHANGED relay /\ RunSees(p)
  BY DEF FlattenTree, remote, SeesInv
<1>3. e \in Newest(Held(Relays)) /\ e \in Held(Relays)
  BY <1>1, <1>2 DEF RunSees, Newest
<1>4. VisibleCache = e.tree.ents
  <2>1. PICK d \in Held(Relays) : \A f \in Held(Relays) : f = d \/ f.at < d.at
    BY <1>3 DEF SeesInv, RelaysInv, OneNewest
  <2>2. Newest(Held(Relays)) = {d}
    BY <2>1, HeldTypes, OnlyOne
  <2> QED
    BY <1>3, <2>2, SeenIsNewest
<1>5. existing'[p] = VisibleCache' /\ pc'[p] = "closure" /\ fresh'[p] = EmptyMap
  BY <1>1, <1>2, <1>4, QuietHeld DEF TypeOK, RunSees
<1> QED
  BY <1>5 DEF RunSees

LEMMA ResolveSees ==
  ASSUME TypeOK, SeesInv, NEW p \in Publishers, ResolveClosure(p) PROVE RunSees(p)'
<1>1. /\ pc[p] = "closure" /\ pc'[p] = "process" /\ todo'[p] = cfg[p].paths
      /\ UNCHANGED <<relay, cfg, existing, fresh>> /\ RunSees(p)
  BY DEF TypeOK, ResolveClosure, remote, SeesInv
<1>2. VisibleCache' = VisibleCache
  BY <1>1, QuietHeld
<1>3. Entered(p, cfg[p].paths \ todo[p])' = EmptyMap
  BY <1>1 DEF Entered, EmptyMap
<1> QED
  BY <1>1, <1>2, <1>3 DEF RunSees

LEMMA ProcessSees ==
  ASSUME TypeOK, SeesInv, NEW p \in Publishers, ProcessPath(p) PROVE RunSees(p)'
<1> DEFINE Entry(x) == IF x \in DOMAIN existing[p]
                       THEN existing[p][x] ELSE NarInfo(x, cfg[p])
           X == cfg[p].paths \ todo[p]
<1>1. PICK x \in todo[p] :
        /\ todo' = [todo EXCEPT ![p] = @ \ {x}]
        /\ fresh' = [fresh EXCEPT ![p] = Merge([n \in {x} |-> Entry(x)], @)]
  BY DEF ProcessPath
<1>2. /\ pc[p] = "process" /\ UNCHANGED <<relay, pc, cfg, existing>> /\ RunSees(p)
  BY DEF ProcessPath, remote, SeesInv
<1>3. /\ todo'[p] = todo[p] \ {x}
      /\ fresh'[p] = Merge([n \in {x} |-> Entry(x)], fresh[p])
  BY <1>1 DEF TypeOK
<1>4. todo[p] \subseteq cfg[p].paths /\ fresh[p] = Entered(p, X)
  BY <1>2 DEF RunSees
<1>5. cfg[p].paths \ (todo[p] \ {x}) = {x} \cup X
  BY <1>4
<1>6. Merge([n \in {x} |-> Entry(x)], Entered(p, X)) = Entered(p, {x} \cup X)
  BY DEF Merge, Entered
<1>7. fresh'[p] = Entered(p, cfg[p].paths \ todo[p])'
  BY <1>2, <1>3, <1>4, <1>5, <1>6 DEF Entered
<1>8. VisibleCache' = VisibleCache
  BY <1>2, QuietHeld
<1> QED
  BY <1>2, <1>3, <1>4, <1>7, <1>8 DEF RunSees

LEMMA BuildSees ==
  ASSUME TypeOK, SeesInv, NEW p \in Publishers, BuildTree(p) PROVE RunSees(p)'
<1>1. /\ pc[p] = "process" /\ pc'[p] = "tree" /\ todo[p] = {}
      /\ UNCHANGED <<relay, cfg, existing, fresh>> /\ RunSees(p)
  BY DEF TypeOK, BuildTree, remote, SeesInv
<1>2. VisibleCache' = VisibleCache /\ cfg[p].paths \ todo[p] = cfg[p].paths
  BY <1>1, QuietHeld
<1>3. fresh'[p] = Entered(p, cfg[p].paths)'
  BY <1>1, <1>2 DEF RunSees, Entered
<1> QED
  BY <1>1, <1>2, <1>3 DEF RunSees

LEMMA SignSees ==
  ASSUME TypeOK, Orderly, SeesInv, NEW p \in Publishers, SignRoot(p)
  PROVE  RunSees(p)' /\ Quiet
<1> DEFINE e == RootEvent(p)
<1>1. /\ pc[p] = "tree" /\ pc'[p] = "send" /\ ~cfg[p].dry /\ event'[p] = {e}
      /\ UNCHANGED <<relay, cfg, existing, fresh>> /\ RunSees(p)
  BY DEF TypeOK, SignRoot, remote, SeesInv
<1>2. VisibleCache' = VisibleCache /\ Held(Relays)' = Held(Relays)
  BY <1>1, QuietHeld
<1>3. PICK d \in Delays : clock' = clock + d
  BY DEF SignRoot
<1>4. d \in Nat /\ d # 0 /\ clock \in Int /\ Skew[p] \in Int
  BY EnvironmentAssumption, HeldTypes DEF Orderly
<1>5. clock' \in Int /\ clock' > clock /\ clock' >= clock
  BY <1>3, <1>4
<1>6. e.tree.ents = Merge(VisibleCache, Added(cfg[p])) /\ e.at = clock + Skew[p]
  BY <1>1, TreeIsUpdate DEF SeesInv, RootEvent
<1> HIDE DEF e
<1>7. e.tree.ents = Merge(VisibleCache, Added(cfg[p]))'
  BY <1>1, <1>2, <1>6 DEF Merge, Added
<1>8. e.at < clock' + Skew[p]
  BY <1>4, <1>5, <1>6
<1>9. \A f \in Held(Relays) : f.at < e.at
  BY <1>6 DEF SeesInv, RelaysInv, Older
<1>10. \E x : event'[p] = {x} /\ SignedUpdate(p, x)'
  <2>1. PICK x : x = e
    OBVIOUS
  <2>2. SignedUpdate(p, x)'
    BY <1>1, <1>2, <1>7, <1>8, <1>9, <2>1 DEF SignedUpdate
  <2> QED
    BY <1>1, <2>1, <2>2
<1>11. existing'[p] = VisibleCache' /\ ~cfg'[p].dry
  BY <1>1, <1>2 DEF RunSees
<1>12. RunSees(p)'
  BY <1>1, <1>10, <1>11 DEF RunSees
<1> QED
  BY <1>1, <1>5, <1>12 DEF Quiet

(* The steps of p but the sending of its event.                            *)
LEMMA StepSees ==
  ASSUME TypeOK, Orderly, SeesInv, NEW p \in Publishers,
         (\E c \in Configs : Start(p, c)) \/ Step(p) \/ Abort(p), ~SendRoot(p)
  PROVE  RunSees(p)' /\ Quiet
<1>0. RunSees(p)
  BY DEF SeesInv
<1>1. CASE SignRoot(p)
  BY <1>1, SignSees
<1>2. ASSUME ~SignRoot(p) PROVE Quiet
  <2>1. UNCHANGED relay /\ clock' = clock
    BY <1>2 DEF Step, remote, Start, FetchRoot, FlattenTree, ResolveClosure,
       ProcessPath, BuildTree, Upload, FinishDry, Abort
  <2> QED
    BY <2>1, HeldTypes DEF Quiet
<1>3. CASE \E c \in Configs : Start(p, c)
  <2>1. /\ pc[p] = "idle" /\ pc'[p] = "fetch" /\ UNCHANGED <<existing, fresh>>
    BY <1>3 DEF TypeOK, Start
  <2>2. RunSees(p)'
    BY <1>0, <2>1 DEF RunSees
  <2>3. ~SignRoot(p)
    BY <2>1 DEF SignRoot
  <2> QED
    BY <1>2, <2>2, <2>3
<1>4. ASSUME NEW res, Finish(p, res), ~SignRoot(p) PROVE RunSees(p)' /\ Quiet
  BY <1>2, <1>4, FinishSees
<1>5. CASE Upload(p) /\ ~Finish(p, "err")
  <2>1. /\ UNCHANGED <<relay, pc, cfg, root, existing, todo, fresh, event>>
        /\ clock' = clock
    BY <1>5 DEF Upload
  <2>2. queue[p] # <<>> /\ queue'[p] = Tail(queue[p])
    BY <1>5 DEF TypeOK, Upload
  <2>3. VisibleCache' = VisibleCache /\ Held(Relays)' = Held(Relays) /\ Quiet
    BY <2>1, QuietHeld, HeldTypes DEF Quiet
  <2>4. \A X : Entered(p, X)' = Entered(p, X)
    BY <2>1 DEF Entered
  <2>5. pc[p] = "send" => ~cfg'[p].dry /\ \E e : event'[p] = {e} /\ SignedUpdate(p, e)'
    BY <1>0, <2>1, <2>3, SignedStays DEF RunSees
  <2>6. Newest(Held(Relays))' = Newest(Held(Relays))
    BY <2>3 DEF Newest
  <2>7. RunSees(p)'
    BY <1>0, <2>1, <2>3, <2>4, <2>5, <2>6 DEF RunSees
  <2> QED
    BY <2>3, <2>7
<1>6. FlattenTree(p) => RunSees(p)'
  BY FlattenSees, FinishSees
<1>7. FetchRoot(p) \/ ResolveClosure(p) \/ ProcessPath(p) \/ BuildTree(p) => RunSees(p)'
  BY FetchSees, ResolveSees, ProcessSees, BuildSees
<1>8. FinishDry(p) \/ Abort(p) \/ (Upload(p) /\ Finish(p, "err")) => RunSees(p)'
  BY FinishSees DEF FinishDry, Abort
<1> QED
  BY <1>1, <1>2, <1>3, <1>5, <1>6, <1>7, <1>8 DEF Step
-----------------------------------------------------------------------------
(* The sending of an event is the update of the register.                  *)

LEMMA SendSees ==
  ASSUME TypeOK, Orderly, OneAtATime, SeesInv, NEW p \in Publishers, SendRoot(p)
  PROVE  /\ SeesInv'
         /\ Register!Next \/ VisibleCache' = VisibleCache
<1>0. /\ pc[p] = "send" /\ clock' = clock
      /\ RunSees(p) /\ cfg[p] \in Configs
  BY DEF SendRoot, SeesInv, TypeOK
<1>1. PICK e : event[p] = {e} /\ SignedUpdate(p, e) /\ ~cfg[p].dry
  BY <1>0 DEF RunSees
<1>2. PICK A \in AcceptSets :
        /\ relay' = [r \in Relays |->
              IF r \in {x \in A : \A f \in relay[x] : f.at <= e.at} THEN {e} ELSE relay[r]]
        /\ \E res : Finish(p, res)
  BY <1>1 DEF SendRoot
<1>3. A \subseteq Relays /\ e.at \in Int
  BY <1>1, EnvironmentAssumption DEF TypeOK, Events
<1>4. relay' = [r \in Relays |-> IF r \in A THEN {e} ELSE relay[r]]
  <2>1. \A x \in A : \A f \in relay[x] : f.at <= e.at
    <3>1. \A x \in A : \A f \in relay[x] : f \in Held(Relays)
      BY <1>3 DEF Held
    <3> QED
      BY <1>1, <1>3, <3>1, HeldTypes DEF SignedUpdate
  <2> QED
    BY <1>2, <2>1
<1>5. \A q \in Publishers : RunSees(q)'
  <2> SUFFICES ASSUME NEW q \in Publishers PROVE RunSees(q)'
    OBVIOUS
  <2>1. CASE q = p
    BY <1>2, <2>1, FinishSees
  <2>2. CASE q # p
    <3>1. pc[q] = "idle"
      BY <1>0, <2>2 DEF OneAtATime
    <3>2. Untouched(q)
      BY <2>2, OthersUntouched DEF Step
    <3> QED
      BY <3>1, <3>2 DEF SeesInv, RunSees, Untouched
  <2> QED
    BY <2>1, <2>2
<1>6. CASE A = {}
  <2>1. relay' = relay
    BY <1>4, <1>6 DEF TypeOK
  <2>2. Quiet
    BY <1>0, <2>1, HeldTypes DEF Quiet
  <2> QED
    BY <1>5, <2>1, <2>2, QuietHeld, QuietRelays DEF SeesInv
<1>7. CASE A # {}
  <2>1. OnAll(e, A)'
    BY <1>3, <1>4, <1>7 DEF OnAll
  <2>2. e \in Held(Relays)' /\ \A f \in Held(Relays)' : f = e \/ f \in Held(Relays)
    BY <1>3, <1>4, <1>7 DEF Held
  <2>3. \A f \in Held(Relays)' : f = e \/ f.at < e.at
    BY <1>1, <2>2 DEF SignedUpdate
  <2>4. OneNewest'
    BY <2>1, <2>2, <2>3 DEF OneNewest
  <2>5. Older'
    <3>1. \A q \in Publishers : e.at < clock + Skew[q]
      BY <1>1, <1>3, HeldTypes DEF Orderly, SignedUpdate
    <3> QED
      BY <1>0, <2>2, <3>1 DEF SeesInv, RelaysInv, Older
  <2>6. e.tree.ents = Merge(VisibleCache, Added(cfg[p]))
    BY <1>1 DEF SignedUpdate
  <2>7. Info(e.tree.ents)
    <3>1. Info(VisibleCache)
      BY SeenInfo DEF SeesInv
    <3> QED
      BY <2>6, <3>1 DEF Info, Merge, Added
  <2>8. Infos'
    BY <2>2, <2>7 DEF SeesInv, RelaysInv, Infos, Info
  <2>9. VisibleCache' = e.tree.ents
    <3>1. \A f \in Held(Relays)' : f.at \in Int
      BY <1>3, <2>2, HeldTypes
    <3>2. {f \in Held(Relays)' : \A g \in Held(Relays)' : g.at <= f.at} = {e}
      BY <2>2, <2>3, <3>1, OnlyOne DEF Newest
    <3> QED
      BY <3>2 DEF VisibleCache, Newest
  <2>10. Register!Next
    BY <1>0, <1>1, <2>6, <2>9, RegisterPublish
  <2> QED
    BY <1>5, <2>4, <2>5, <2>8, <2>10 DEF SeesInv, RelaysInv
<1> QED
  BY <1>6, <1>7

LEMMA NextSees ==
  ASSUME TypeOK, Orderly, OneAtATime, SeesInv, [Next]_vars
  PROVE  /\ SeesInv'
         /\ Register!Next \/ VisibleCache' = VisibleCache
<1>1. ASSUME NEW p \in Publishers, ~SendRoot(p),
             (\E c \in Configs : Start(p, c)) \/ Step(p) \/ Abort(p)
      PROVE  SeesInv' /\ VisibleCache' = VisibleCache
  <2>1. RunSees(p)' /\ Quiet
    BY <1>1, StepSees
  <2>2. ASSUME NEW q \in Publishers, q # p PROVE RunSees(q)'
    BY <1>1, <2>1, <2>2, OthersUntouched, OthersSee DEF SeesInv
  <2> QED
    BY <2>1, <2>2, QuietRelays, QuietHeld DEF SeesInv, Quiet
<1>2. ASSUME NEW p \in Publishers, SendRoot(p)
      PROVE  SeesInv' /\ (Register!Next \/ VisibleCache' = VisibleCache)
  BY <1>2, SendSees
<1>3. CASE UNCHANGED vars
  <2>1. Quiet /\ \A q \in Publishers : Untouched(q)
    BY <1>3, HeldTypes DEF Quiet, Untouched, vars
  <2> QED
    BY <2>1, OthersSee, QuietRelays, QuietHeld DEF SeesInv, Quiet
<1> QED
  BY <1>1, <1>2, <1>3 DEF Next

(* Where no two runs overlap, the clocks agree and the relays answer as    *)
(* they should, the publish pipeline is an atomic register: whatever run   *)
(* fails or dies wherever, what a client sees changes only by a whole      *)
(* publish, which keeps the entries of those before it (lib.rs step 1,     *)
(* "atomic update guarantee").                                             *)
THEOREM PublishIsAtomic == Orderly => (Spec /\ []OneAtATime => AtomicUpdate)
<1> SUFFICES ASSUME Orderly PROVE Spec /\ []OneAtATime => AtomicUpdate
  OBVIOUS
<1>1. Init => Register!Init
  <2> SUFFICES ASSUME Init PROVE VisibleCache = EmptyMap
    BY RegisterInit
  <2>1. Held(Relays) = {}
    BY DEF Held, Init
  <2> QED
    BY <2>1, NothingSeen
<1>2. TypeOK /\ OneAtATime /\ SeesInv /\ [Next]_vars =>
        SeesInv' /\ [Register!Next]_VisibleCache
  BY NextSees
<1> QED
  BY <1>1, <1>2, TypeCorrect, InitSees, PTL DEF Spec, AtomicUpdate, Register!Spec
=============================================================================
