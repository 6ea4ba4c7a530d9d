---------------------------- MODULE HashtreeProofs ----------------------------
(***************************************************************************)
(* The builder's order and the nhash parser, for any lists of entries, any *)
(* servers and any payloads.                                               *)
(***************************************************************************)
EXTENDS Hashtree, SequenceTheorems, TLAPS

-----------------------------------------------------------------------------
(* Type correctness.                                                       *)

BuildType ==
  /\ bpc \in {"idle", "build", "upload"}
  /\ input \in Seq(Entries)
  /\ level \in Seq(Links) /\ next \in Seq(NodeLinks)
  /\ all \in Seq(Hashes) /\ sent \in 0..Len(all)
  /\ bpc = "upload" => all # <<>>

ReadType ==
  /\ rpc \in {"idle", "parse", "walk"}
  /\ data \in Seq(Nat) /\ pos \in 0..Len(data) /\ got \in Nat
  /\ todo \in Seq(Links) /\ server \in 1..(NServers + 1)
  /\ out \in Seq(Entries)
  /\ result \in {"none", "ok", "err"} /\ fault \in BOOLEAN
  /\ rpc # "parse" => pos = 0

WorldType ==
  /\ sha \in Seq(Seq(Links))
  /\ store \in [Servers -> SUBSET Hashes]
  /\ roots \in SUBSET [root : Hashes, of : Seq(Entries)]
  /\ builds \in 0..Len(Inputs) /\ reads \in 0..MaxReads

TInv == WorldType /\ BuildType /\ ReadType

LEMMA InitType == Init => TInv
<1> SUFFICES ASSUME Init PROVE TInv
  OBVIOUS
<1>1. \A S : <<>> \in Seq(S) /\ Len(<<>>) = 0
  BY EmptySeq
<1>2. 0 \in 0..Len(Inputs) /\ 0 \in 0..MaxReads /\ 1 \in 1..(NServers + 1)
  BY HashtreeAssumption, LenProperties
<1>3. WorldType
  BY <1>1, <1>2 DEF Init, WorldType
<1>4. BuildType
  BY <1>1 DEF Init, BuildType
<1>5. ReadType
  <2>1. rpc = "idle" /\ result = "none" /\ fault = FALSE /\ got = 0
    BY DEF Init
  <2>2. /\ data = <<>> /\ pos = 0 /\ todo = <<>> /\ server = 1 /\ out = <<>>
    BY DEF Init
  <2>3. pos \in 0..Len(data) /\ data \in Seq(Nat)
    BY <1>1, <2>2
  <2> QED
    BY <1>1, <1>2, <2>1, <2>2, <2>3 DEF ReadType
<1> QED
  BY <1>3, <1>4, <1>5 DEF TInv

LEMMA SortedType ==
  ASSUME NEW I \in Seq(Entries), NEW L \in Sorted(I)
  PROVE  L \in Seq(Entries)
<1>1. PICK p \in [DOMAIN I -> DOMAIN I] : L = [k \in DOMAIN I |-> I[p[k]]]
  BY DEF Sorted
<1>2. Len(I) \in Nat /\ DOMAIN I = 1..Len(I) /\ \A k \in 1..Len(I) : I[k] \in Entries
  BY LenProperties, ElementOfSeq
<1>3. \A k \in 1..Len(I) : I[p[k]] \in Entries
  BY <1>1, <1>2
<1> QED
  BY <1>1, <1>2, <1>3

(* Hashes stay hashes.                                                     *)
LEMMA HashStep ==
  ASSUME sha \in Seq(Seq(Links)), NEW L \in Seq(Links), NEW h, Hash(L, h)
  PROVE  /\ sha' \in Seq(Seq(Links)) /\ Hashes \subseteq Hashes'
         /\ h \in Hashes' /\ sha'[h] = L
         /\ \A k \in Hashes : sha'[k] = sha[k]
<1>1. CASE h \in Hashes /\ sha[h] = L /\ UNCHANGED sha
  BY <1>1 DEF Hashes
<1>2. CASE h = Len(sha) + 1 /\ sha' = Append(sha, L)
  <2>1. Len(sha) \in Nat /\ Len(sha') = Len(sha) + 1 /\ sha' \in Seq(Seq(Links))
    BY <1>2, AppendProperties, LenProperties
  <2>2. sha'[h] = L /\ \A k \in 1..Len(sha) : sha'[k] = sha[k]
    BY <1>2, AppendProperties
  <2> QED
    BY <1>2, <2>1, <2>2 DEF Hashes
<1> QED
  BY <1>1, <1>2 DEF Hash

(* What a chunk takes from the level.                                      *)
LEMMA ChunkParts ==
  ASSUME TInv
  PROVE  LET k == Least(MaxLinks, Len(level)) IN
         /\ SubSeq(level, 1, k) \in Seq(Links)
         /\ SubSeq(level, k + 1, Len(level)) \in Seq(Links)
         /\ \A i \in DOMAIN SubSeq(level, 1, k) :
              i \in 1..Len(level) /\ SubSeq(level, 1, k)[i] = level[i]
         /\ \A i \in DOMAIN SubSeq(level, k + 1, Len(level)) :
              \E j \in 1..Len(level) : SubSeq(level, k + 1, Len(level))[i] = level[j]
<1> DEFINE k == Least(MaxLinks, Len(level))
<1>1. level \in Seq(Links) /\ Len(level) \in Nat /\ MaxLinks \in Nat
  BY LenProperties, HashtreeAssumption DEF TInv, BuildType
<1>2. k \in Nat /\ k <= Len(level)
  BY <1>1 DEF Least
<1> HIDE DEF k
<1>3. \A i \in 1..Len(level) : level[i] \in Links
  BY <1>1, ElementOfSeq
<1>4. /\ SubSeq(level, 1, k) \in Seq(Links) /\ Len(SubSeq(level, 1, k)) = k
      /\ \A i \in 1..k : SubSeq(level, 1, k)[i] = level[i]
  <2>1. \A i \in 1..k : level[i] \in Links
    BY <1>1, <1>2, <1>3
  <2> QED
    BY <1>2, <2>1, SubSeqProperties
<1>5. /\ SubSeq(level, k + 1, Len(level)) \in Seq(Links)
      /\ Len(SubSeq(level, k + 1, Len(level))) = Len(level) - k
      /\ \A i \in 1..(Len(level) - k) :
           SubSeq(level, k + 1, Len(level))[i] = level[k + i]
  <2>1. \A i \in (k + 1)..Len(level) : level[i] \in Links
    BY <1>1, <1>2, <1>3
  <2>2. k + 1 \in Int /\ Len(level) \in Int
    BY <1>1, <1>2
  <2>3. /\ SubSeq(level, k + 1, Len(level)) \in Seq(Links)
        /\ Len(SubSeq(level, k + 1, Len(level)))
             = IF k + 1 <= Len(level) THEN Len(level) - (k + 1) + 1 ELSE 0
        /\ \A i \in 1..(Len(level) - (k + 1) + 1) :
             SubSeq(level, k + 1, Len(level))[i] = level[(k + 1) + i - 1]
    BY <2>1, <2>2, SubSeqProperties
  <2>4. \A i \in 1..(Len(level) - k) : (k + 1) + i - 1 = k + i
    BY <1>1, <1>2
  <2> QED
    BY <1>1, <1>2, <2>3, <2>4
<1>6. /\ DOMAIN SubSeq(level, 1, k) = 1..k
      /\ DOMAIN SubSeq(level, k + 1, Len(level)) = 1..(Len(level) - k)
  BY <1>4, <1>5, LenProperties
<1>7. \A i \in 1..(Len(level) - k) : k + i \in 1..Len(level)
  BY <1>1, <1>2
<1>8. \A i \in 1..k : i \in 1..Len(level)
  BY <1>1, <1>2
<1> QED
  BY <1>4, <1>5, <1>6, <1>7, <1>8 DEF k

LEMMA EndBuildType ==
  ASSUME EndBuild PROVE BuildType'
<1>1. \A S : <<>> \in Seq(S) /\ Len(<<>>) = 0
  BY EmptySeq
<1>2. /\ bpc' = "idle" /\ input' = <<>> /\ level' = <<>> /\ next' = <<>>
      /\ all' = <<>> /\ sent' = 0
  BY DEF EndBuild
<1>3. sent' \in 0..Len(all')
  BY <1>1, <1>2
<1> QED
  BY <1>1, <1>2, <1>3 DEF BuildType

LEMMA EndReadType ==
  ASSUME NEW res \in {"ok", "err"}, EndRead(res), fault' \in BOOLEAN PROVE ReadType'
<1>1. \A S : <<>> \in Seq(S) /\ Len(<<>>) = 0
  BY EmptySeq
<1>2. /\ rpc' = "idle" /\ result' = res
      /\ data' = <<>> /\ pos' = 0 /\ got' = 0
      /\ todo' = <<>> /\ server' = 1 /\ out' = <<>>
  BY DEF EndRead
<1>3. pos' \in 0..Len(data') /\ server' \in 1..(NServers + 1) /\ data' \in Seq(Nat)
  BY <1>1, <1>2, HashtreeAssumption
<1> QED
  BY <1>1, <1>2, <1>3 DEF ReadType

(* A step that leaves a part alone.                                        *)
LEMMA SameWorld == ASSUME WorldType, UNCHANGED world PROVE WorldType'
BY DEF WorldType, world, Hashes

LEMMA SameBuild ==
  ASSUME BuildType, UNCHANGED buildVars, Hashes \subseteq Hashes' PROVE BuildType'
<1>1. all \in Seq(Hashes')
  BY SeqMonotonic DEF BuildType
<1> QED
  BY <1>1 DEF BuildType, buildVars

LEMMA SameRead == ASSUME ReadType, UNCHANGED readVars PROVE ReadType'
BY DEF ReadType, readVars

LEMMA EndBuildStep ==
  ASSUME TInv, EndBuild, UNCHANGED readVars, WorldType' PROVE TInv'
BY EndBuildType, SameRead DEF TInv

LEMMA BeginType ==
  ASSUME TInv, builds < Len(Inputs), NEW I \in Inputs[builds + 1], Begin(I)
  PROVE  TInv'
<1>1. /\ bpc' = "build" /\ builds' = builds + 1 /\ input' = I /\ level' \in Sorted(I)
      /\ UNCHANGED <<sha, store, roots, reads, next, all, sent, readVars>>
  BY DEF Begin
<1>2. builds' \in 0..Len(Inputs) /\ builds + 1 \in 1..Len(Inputs)
  BY <1>1, HashtreeAssumption, LenProperties DEF TInv, WorldType
<1>3. I \in Seq(Entries)
  BY <1>2, HashtreeAssumption, ElementOfSeq
<1>4. level' \in Seq(Entries) /\ Entries \subseteq Links
  BY <1>1, <1>3, SortedType DEF Links
<1>5. level' \in Seq(Links)
  BY <1>4, SeqMonotonic
<1>6. WorldType'
  BY <1>1, <1>2 DEF TInv, WorldType, Hashes
<1>7. BuildType'
  BY <1>1, <1>3, <1>5 DEF TInv, BuildType, Hashes
<1> QED
  BY <1>1, <1>6, <1>7, SameRead DEF TInv

LEMMA ChunkType == ASSUME TInv, Chunk PROVE TInv'
<1> DEFINE k == Least(MaxLinks, Len(level))
           L == SubSeq(level, 1, k)
           rest == SubSeq(level, k + 1, Len(level))
<1>1. PICK h \in 1..(Len(sha) + 1) :
        LET up == Append(next, [h |-> h, n |-> 0, t |-> 2]) IN
        /\ Hash(L, h)
        /\ all' = Append(all, h)
        /\ \/ rest # <<>> /\ level' = rest /\ next' = up /\ UNCHANGED bpc
           \/ /\ rest = <<>> /\ level' = up /\ next' = <<>>
              /\ bpc' = IF Len(up) > 1 THEN "build" ELSE "upload"
  BY DEF Chunk
<1> DEFINE link == [h |-> h, n |-> 0, t |-> 2]
<1>2. /\ bpc = "build" /\ UNCHANGED <<store, roots, builds, reads, input, sent, readVars>>
  BY DEF Chunk
<1>3. L \in Seq(Links) /\ rest \in Seq(Links)
  BY ChunkParts
<1> HIDE DEF L, rest
<1>4. /\ sha' \in Seq(Seq(Links)) /\ Hashes \subseteq Hashes' /\ h \in Hashes'
  BY <1>1, <1>3, HashStep DEF TInv, WorldType
<1>5. WorldType'
  BY <1>2, <1>4 DEF TInv, WorldType
<1>6. link \in NodeLinks /\ NodeLinks \subseteq Links
  BY <1>4, LenProperties DEF NodeLinks, Links, Hashes
<1>7. Append(next, link) \in Seq(NodeLinks)
  BY <1>6, AppendProperties DEF TInv, BuildType
<1>8. Append(next, link) \in Seq(Links)
  BY <1>6, <1>7, SeqMonotonic
<1>9. /\ all' \in Seq(Hashes') /\ Len(all') = Len(all) + 1 /\ Len(all) \in Nat
      /\ all' # <<>>
  <2>1. all \in Seq(Hashes')
    BY <1>4, SeqMonotonic DEF TInv, BuildType
  <2> QED
    BY <1>1, <1>4, <2>1, AppendProperties, LenProperties
<1>10. level' \in Seq(Links) /\ next' \in Seq(NodeLinks)
  BY <1>1, <1>3, <1>7, <1>8, EmptySeq
<1>11. bpc' \in {"build", "upload"}
  BY <1>1, <1>2
<1>12. sent' \in 0..Len(all')
  BY <1>2, <1>9 DEF TInv, BuildType
<1>13. BuildType'
  BY <1>2, <1>9, <1>10, <1>11, <1>12 DEF TInv, BuildType
<1> QED
  BY <1>2, <1>5, <1>13, SameRead DEF TInv

LEMMA PutType == ASSUME TInv, Put PROVE TInv'
<1>1. PICK W \in AcceptSets :
        /\ store' = [i \in Servers |->
                       store[i] \cup (IF i \in W THEN {all[sent + 1]} ELSE {})]
        /\ \/ sent' = sent + 1 /\ UNCHANGED <<bpc, input, level, next, all>>
           \/ EndBuild
  BY DEF Put
<1>2. /\ bpc = "upload" /\ sent < Len(all)
      /\ UNCHANGED <<sha, roots, builds, reads, readVars>>
  BY DEF Put
<1>3. sent + 1 \in 1..Len(all) /\ all[sent + 1] \in Hashes
  <2>1. sent + 1 \in 1..Len(all)
    BY <1>2, LenProperties DEF TInv, BuildType
  <2> QED
    BY <2>1, ElementOfSeq DEF TInv, BuildType
<1>4. store' \in [Servers -> SUBSET Hashes]
  BY <1>1, <1>3 DEF TInv, WorldType
<1>5. WorldType'
  BY <1>2, <1>4 DEF TInv, WorldType, Hashes
<1>6. CASE EndBuild
  BY <1>2, <1>5, <1>6, EndBuildStep
<1>7. CASE sent' = sent + 1 /\ UNCHANGED <<bpc, input, level, next, all>>
  <2>1. BuildType'
    BY <1>2, <1>3, <1>7 DEF TInv, BuildType, Hashes
  <2> QED
    BY <1>2, <1>5, <2>1, SameRead DEF TInv
<1> QED
  BY <1>1, <1>6, <1>7

LEMMA PublishType == ASSUME TInv, Publish PROVE TInv'
<1>1. /\ bpc = "upload" /\ EndBuild
      /\ roots' = roots \cup {[root |-> all[Len(all)], of |-> input]}
      /\ UNCHANGED <<sha, store, builds, reads, readVars>>
  BY DEF Publish
<1>2. all \in Seq(Hashes) /\ all # <<>> /\ input \in Seq(Entries)
  BY <1>1 DEF TInv, BuildType
<1>3. Len(all) \in 1..Len(all)
  BY <1>2, EmptySeq, LenProperties
<1>4. all[Len(all)] \in Hashes
  BY <1>2, <1>3, ElementOfSeq
<1>5. WorldType'
  BY <1>1, <1>2, <1>4 DEF TInv, WorldType, Hashes
<1> QED
  BY <1>1, <1>5, EndBuildStep

LEMMA OpenType ==
  ASSUME TInv, NEW r \in roots, NEW H \in Headers, Open(r.root, H) PROVE TInv'
<1>1. /\ reads < MaxReads /\ reads' = reads + 1
      /\ rpc' = "parse" /\ data' = H \o Encode(r.root)
      /\ result' = "none" /\ fault' = FALSE
      /\ UNCHANGED <<sha, store, roots, builds, buildVars, pos, got, todo, server, out>>
      /\ rpc = "idle"
  BY DEF Open
<1>2. r.root \in Nat
  BY LenProperties DEF TInv, WorldType, Hashes
<1>3. <<0, HashLen>> \in Seq(Nat) /\ [i \in 1..HashLen |-> r.root] \in Seq(Nat)
  BY <1>2, HashtreeAssumption
<1>4. Encode(r.root) \in Seq(Nat)
  BY <1>3, ConcatProperties DEF Encode
<1>5. data' \in Seq(Nat)
  BY <1>1, <1>4, HashtreeAssumption, ConcatProperties
<1>6. 0 \in 0..Len(data') /\ pos = 0
  BY <1>1, <1>5, LenProperties DEF TInv, ReadType
<1>7. ReadType'
  BY <1>1, <1>5, <1>6 DEF TInv, ReadType
<1>8. WorldType'
  <2>1. reads' \in 0..MaxReads
    BY <1>1, HashtreeAssumption DEF TInv, WorldType
  <2> QED
    BY <1>1, <2>1 DEF TInv, WorldType, Hashes
<1> QED
  BY <1>1, <1>7, <1>8, SameBuild DEF TInv, Hashes

(* What the parser finds there is an entry.                                *)
LEMMA RoundParts ==
  ASSUME TInv, rpc = "parse", pos + 2 <= Len(data)
  PROVE  /\ pos \in Nat /\ Len(data) \in Nat
         /\ data[pos + 1] \in Nat /\ data[pos + 2] \in Nat
         /\ pos + 2 + data[pos + 2] \in Nat
<1>1. pos + 1 \in 1..Len(data) /\ pos + 2 \in 1..Len(data) /\ pos \in Nat
  BY LenProperties DEF TInv, ReadType
<1>2. data[pos + 1] \in Nat /\ data[pos + 2] \in Nat
  BY <1>1, ElementOfSeq DEF TInv, ReadType
<1> QED
  BY <1>1, <1>2, LenProperties DEF TInv, ReadType

LEMMA RootType ==
  ASSUME TInv, NEW h \in Nat, Root(h) PROVE ReadType'
<1>1. /\ got' = h /\ rpc' = "walk" /\ data' = <<>> /\ pos' = 0
      /\ todo' = <<[h |-> h, n |-> 0, t |-> 2]>>
      /\ UNCHANGED <<server, out, result, fault>>
  BY DEF Root
<1>2. data' \in Seq(Nat) /\ pos' \in 0..Len(data')
  BY <1>1, EmptySeq
<1>3. todo' \in Seq(Links)
  BY <1>1 DEF Links, NodeLinks
<1> QED
  BY <1>1, <1>2, <1>3 DEF TInv, ReadType

LEMMA ParseType == ASSUME TInv, Parse PROVE TInv'
<1>1. rpc = "parse" /\ UNCHANGED <<world, buildVars>>
  BY DEF Parse
<1> SUFFICES ReadType'
  BY <1>1, SameWorld, SameBuild DEF TInv, world, Hashes
<1>2. CASE EndRead("err") /\ UNCHANGED fault
  BY <1>2, EndReadType DEF TInv, ReadType
<1>3. CASE /\ pos + 2 <= Len(data) /\ pos + 2 + data[pos + 2] <= Len(data)
           /\ data[pos + 2] = HashLen /\ Root(data[pos + 3])
  <2>1. pos + 3 \in 1..Len(data)
    BY <1>1, <1>3, RoundParts, HashtreeAssumption
  <2>2. data[pos + 3] \in Nat
    BY <2>1, ElementOfSeq DEF TInv, ReadType
  <2> QED
    BY <1>3, <2>2, RootType
<1>4. CASE /\ pos + 2 <= Len(data) /\ pos + 2 + data[pos + 2] <= Len(data)
           /\ pos' = pos + 2 + data[pos + 2]
           /\ UNCHANGED <<rpc, data, got, todo, server, out, result, fault>>
  <2>1. pos' \in 0..Len(data')
    BY <1>1, <1>4, RoundParts
  <2> QED
    BY <1>1, <1>4, <2>1 DEF TInv, ReadType
<1> QED
  BY <1>2, <1>3, <1>4 DEF Parse

(* The links still to be followed.                                         *)
LEMMA TodoParts ==
  ASSUME TInv, todo # <<>>
  PROVE  /\ Head(todo) \in Links /\ Tail(todo) \in Seq(Links)
         /\ Head(todo).t = 0 => Head(todo) \in Entries
<1>1. Head(todo) \in Links /\ Tail(todo) \in Seq(Links)
  BY HeadTailProperties DEF TInv, ReadType
<1> QED
  BY <1>1 DEF Links, NodeLinks

LEMMA KeepType == ASSUME TInv, Keep PROVE TInv'
<1>1. /\ todo # <<>> /\ Head(todo).t = 0
      /\ out' = Append(out, Head(todo)) /\ todo' = Tail(todo)
      /\ UNCHANGED <<world, buildVars, rpc, data, pos, got, server, result, fault>>
  BY DEF Keep
<1>2. todo' \in Seq(Links) /\ out' \in Seq(Entries)
  BY <1>1, TodoParts, AppendProperties DEF TInv, ReadType
<1>3. ReadType'
  BY <1>1, <1>2 DEF TInv, ReadType
<1> QED
  BY <1>1, <1>3, SameWorld, SameBuild DEF TInv, world, Hashes

LEMMA FetchType == ASSUME TInv, Fetch PROVE TInv'
<1>1. /\ todo # <<>> /\ server <= NServers /\ UNCHANGED <<world, buildVars>>
      /\ Head(todo).t = 2
  BY DEF Fetch
<1> SUFFICES ReadType'
  BY <1>1, SameWorld, SameBuild DEF TInv, world, Hashes
<1>2. server \in Servers
  BY <1>1, HashtreeAssumption DEF TInv, ReadType, Servers
<1>3. CASE /\ Head(todo).h \in store[server]
           /\ todo' = sha[Head(todo).h] \o Tail(todo) /\ server' = 1
           /\ UNCHANGED <<rpc, data, pos, got, out, result, fault>>
  <2>1. Head(todo).h \in 1..Len(sha)
    BY <1>2, <1>3 DEF TInv, WorldType, Hashes
  <2>2. sha[Head(todo).h] \in Seq(Links)
    BY <2>1, ElementOfSeq DEF TInv, WorldType
  <2>3. todo' \in Seq(Links)
    BY <1>1, <1>3, <2>2, TodoParts, ConcatProperties
  <2>4. server' \in 1..(NServers + 1)
    BY <1>3, HashtreeAssumption
  <2> QED
    BY <1>3, <2>3, <2>4 DEF TInv, ReadType
<1>4. CASE /\ server' = server + 1
           /\ fault' = (fault \/ Head(todo).h \in store[server])
           /\ UNCHANGED <<rpc, data, pos, got, todo, out, result>>
  <2>1. server' \in 1..(NServers + 1)
    BY <1>2, <1>4, HashtreeAssumption DEF Servers
  <2> QED
    BY <1>4, <2>1 DEF TInv, ReadType
<1>5. CASE EndRead("err") /\ fault' = TRUE
  BY <1>5, EndReadType
<1> QED
  BY <1>3, <1>4, <1>5 DEF Fetch

LEMMA ReturnType == ASSUME TInv, Return PROVE TInv'
<1>1. UNCHANGED <<world, buildVars, fault>> /\ (EndRead("err") \/ EndRead("ok"))
  BY DEF Return
<1>2. ReadType'
  BY <1>1, EndReadType DEF TInv, ReadType
<1> QED
  BY <1>1, <1>2, SameWorld, SameBuild DEF TInv, world, Hashes

LEMMA TypeStep == ASSUME TInv, [Next]_vars PROVE TInv'
<1>1. ASSUME builds < Len(Inputs), NEW I \in Inputs[builds + 1], Begin(I) PROVE TInv'
  BY <1>1, BeginType
<1>2. ASSUME NEW r \in roots, NEW H \in Headers, Open(r.root, H) PROVE TInv'
  BY <1>2, OpenType
<1>3. CASE Build
  BY <1>3, ChunkType, PutType, PublishType DEF Build
<1>4. CASE Crash
  BY <1>4, EndBuildStep, SameWorld DEF Crash, TInv
<1>5. CASE Read
  BY <1>5, ParseType, KeepType, FetchType, ReturnType DEF Read
<1>6. CASE UNCHANGED vars
  BY <1>6, SameWorld, SameBuild, SameRead DEF TInv, vars, world, Hashes
<1> QED
  BY <1>1, <1>2, <1>3, <1>4, <1>5, <1>6 DEF Next

LEMMA TInvAlways == Spec => []TInv
<1>1. TInv /\ [Next]_vars => TInv'
  BY TypeStep
<1> QED
  BY InitType, <1>1, PTL DEF Spec

(* The parser never leaves the payload, whatever comes before the hash and *)
(* however long the values say they are; the reader follows links only and *)
(* keeps entries only; what is sent are nodes that were built.             *)
THEOREM TypeCorrect == Spec => []TypeOK
<1>1. TInv => TypeOK
  BY DEF TInv, WorldType, BuildType, ReadType, TypeOK
<1> QED
  BY TInvAlways, <1>1, PTL
-----------------------------------------------------------------------------
(* Children first: a link to a node, in the levels or in a node of the     *)
(* tree, is to a node that comes before it in all, and what is sent is     *)
(* stored.                                                                 *)

InFirst(x, s, n) == x.t = 2 => \E m \in 1..n : s[m] = x.h

Order ==
  /\ \A i \in DOMAIN level : InFirst(level[i], all, Len(all))
  /\ \A i \in DOMAIN next : InFirst(next[i], all, Len(all))
  /\ \A j \in 1..Len(all) : \A i \in DOMAIN sha[all[j]] :
       InFirst(sha[all[j]][i], all, j - 1)
  /\ \A j \in 1..sent : Stored(all[j])

OInv == TInv /\ Order /\ ChildrenFirst

LEMMA InitOrder == Init => OInv
<1> SUFFICES ASSUME Init PROVE OInv
  OBVIOUS
<1>1. Hashes = {} /\ DOMAIN level = {} /\ DOMAIN next = {} /\ 1..Len(all) = {}
  <2>1. Len(<<>>) = 0
    BY EmptySeq
  <2> QED
    BY <2>1 DEF Init, Hashes
<1>2. 1..sent = {}
  BY DEF Init
<1> QED
  BY <1>1, <1>2, InitType DEF OInv, Order, ChildrenFirst

LEMMA EndBuildOrder == ASSUME EndBuild PROVE Order'
<1>1. level' = <<>> /\ next' = <<>> /\ all' = <<>> /\ sent' = 0
  BY DEF EndBuild
<1>2. Len(<<>>) = 0 /\ DOMAIN <<>> = {}
  BY EmptySeq
<1>3. DOMAIN level' = {} /\ DOMAIN next' = {} /\ 1..Len(all') = {} /\ 1..sent' = {}
  BY <1>1, <1>2
<1> QED
  BY <1>3 DEF Order

LEMMA SameOrder ==
  ASSUME Order, UNCHANGED <<sha, store, level, next, all, sent>> PROVE Order'
BY DEF Order, InFirst, Stored

LEMMA SameChildren ==
  ASSUME ChildrenFirst, UNCHANGED <<sha, store>> PROVE ChildrenFirst'
BY DEF ChildrenFirst, Stored, Hashes

LEMMA BeginOrder ==
  ASSUME OInv, builds < Len(Inputs), NEW I \in Inputs[builds + 1], Begin(I)
  PROVE  OInv'
<1>1. level' \in Sorted(I) /\ UNCHANGED <<sha, store, next, all, sent>>
  BY DEF Begin
<1>2. I \in Seq(Entries)
  <2>1. builds + 1 \in 1..Len(Inputs)
    BY HashtreeAssumption, LenProperties DEF OInv, TInv, WorldType
  <2> QED
    BY <2>1, HashtreeAssumption, ElementOfSeq
<1>3. level' \in Seq(Entries)
  BY <1>1, <1>2, SortedType
<1>4. \A i \in DOMAIN level' : level'[i] \in Entries
  BY <1>3, LenProperties, ElementOfSeq
<1>5. \A i \in DOMAIN level' : level'[i].t = 0
  BY <1>4 DEF Entries
<1>6. Order'
  BY <1>1, <1>5 DEF OInv, Order, InFirst, Stored
<1> QED
  BY <1>1, <1>6, BeginType, SameChildren DEF OInv

LEMMA ChunkOrder == ASSUME OInv, Chunk PROVE OInv'
<1> DEFINE k == Least(MaxLinks, Len(level))
           L == SubSeq(level, 1, k)
           rest == SubSeq(level, k + 1, Len(level))
<1>1. PICK h \in 1..(Len(sha) + 1) :
        LET up == Append(next, [h |-> h, n |-> 0, t |-> 2]) IN
        /\ Hash(L, h)
        /\ all' = Append(all, h)
        /\ \/ rest # <<>> /\ level' = rest /\ next' = up /\ UNCHANGED bpc
           \/ /\ rest = <<>> /\ level' = up /\ next' = <<>>
              /\ bpc' = IF Len(up) > 1 THEN "build" ELSE "upload"
  BY DEF Chunk
<1> DEFINE link == [h |-> h, n |-> 0, t |-> 2]
           up == Append(next, link)
<1>2. UNCHANGED <<store, sent>>
  BY DEF Chunk
<1>3. TInv /\ TInv'
  BY ChunkType DEF OInv
<1>4. /\ L \in Seq(Links)
      /\ \A i \in DOMAIN L : i \in 1..Len(level) /\ L[i] = level[i]
      /\ \A i \in DOMAIN rest : \E j \in 1..Len(level) : rest[i] = level[j]
  BY <1>3, ChunkParts
<1>5. DOMAIN level = 1..Len(level)
  BY <1>3, LenProperties DEF TInv, BuildType
<1> HIDE DEF L, rest
<1>6. /\ \A x \in Hashes : sha'[x] = sha[x]
      /\ Hashes \subseteq Hashes' /\ sha'[h] = L
      /\ h \in Hashes => sha[h] = L
  <2>1. /\ sha'[h] = L /\ Hashes \subseteq Hashes'
        /\ \A x \in Hashes : sha'[x] = sha[x]
    BY <1>1, <1>3, <1>4, HashStep DEF TInv, WorldType
  <2> QED
    BY <2>1
<1>7. /\ Len(all) \in Nat /\ Len(all') = Len(all) + 1 /\ all'[Len(all) + 1] = h
      /\ \A j \in 1..Len(all) : all'[j] = all[j] /\ all[j] \in Hashes
  <2>1. Len(all) \in Nat /\ \A j \in 1..Len(all) : all[j] \in Hashes
    BY <1>3, LenProperties, ElementOfSeq DEF TInv, BuildType
  <2> QED
    BY <1>1, <1>3, <2>1, AppendProperties DEF TInv, BuildType
<1>8. \A x : InFirst(x, all, Len(all)) =>
         InFirst(x, all', Len(all)) /\ InFirst(x, all', Len(all'))
  BY <1>7 DEF InFirst
<1>9. \A j \in 1..Len(level) : InFirst(level[j], all, Len(all))
  BY <1>5 DEF OInv, Order
<1>10. InFirst(link, all', Len(all'))
  BY <1>7 DEF InFirst
<1>11. \A i \in DOMAIN up : up[i] = link \/ \E j \in DOMAIN next : up[i] = next[j]
  <2>1. /\ Len(next) \in Nat /\ DOMAIN next = 1..Len(next) /\ next \in Seq(NodeLinks)
    BY <1>3, LenProperties DEF TInv, BuildType
  <2>2. link \in NodeLinks
    BY LenProperties, <1>3 DEF NodeLinks, TInv, WorldType
  <2>3. /\ up \in Seq(NodeLinks) /\ Len(up) = Len(next) + 1 /\ up[Len(next) + 1] = link
        /\ \A i \in 1..Len(next) : up[i] = next[i]
    BY <2>1, <2>2, AppendProperties
  <2>4. DOMAIN up = 1..(Len(next) + 1)
    BY <2>3, LenProperties
  <2>5. \A i \in 1..(Len(next) + 1) : i \in 1..Len(next) \/ i = Len(next) + 1
    BY <2>1
  <2> QED
    BY <2>1, <2>3, <2>4, <2>5
<1> HIDE DEF link, up
<1>12. \A i \in DOMAIN up : InFirst(up[i], all', Len(all'))
  BY <1>8, <1>10, <1>11 DEF OInv, Order
<1>13. \A i \in DOMAIN rest : InFirst(rest[i], all', Len(all'))
  BY <1>4, <1>8, <1>9
<1>14. /\ \A i \in DOMAIN level' : InFirst(level'[i], all', Len(all'))
       /\ \A i \in DOMAIN next' : InFirst(next'[i], all', Len(all'))
  <2>1. next' = up \/ (next' = <<>> /\ DOMAIN next' = {})
    BY <1>1 DEF link, up
  <2>2. level' = rest \/ level' = up
    BY <1>1 DEF link, up
  <2> QED
    BY <1>12, <1>13, <2>1, <2>2
<1>15. \A j \in 1..Len(all') : \A i \in DOMAIN sha'[all'[j]] :
         InFirst(sha'[all'[j]][i], all', j - 1)
  <2> SUFFICES ASSUME NEW j \in 1..Len(all'), NEW i \in DOMAIN sha'[all'[j]]
               PROVE  InFirst(sha'[all'[j]][i], all', j - 1)
    OBVIOUS
  <2>1. CASE j \in 1..Len(all)
    <3>1. all'[j] = all[j] /\ sha'[all[j]] = sha[all[j]]
      BY <1>6, <1>7, <2>1
    <3>2. InFirst(sha[all[j]][i], all, j - 1)
      BY <2>1, <3>1 DEF OInv, Order
    <3>3. \A m \in 1..(j - 1) : m \in 1..Len(all)
      BY <1>7, <2>1
    <3> QED
      BY <1>7, <3>1, <3>2, <3>3 DEF InFirst
  <2>2. CASE j = Len(all) + 1
    <3>1. sha'[all'[j]] = L /\ j - 1 = Len(all)
      BY <1>6, <1>7, <2>2
    <3>2. InFirst(L[i], all, Len(all))
      BY <1>4, <1>9, <3>1
    <3> QED
      BY <1>8, <3>1, <3>2
  <2> QED
    BY <1>7, <2>1, <2>2
<1>16. \A j \in 1..sent' : \A x : x = all'[j] => Stored(x)'
  <2>1. \A j \in 1..sent : j \in 1..Len(all)
    BY <1>3, <1>7 DEF TInv, BuildType
  <2> QED
    BY <1>2, <1>7, <2>1 DEF OInv, Order, Stored
<1>17. Order'
  BY <1>14, <1>15, <1>16 DEF Order
<1>18. ChildrenFirst'
  <2>1. \A x : Stored(x)' <=> Stored(x)
    BY <1>2 DEF Stored
  <2>2. \A x : Stored(x) => x \in Hashes
    BY <1>3 DEF Stored, TInv, WorldType
  <2> QED
    BY <1>6, <2>1, <2>2 DEF OInv, ChildrenFirst
<1> QED
  BY <1>3, <1>17, <1>18 DEF OInv

LEMMA PutOrder == ASSUME OInv, Put PROVE OInv'
<1>1. PICK W \in AcceptSets :
        /\ store' = [i \in Servers |->
                       store[i] \cup (IF i \in W THEN {all[sent + 1]} ELSE {})]
        /\ \/ /\ W # {} \/ Stored(all[sent + 1])
              /\ sent' = sent + 1
              /\ UNCHANGED <<bpc, input, level, next, all>>
           \/ EndBuild
  BY DEF Put
<1>2. sent < Len(all) /\ UNCHANGED sha /\ TInv /\ TInv' /\ W \subseteq Servers
  BY PutType, HashtreeAssumption DEF Put, OInv, Servers
<1>3. /\ Len(all) \in Nat /\ sent \in Nat /\ sent + 1 \in 1..Len(all)
      /\ all[sent + 1] \in Hashes
  <2>1. Len(all) \in Nat /\ sent \in Nat /\ sent + 1 \in 1..Len(all)
    BY <1>2, LenProperties DEF TInv, BuildType
  <2> QED
    BY <1>2, <2>1, ElementOfSeq DEF TInv, BuildType
<1>4. \A x : Stored(x) => Stored(x)'
  BY <1>1 DEF Stored
<1>5. \A x : Stored(x)' => Stored(x) \/ x = all[sent + 1]
  BY <1>1 DEF Stored
<1>6. \A i \in DOMAIN sha[all[sent + 1]] :
        sha[all[sent + 1]][i].t = 2 => Stored(sha[all[sent + 1]][i].h)
  <2> SUFFICES ASSUME NEW i \in DOMAIN sha[all[sent + 1]],
                      sha[all[sent + 1]][i].t = 2
               PROVE  Stored(sha[all[sent + 1]][i].h)
    OBVIOUS
  <2>1. InFirst(sha[all[sent + 1]][i], all, (sent + 1) - 1)
    BY <1>3 DEF OInv, Order
  <2>2. (sent + 1) - 1 = sent
    BY <1>3
  <2>3. PICK m \in 1..sent : all[m] = sha[all[sent + 1]][i].h
    BY <2>1, <2>2 DEF InFirst
  <2> QED
    BY <2>3 DEF OInv, Order
<1>7. ChildrenFirst'
  <2>1. Hashes' = Hashes
    BY <1>2 DEF Hashes
  <2> QED
    BY <1>2, <1>4, <1>5, <1>6, <2>1 DEF OInv, ChildrenFirst
<1>8. Order'
  <2>1. CASE EndBuild
    BY <2>1, EndBuildOrder
  <2>2. CASE /\ W # {} \/ Stored(all[sent + 1])
             /\ sent' = sent + 1
             /\ UNCHANGED <<bpc, input, level, next, all>>
    <3>1. \A x : x = all[sent + 1] => Stored(x)'
      BY <1>1, <1>2, <1>4, <2>2 DEF Stored
    <3>2. \A j \in 1..sent' : j \in 1..sent \/ j = sent + 1
      BY <1>3, <2>2
    <3>3. \A j \in 1..sent' : \A x : x = all'[j] => Stored(x)'
      BY <1>4, <2>2, <3>1, <3>2 DEF OInv, Order
    <3> QED
      BY <1>2, <2>2, <3>3 DEF OInv, Order, InFirst
  <2> QED
    BY <1>1, <2>1, <2>2
<1> QED
  BY <1>2, <1>7, <1>8 DEF OInv

LEMMA OrderStep == ASSUME OInv, [Next]_vars PROVE OInv'
<1>1. TInv'
  BY TypeStep DEF OInv
<1>2. ASSUME builds < Len(Inputs), NEW I \in Inputs[builds + 1], Begin(I) PROVE OInv'
  BY <1>2, BeginOrder
<1>3. ASSUME NEW r \in roots, NEW H \in Headers, Open(r.root, H) PROVE OInv'
  <2>1. UNCHANGED <<sha, store, level, next, all, sent>>
    BY <1>3 DEF Open, buildVars
  <2> QED
    BY <1>1, <2>1, SameOrder, SameChildren DEF OInv
<1>4. CASE Chunk
  BY <1>4, ChunkOrder
<1>5. CASE Put
  BY <1>5, PutOrder
<1>6. CASE Publish
  BY <1>1, <1>6, EndBuildOrder, SameChildren DEF Publish, OInv
<1>7. CASE Crash
  BY <1>1, <1>7, EndBuildOrder, SameChildren DEF Crash, OInv, world
<1>8. CASE Read \/ UNCHANGED vars
  <2>1. UNCHANGED <<world, buildVars>>
    BY <1>8 DEF Read, Parse, Keep, Fetch, Return, vars
  <2>2. UNCHANGED <<sha, store, level, next, all, sent>>
    BY <2>1 DEF world, buildVars
  <2> QED
    BY <1>1, <2>2, SameOrder, SameChildren DEF OInv
<1> QED
  BY <1>2, <1>3, <1>4, <1>5, <1>6, <1>7, <1>8 DEF Next, Build

(* A server never has a node of a tree without the nodes below it being on *)
(* some server, wherever a publisher stopped or failed: the nodes go up in *)
(* the order in which build_directory_tree makes them.                     *)
THEOREM ChildrenAreFirst == Spec => []ChildrenFirst
<1>1. OInv /\ [Next]_vars => OInv'
  BY OrderStep
<1>2. OInv => ChildrenFirst
  BY DEF OInv
<1> QED
  BY InitOrder, <1>1, <1>2, PTL DEF Spec
-----------------------------------------------------------------------------
(* The parser: the jumps lead to where it is and past no hash, and whoever *)
(* jumps to a hash comes by here.                                          *)

Jumps(d, o, S) ==
  /\ {0, o} \subseteq S
  /\ \A x \in S \ {o} :
       ~IsHash(d, x) /\ x + 2 <= o /\ x + 2 + d[x + 2] \in S

OnTheWay ==
  rpc = "parse" =>
    /\ Reached(data, pos)
    /\ \A o \in 0..Len(data) : \A S \in SUBSET (0..o) :
         IsHash(data, o) /\ Jumps(data, o, S) => pos \in S

PInv == TInv /\ OnTheWay

LEMMA ReachedJumps ==
  ASSUME NEW d, NEW o PROVE Reached(d, o) <=> \E S \in SUBSET (0..o) : Jumps(d, o, S)
BY DEF Reached, Jumps

LEMMA OpenParser ==
  ASSUME TInv, NEW r \in roots, NEW H \in Headers, Open(r.root, H) PROVE OnTheWay'
<1>1. pos' = 0
  BY DEF Open, TInv, ReadType
<1>2. Jumps(data', 0, {0})
  BY DEF Jumps
<1>3. Reached(data', 0)
  BY <1>2, ReachedJumps
<1> QED
  BY <1>1, <1>3 DEF OnTheWay, Jumps

LEMMA PassOver ==
  ASSUME PInv, rpc = "parse", pos + 2 <= Len(data),
         ~(data[pos + 1] = 0 /\ data[pos + 2] = HashLen),
         pos' = pos + 2 + data[pos + 2], UNCHANGED <<rpc, data>>
  PROVE  OnTheWay'
<1>1. /\ pos \in Nat /\ Len(data) \in Nat /\ data[pos + 2] \in Nat
      /\ pos' \in Nat /\ pos + 2 <= pos'
  BY RoundParts DEF PInv
<1>2. ~IsHash(data, pos)
  BY DEF IsHash
<1>3. PICK S \in SUBSET (0..pos) : Jumps(data, pos, S)
  BY ReachedJumps DEF PInv, OnTheWay
<1>4. Jumps(data, pos', S \cup {pos'})
  <2>1. {0, pos'} \subseteq S \cup {pos'}
    BY <1>3 DEF Jumps
  <2>2. ASSUME NEW x \in (S \cup {pos'}) \ {pos'}
        PROVE  ~IsHash(data, x) /\ x + 2 <= pos' /\ x + 2 + data[x + 2] \in S \cup {pos'}
    <3>1. CASE x = pos
      BY <1>1, <1>2, <3>1
    <3>2. CASE x # pos
      <4>1. ~IsHash(data, x) /\ x + 2 <= pos /\ x + 2 + data[x + 2] \in S
        BY <1>3, <2>2, <3>2 DEF Jumps
      <4>2. x \in Nat
        BY <1>3, <2>2
      <4> QED
        BY <1>1, <4>1, <4>2
    <3> QED
      BY <3>1, <3>2
  <2> QED
    BY <2>1, <2>2 DEF Jumps
<1>5. S \cup {pos'} \in SUBSET (0..pos')
  <2>1. \A x \in 0..pos : x \in 0..pos'
    BY <1>1
  <2>2. pos' \in 0..pos' /\ S \subseteq 0..pos
    BY <1>1, <1>3
  <2> QED
    BY <2>1, <2>2
<1>6. Reached(data, pos')
  BY <1>4, <1>5, ReachedJumps
<1>7. ASSUME NEW o \in 0..Len(data), NEW T \in SUBSET (0..o),
             IsHash(data, o), Jumps(data, o, T)
      PROVE  pos' \in T
  <2>1. pos \in T /\ pos # o
    BY <1>2, <1>7 DEF PInv, OnTheWay
  <2> QED
    BY <1>7, <2>1 DEF Jumps
<1> QED
  BY <1>6, <1>7 DEF OnTheWay

LEMMA ParserStep == ASSUME PInv, [Next]_vars PROVE PInv'
<1>1. TInv'
  BY TypeStep DEF PInv
<1> SUFFICES OnTheWay'
  BY <1>1 DEF PInv
<1>2. ASSUME NEW r \in roots, NEW H \in Headers, Open(r.root, H) PROVE OnTheWay'
  BY <1>2, OpenParser DEF PInv
<1>3. CASE Parse
  <2>1. CASE rpc' # "parse"
    BY <2>1 DEF OnTheWay
  <2>2. CASE rpc' = "parse"
    <3>1. /\ rpc = "parse" /\ pos + 2 <= Len(data)
          /\ ~(data[pos + 1] = 0 /\ data[pos + 2] = HashLen)
          /\ pos' = pos + 2 + data[pos + 2] /\ UNCHANGED <<rpc, data>>
      BY <1>3, <2>2 DEF Parse, EndRead, Root
    <3> QED
      BY <3>1, PassOver
  <2> QED
    BY <2>1, <2>2
<1>4. CASE Keep \/ Fetch \/ Return
  <2>1. rpc' # "parse"
    BY <1>4 DEF Keep, Fetch, Return, EndRead
  <2> QED
    BY <2>1 DEF OnTheWay
<1>5. CASE UNCHANGED readVars
  BY <1>5 DEF PInv, OnTheWay, readVars
<1>6. ASSUME NEW I, Begin(I) PROVE UNCHANGED readVars
  BY <1>6 DEF Begin
<1>7. Build \/ Crash \/ UNCHANGED vars => UNCHANGED readVars
  BY DEF Build, Chunk, Put, Publish, Crash, vars
<1> QED
  BY <1>2, <1>3, <1>4, <1>5, <1>6, <1>7 DEF Next, Read

LEMMA ParseEnds ==
  ASSUME PInv, Parse, rpc' # "parse"
  PROVE  HashIn(data) = IF rpc' = "walk" THEN {got'} ELSE {}
<1> DEFINE Offsets == {x \in 0..Len(data) : IsHash(data, x) /\ Reached(data, x)}
<1>1. rpc = "parse" /\ pos \in 0..Len(data) /\ Len(data) \in Nat
  BY LenProperties DEF Parse, PInv, TInv, ReadType
<1>2. ASSUME NEW o \in Offsets
      PROVE  \E S \in SUBSET (0..o) : Jumps(data, o, S) /\ pos \in S
  <2>1. PICK S \in SUBSET (0..o) : Jumps(data, o, S)
    BY <1>2, ReachedJumps
  <2>2. pos \in S
    BY <1>1, <1>2, <2>1 DEF PInv, OnTheWay
  <2> QED
    BY <2>1, <2>2
<1>3. CASE /\ ~(pos + 2 <= Len(data) /\ pos + 2 + data[pos + 2] <= Len(data))
           /\ EndRead("err")
  <2>1. ASSUME NEW o \in Offsets PROVE FALSE
    <3>1. PICK S \in SUBSET (0..o) : Jumps(data, o, S) /\ pos \in S
      BY <1>2, <2>1
    <3>2. CASE pos = o
      <4>1. /\ pos + 2 + HashLen <= Len(data) /\ data[pos + 2] = HashLen
        BY <2>1, <3>2 DEF IsHash
      <4> QED
        BY <1>1, <1>3, <4>1, HashtreeAssumption
    <3>3. CASE pos # o
      <4>1. pos + 2 <= o /\ pos + 2 + data[pos + 2] \in 0..o
        BY <3>1, <3>3 DEF Jumps
      <4>2. o \in 0..Len(data)
        BY <2>1
      <4> QED
        BY <1>1, <1>3, <4>1, <4>2
    <3> QED
      BY <3>2, <3>3
  <2>2. HashIn(data) = {}
    BY <2>1 DEF HashIn
  <2> QED
    BY <1>3, <2>2 DEF EndRead
<1>4. CASE /\ pos + 2 <= Len(data) /\ pos + 2 + data[pos + 2] <= Len(data)
           /\ data[pos + 1] = 0 /\ data[pos + 2] = HashLen /\ Root(data[pos + 3])
  <2>1. IsHash(data, pos)
    BY <1>4 DEF IsHash
  <2>2. pos \in Offsets
    BY <1>1, <2>1 DEF PInv, OnTheWay
  <2>3. ASSUME NEW o \in Offsets PROVE o = pos
    <3>1. PICK S \in SUBSET (0..o) : Jumps(data, o, S) /\ pos \in S
      BY <1>2, <2>3
    <3> QED
      BY <2>1, <3>1 DEF Jumps
  <2>4. HashIn(data) = {data[pos + 3]}
    BY <2>2, <2>3 DEF HashIn
  <2> QED
    BY <1>4, <2>4 DEF Root
<1> QED
  BY <1>1, <1>3, <1>4 DEF Parse

(* Whatever comes before the hash of an nhash, the parser finds the first  *)
(* whole entry of type 0 and the length of a hash that the entries before  *)
(* it lead to, and refuses a payload that has none.                        *)
THEOREM ParserIsRight == Spec => ParsesHash
<1>1. Init => PInv
  BY InitType DEF PInv, OnTheWay, Init
<1>2. PInv /\ [Next]_vars => PInv'
  BY ParserStep
<1>3. PInv /\ [Next]_vars =>
        [rpc = "parse" /\ rpc' # "parse" =>
           HashIn(data) = IF rpc' = "walk" THEN {got'} ELSE {}]_vars
  <2> SUFFICES ASSUME PInv, Next, rpc = "parse", rpc' # "parse"
               PROVE  HashIn(data) = IF rpc' = "walk" THEN {got'} ELSE {}
    BY DEF vars, readVars
  <2>1. Parse
    <3>1. ASSUME NEW I, Begin(I) PROVE UNCHANGED readVars
      BY <3>1 DEF Begin
    <3>2. Build \/ Crash => UNCHANGED readVars
      BY DEF Build, Chunk, Put, Publish, Crash
    <3>3. UNCHANGED readVars => rpc' = rpc
      BY DEF readVars
    <3>4. ~Keep /\ ~Fetch /\ ~Return
      BY DEF Keep, Fetch, Return
    <3>5. ASSUME NEW r, NEW H, Open(r.root, H) PROVE FALSE
      BY <3>5 DEF Open
    <3> QED
      BY <3>1, <3>2, <3>3, <3>4, <3>5 DEF Next, Read
  <2> QED
    BY <2>1, ParseEnds
<1> QED
  BY <1>1, <1>2, <1>3, PTL DEF Spec, ParsesHash
=============================================================================
