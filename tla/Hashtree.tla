------------------------------- MODULE Hashtree -------------------------------
(***************************************************************************)
(* Hashtrees on Blossom: a publisher that builds them (manifest.rs) and    *)
(* uploads them node by node (lib.rs steps 7 and 8), and a reader that     *)
(* goes from a published nhash back to the entries (tree_reader.rs,        *)
(* blossom_fetch.rs).                                                      *)
(*                                                                         *)
(* SHA-256 has no collisions: the hash of a node is its place in sha, the  *)
(* nodes built so far.  A link [h, n, t] is an entry when it is to a blob  *)
(* (t = 0); when it is to a node (t = 2) it has no name (n = 0).  Sizes,   *)
(* which the hash determines, are left out.                                *)
(***************************************************************************)
EXTENDS Integers, Sequences

CONSTANTS
  Blobs,      \* hashes of the blobs that entries name
  Names,      \* 1..Names are the entry names, in the order of their bytes
  Inputs,     \* Inputs[k]: the lists of entries that tree k may be built from
  MaxLinks,   \* links in one node (MAX_LINKS, 174)
  NServers,   \* the Blossom servers are 1..NServers, tried in this order
  AcceptSets, \* the sets of servers that may take a node
  HashLen,    \* bytes in a hash (32)
  Headers,    \* what other tools put before the hash in an nhash
  MaxReads    \* bound on the reads

Entries == [h : Blobs, n : 1..Names, t : {0}]

ASSUME HashtreeAssumption ==
  /\ Names \in Nat /\ Blobs \cap Nat = {}
  /\ Inputs \in Seq(SUBSET Seq(Entries))
  /\ MaxLinks \in Nat /\ MaxLinks >= 2
  /\ NServers \in Nat /\ AcceptSets \subseteq SUBSET (1..NServers)
  /\ HashLen \in Nat \ {0}
  /\ Headers \subseteq Seq(Nat)
  /\ MaxReads \in Nat

VARIABLES
  sha,      \* the nodes built so far, a node being its links
  store,    \* store[i]: the hashes of the nodes that server i has
  roots,    \* published: root hash, and the list the tree was built from
  builds, reads,
  \* the publisher
  bpc,      \* idle, build, upload
  input,    \* what the tree is built from
  level,    \* what is left of the current level
  next,     \* the next level
  all,      \* all_nodes, by their hashes
  sent,     \* how many of them are uploaded
  \* the reader
  rpc,      \* idle, parse, walk
  data,     \* the payload of the nhash
  pos,      \* where the parser is
  got,      \* the root hash, 0 before it is found
  todo,     \* links still to be followed
  server,   \* which server is tried next
  out,      \* entries found
  result,   \* how the read ended
  fault     \* a server did not give what it has

world == <<sha, store, roots, builds, reads>>
buildVars == <<bpc, input, level, next, all, sent>>
readVars == <<rpc, data, pos, got, todo, server, out, result, fault>>
vars == <<world, buildVars, readVars>>

Servers == 1..NServers
Hashes == 1..Len(sha)
NodeLinks == [h : Nat, n : {0}, t : {2}]
Links == Entries \cup NodeLinks

TypeOK ==
  /\ sha \in Seq(Seq(Links))
  /\ store \in [Servers -> SUBSET Hashes]
  /\ roots \in SUBSET [root : Hashes, of : Seq(Entries)]
  /\ builds \in 0..Len(Inputs) /\ reads \in 0..MaxReads
  /\ bpc \in {"idle", "build", "upload"}
  /\ input \in Seq(Entries)
  /\ level \in Seq(Links) /\ next \in Seq(NodeLinks)
  /\ all \in Seq(Hashes) /\ sent \in 0..Len(all)
  /\ rpc \in {"idle", "parse", "walk"}
  /\ data \in Seq(Nat) /\ pos \in 0..Len(data) /\ got \in Nat
  /\ todo \in Seq(Links) /\ server \in 1..(NServers + 1)
  /\ out \in Seq(Entries)
  /\ result \in {"none", "ok", "err"} /\ fault \in BOOLEAN

Init ==
  /\ sha = <<>> /\ store = [i \in Servers |-> {}] /\ roots = {}
  /\ builds = 0 /\ reads = 0
  /\ bpc = "idle" /\ input = <<>> /\ level = <<>> /\ next = <<>>
  /\ all = <<>> /\ sent = 0
  /\ rpc = "idle" /\ data = <<>> /\ pos = 0 /\ got = 0 /\ todo = <<>>
  /\ server = 1 /\ out = <<>> /\ result = "none" /\ fault = FALSE

Stored(h) == \E i \in Servers : h \in store[i]

-----------------------------------------------------------------------------
(* The builder (build_directory_tree).                                     *)

(* The list that is I in the order of its names, those of one name in the  *)
(* order they came in: a set of one.                                       *)
Sorted(I) ==
  LET orders == {p \in [DOMAIN I -> DOMAIN I] :
                   \A j, k \in DOMAIN I : j < k =>
                     \/ I[p[j]].n < I[p[k]].n
                     \/ I[p[j]].n = I[p[k]].n /\ p[j] < p[k]}
  IN {[k \in DOMAIN I |-> I[p[k]]] : p \in orders}

Begin(I) ==
  /\ bpc = "idle"
  /\ builds' = builds + 1
  /\ bpc' = "build" /\ input' = I /\ level' \in Sorted(I)
  /\ UNCHANGED <<sha, store, roots, reads, next, all, sent, readVars>>

Least(m, n) == IF m < n THEN m ELSE n

(* The hash of node L, which is added to the nodes built if it is new.     *)
Hash(L, h) ==
  \/ h \in Hashes /\ sha[h] = L /\ UNCHANGED sha
  \/ /\ \A k \in Hashes : sha[k] # L
     /\ h = Len(sha) + 1 /\ sha' = Append(sha, L)

(* Mutant: parents before children.                                        *)
ChunkFront ==
  LET k == Least(MaxLinks, Len(level))
      L == SubSeq(level, 1, k)
      rest == SubSeq(level, k + 1, Len(level))
  IN /\ bpc = "build"
     /\ \E h \in 1..(Len(sha) + 1) :
          LET up == Append(next, [h |-> h, n |-> 0, t |-> 2])
          IN /\ Hash(L, h)
             /\ all' = <<h>> \o all
             /\ \/ rest # <<>> /\ level' = rest /\ next' = up /\ UNCHANGED bpc
                \/ /\ rest = <<>> /\ level' = up /\ next' = <<>>
                   /\ bpc' = IF Len(up) > 1 THEN "build" ELSE "upload"
     /\ UNCHANGED <<store, roots, builds, reads, input, sent, readVars>>

(* The next node of the current level: at most MaxLinks links, one node    *)
(* when there is nothing to link to.  After the last one the nodes of the  *)
(* level are what the next one links to, until there is a single one.      *)
Chunk ==
  LET k == Least(MaxLinks, Len(level))
      L == SubSeq(level, 1, k)
      rest == SubSeq(level, k + 1, Len(level))
  IN /\ bpc = "build"
     /\ \E h \in 1..(Len(sha) + 1) :
          LET up == Append(next, [h |-> h, n |-> 0, t |-> 2])
          IN /\ Hash(L, h)
             /\ all' = Append(all, h)
             /\ \/ rest # <<>> /\ level' = rest /\ next' = up /\ UNCHANGED bpc
                \/ /\ rest = <<>> /\ level' = up /\ next' = <<>>
                   /\ bpc' = IF Len(up) > 1 THEN "build" ELSE "upload"
     /\ UNCHANGED <<store, roots, builds, reads, input, sent, readVars>>

EndBuild ==
  /\ bpc' = "idle" /\ input' = <<>> /\ level' = <<>> /\ next' = <<>>
  /\ all' = <<>> /\ sent' = 0

(* Mutants: a failed upload is not noticed, or starts the tree anew.       *)
PutUnchecked ==
  /\ bpc = "upload" /\ sent < Len(all)
  /\ \E W \in AcceptSets :
       store' = [i \in Servers |->
                   store[i] \cup (IF i \in W THEN {all[sent + 1]} ELSE {})]
  /\ sent' = sent + 1
  /\ UNCHANGED <<sha, roots, builds, reads, bpc, input, level, next, all, readVars>>

PutRestart ==
  /\ bpc = "upload" /\ sent < Len(all)
  /\ \E W \in AcceptSets :
       /\ store' = [i \in Servers |->
                      store[i] \cup (IF i \in W THEN {all[sent + 1]} ELSE {})]
       /\ sent' = IF W = {} THEN 0 ELSE sent + 1
  /\ UNCHANGED <<sha, roots, builds, reads, bpc, input, level, next, all, readVars>>

(* upload_bytes of the next node: the servers in W take it.  One that has  *)
(* it is enough; but every answer may be lost.                             *)
Put ==
  /\ bpc = "upload" /\ sent < Len(all)
  /\ \E W \in AcceptSets :
       /\ store' = [i \in Servers |->
                      store[i] \cup (IF i \in W THEN {all[sent + 1]} ELSE {})]
       /\ \/ /\ W # {} \/ Stored(all[sent + 1])
             /\ sent' = sent + 1
             /\ UNCHANGED <<bpc, input, level, next, all>>
          \/ EndBuild
  /\ UNCHANGED <<sha, roots, builds, reads, readVars>>

(* The root, which is the last node, is published.                         *)
Publish ==
  /\ bpc = "upload" /\ sent = Len(all)
  /\ roots' = roots \cup {[root |-> all[Len(all)], of |-> input]}
  /\ EndBuild
  /\ UNCHANGED <<sha, store, builds, reads, readVars>>

(* The publisher dies, or fails elsewhere.                                 *)
Crash ==
  /\ bpc # "idle" /\ EndBuild
  /\ UNCHANGED <<world, readVars>>

-----------------------------------------------------------------------------
(* The reader.                                                             *)

(* nhash_encode: the bytes of a hash are all written as the hash.          *)
Encode(h) == <<0, HashLen>> \o [i \in 1..HashLen |-> h]

Open(r, H) ==
  /\ rpc = "idle" /\ reads < MaxReads
  /\ reads' = reads + 1
  /\ rpc' = "parse" /\ data' = H \o Encode(r)
  /\ result' = "none" /\ fault' = FALSE
  /\ UNCHANGED <<sha, store, roots, builds, buildVars, pos, got, todo, server, out>>

EndRead(res) ==
  /\ rpc' = "idle" /\ result' = res
  /\ data' = <<>> /\ pos' = 0 /\ got' = 0
  /\ todo' = <<>> /\ server' = 1 /\ out' = <<>>

(* The hash is there: flatten_tree starts at the root.                     *)
Root(h) ==
  /\ got' = h /\ rpc' = "walk" /\ data' = <<>> /\ pos' = 0
  /\ todo' = <<[h |-> h, n |-> 0, t |-> 2]>>
  /\ UNCHANGED <<server, out, result, fault>>

(* Mutants: a value that is cut off is not noticed; the first entry of the *)
(* length of a hash is taken, whatever its type.                           *)
ParseLoose ==
  /\ rpc = "parse"
  /\ IF pos + 2 > Len(data)
     THEN EndRead("err") /\ UNCHANGED fault
     ELSE LET n == data[pos + 2] IN
          IF data[pos + 1] = 0 /\ n = HashLen
          THEN Root(data[pos + 3])
          ELSE /\ pos' = pos + 2 + n
               /\ UNCHANGED <<rpc, data, got, todo, server, out, result, fault>>
  /\ UNCHANGED <<world, buildVars>>

ParseAnyType ==
  /\ rpc = "parse"
  /\ IF pos + 2 > Len(data)
     THEN EndRead("err") /\ UNCHANGED fault
     ELSE LET n == data[pos + 2] IN
          IF pos + 2 + n > Len(data) THEN EndRead("err") /\ UNCHANGED fault
          ELSE IF n = HashLen THEN Root(data[pos + 3])
          ELSE /\ pos' = pos + 2 + n
               /\ UNCHANGED <<rpc, data, got, todo, server, out, result, fault>>
  /\ UNCHANGED <<world, buildVars>>

(* parse_nhash_uri, one round of its loop: the payload ends, or breaks     *)
(* off; the hash is found; or an entry is passed over.                     *)
Parse ==
  LET typ == data[pos + 1]
      len == data[pos + 2]
      whole == pos + 2 <= Len(data) /\ pos + 2 + len <= Len(data)
  IN /\ rpc = "parse"
     /\ \/ ~whole /\ EndRead("err") /\ UNCHANGED fault
        \/ whole /\ typ = 0 /\ len = HashLen /\ Root(data[pos + 3])
        \/ /\ whole /\ ~(typ = 0 /\ len = HashLen)
           /\ pos' = pos + 2 + len
           /\ UNCHANGED <<rpc, data, got, todo, server, out, result, fault>>
     /\ UNCHANGED <<world, buildVars>>

(* flatten_node: an entry is kept.                                         *)
Keep ==
  /\ rpc = "walk" /\ todo # <<>> /\ Head(todo).t = 0
  /\ out' = Append(out, Head(todo)) /\ todo' = Tail(todo)
  /\ UNCHANGED <<world, buildVars, rpc, data, pos, got, server, result, fault>>

(* Mutants: what a server gives is taken for what was asked; a server that *)
(* fails is asked again.                                                   *)
FetchUnverified ==
  /\ rpc = "walk" /\ todo # <<>> /\ Head(todo).t = 2 /\ server <= NServers
  /\ \/ \E h \in store[server] :
          /\ todo' = sha[h] \o Tail(todo) /\ server' = 1
          /\ UNCHANGED <<rpc, data, pos, got, out, result, fault>>
     \/ /\ server' = server + 1
        /\ fault' = (fault \/ Head(todo).h \in store[server])
        /\ UNCHANGED <<rpc, data, pos, got, todo, out, result>>
  /\ UNCHANGED <<world, buildVars>>

FetchAgain ==
  /\ rpc = "walk" /\ todo # <<>> /\ Head(todo).t = 2 /\ server <= NServers
  /\ \/ /\ Head(todo).h \in store[server]
        /\ todo' = sha[Head(todo).h] \o Tail(todo) /\ server' = 1
        /\ UNCHANGED <<rpc, data, pos, got, out, result, fault>>
     \/ UNCHANGED readVars
  /\ UNCHANGED <<world, buildVars>>

(* One round of BlossomFetcher::fetch: the server gives the node, whose    *)
(* links are followed first; or it has something else or nothing for it,   *)
(* or cannot be reached, and the next one is tried; or the body of its     *)
(* answer breaks off, which ends the read.                                 *)
Fetch ==
  /\ rpc = "walk" /\ todo # <<>> /\ Head(todo).t = 2 /\ server <= NServers
  /\ LET has == Head(todo).h \in store[server] IN
     \/ /\ has
        /\ todo' = sha[Head(todo).h] \o Tail(todo) /\ server' = 1
        /\ UNCHANGED <<rpc, data, pos, got, out, result, fault>>
     \/ /\ server' = server + 1
        /\ fault' = (fault \/ has)
        /\ UNCHANGED <<rpc, data, pos, got, todo, out, result>>
     \/ EndRead("err") /\ fault' = TRUE
  /\ UNCHANGED <<world, buildVars>>

(* No server is left, or no link.                                          *)
Return ==
  /\ rpc = "walk"
  /\ \/ server > NServers /\ EndRead("err")
     \/ todo = <<>> /\ EndRead("ok")
  /\ UNCHANGED <<world, buildVars, fault>>

-----------------------------------------------------------------------------
Build == Chunk \/ Put \/ Publish
Read == Parse \/ Keep \/ Fetch \/ Return

Next ==
  \/ builds < Len(Inputs) /\ \E I \in Inputs[builds + 1] : Begin(I)
  \/ \E r \in roots, H \in Headers : Open(r.root, H)
  \/ Build \/ Crash \/ Read

Spec == Init /\ [][Next]_vars
FairSpec == Spec /\ WF_vars(Build) /\ WF_vars(Read)

-----------------------------------------------------------------------------
(* Whatever upload failed, every node that a node on a server links to is  *)
(* on a server too: no reader runs into a hole.                            *)
ChildrenFirst ==
  \A h \in Hashes : Stored(h) =>
    \A i \in DOMAIN sha[h] : sha[h][i].t = 2 => Stored(sha[h][i].h)

IsHash(d, o) ==
  o + 2 + HashLen <= Len(d) /\ d[o + 1] = 0 /\ d[o + 2] = HashLen

(* The jumps from entry to entry lead to offset o, and past no hash.       *)
Reached(d, o) ==
  \E S \in SUBSET (0..o) :
    /\ {0, o} \subseteq S
    /\ \A x \in S \ {o} :
         ~IsHash(d, x) /\ x + 2 <= o /\ x + 2 + d[x + 2] \in S

(* The hash of a payload: a set of at most one.                            *)
HashIn(d) == {d[o + 3] : o \in {x \in 0..Len(d) : IsHash(d, x) /\ Reached(d, x)}}

(* What other tools put before the hash has no hash in it: an nhash has    *)
(* one (for the hashes in N).                                              *)
OneHash(N) == \A H \in Headers, h \in N : HashIn(H \o Encode(h)) \subseteq {h}

(* The parser ends with the first hash, if there is one, and no other.     *)
ParsesHash ==
  [][rpc = "parse" /\ rpc' # "parse" =>
       HashIn(data) = IF rpc' = "walk" THEN {got'} ELSE {}]_vars

(* A read that succeeds gives the entries the tree was built from, all of  *)
(* them in order, however deep the tree is and whichever server lied.      *)
ReadBack ==
  [][rpc = "walk" /\ result' = "ok" =>
       \E r \in roots : r.root = got /\ out \in Sorted(r.of)]_vars

(* A read of a published tree fails only when a server does not give what  *)
(* it has.                                                                 *)
ReadSucceeds ==
  [][rpc = "walk" /\ result' = "err" /\ ~fault' =>
       \A r \in roots : r.root # got]_vars

(* A build and a read come to an end.                                      *)
BuildEnds == bpc # "idle" ~> bpc = "idle"
ReadEnds == rpc # "idle" ~> rpc = "idle"
=============================================================================
