------------------------------ MODULE CacheData ------------------------------
(***************************************************************************)
(* The values a binary cache is made of: blobs, entry maps, hashtrees and  *)
(* root events.  Nothing here has state.                                   *)
(*                                                                         *)
(* A blob is content addressed (its name on a Blossom server is the        *)
(* SHA-256 of its bytes), so it is represented by what determines its      *)
(* bytes:                                                                  *)
(*   [nar |-> x, comp |-> c]              store path x, packed with c      *)
(*   [narinfo |-> x, comp |-> c, key |-> k]  the narinfo of that NAR,      *)
(*                                        signed with k                    *)
(*   [info |-> TRUE]                      nix-cache-info (constant text)   *)
(*   [inner |-> t], [root |-> t]          the nodes of the hashtree of t:  *)
(*                                        the levels below the root (only  *)
(*                                        when t needs them), and the root *)
(***************************************************************************)
EXTENDS Integers, Sequences, FiniteSets

CONSTANTS
  Paths,         \* store paths (a path stands for its hash part as well)
  Refs,          \* Refs[x]: the store paths that x refers to, x excluded
  Servers,       \* Blossom servers
  Keys,          \* Nix signing keys
  NoKey,         \* no --nix-sig-key given
  Compressions,  \* the compressions accepted by --compression
  MaxLinks,      \* links in one hashtree node (174 in the code)
  Configs        \* the command lines a run may be started with

(* The names of entries.  A path stands for the name of its narinfo,       *)
(* <hash>.narinfo.                                                         *)
CacheInfoName == "nix-cache-info"
Names == Paths \cup {CacheInfoName}

(* What main.rs validate_publish and closure::resolve guarantee of the     *)
(* arguments of a run: at least one server, and a nonempty set of paths    *)
(* that is closed under references.                                        *)
ASSUME ConfigAssumption ==
  /\ CacheInfoName \notin Paths
  /\ Configs # {}
  /\ Configs \subseteq [paths   : SUBSET Paths,
                        servers : SUBSET Servers,
                        key     : Keys \cup {NoKey},
                        comp    : Compressions,
                        dry     : BOOLEAN]
  /\ \A c \in Configs :
       /\ c.paths # {} /\ c.servers # {}
       /\ \A x \in c.paths : Refs[x] \subseteq c.paths

-----------------------------------------------------------------------------
(* Blobs below the hashtree.                                               *)

CacheInfo == [info |-> TRUE]
Nar(x, c) == [nar |-> x, comp |-> c.comp]

(* Mutant: an entry names the NAR instead of its narinfo.                  *)
NarInfoIsNar(x, c) == Nar(x, c)
NarInfo(x, c) == [narinfo |-> x, comp |-> c.comp, key |-> c.key]

NarBlobs == [nar : Paths, comp : Compressions]
EntryBlobs ==
  [narinfo : Paths, comp : Compressions, key : Keys \cup {NoKey}]
    \cup {CacheInfo}

(* An entry map is a HashMap from entry name to DirEntry: a function on    *)
(* the names present, its value the blob that the entry's hash names.      *)
EntryMaps == UNION {[S -> EntryBlobs] : S \in SUBSET Names}

EmptyMap == [n \in {} |-> CacheInfo]

(* f, and g where f says nothing.                                          *)
Merge(f, g) ==
  [n \in DOMAIN f \cup DOMAIN g |-> IF n \in DOMAIN f THEN f[n] ELSE g[n]]

(* What a client needs besides the narinfo an entry names: the NAR that    *)
(* the narinfo's URL field names.                                          *)
EntryNeeds(b) ==
  IF b = CacheInfo THEN {b} ELSE {b, [nar |-> b.narinfo, comp |-> b.comp]}

-----------------------------------------------------------------------------
(* Hashtrees.  "dup" is set when the list the tree is built from carries   *)
(* the entry nix-cache-info twice.                                         *)

Trees == [ents : EntryMaps, dup : BOOLEAN]

Size(t) == Cardinality(DOMAIN t.ents) + (IF t.dup THEN 1 ELSE 0)

(* manifest::build_directory_tree: the nodes to upload, leaves first.  All *)
(* the nodes below the root stand as one blob.                             *)
ManifestNodes(t) ==
  IF Size(t) > MaxLinks THEN <<[inner |-> t], [root |-> t]>>
                        ELSE <<[root |-> t]>>

NodeSet(t) == {ManifestNodes(t)[i] : i \in DOMAIN ManifestNodes(t)}

Blobs == NarBlobs \cup EntryBlobs \cup [inner : Trees] \cup [root : Trees]

(* Everything a client that starts from the root hash may ask for.         *)
TreeNeeds(t) ==
  NodeSet(t) \cup UNION {EntryNeeds(t.ents[n]) : n \in DOMAIN t.ents}

-----------------------------------------------------------------------------
(* Root events (kind 17091 or 37091): the newest of one author and channel *)
(* replaces the others.                                                    *)

Events == [tree : Trees, servers : SUBSET Servers,
           keys : SUBSET Keys, at : Int]

Newest(E) == {e \in E : \A f \in E : f.at <= e.at}
=============================================================================
