------------------------------- MODULE Publish -------------------------------
(***************************************************************************)
(* The publish pipeline (lib.rs publish) run by a set of publishers that   *)
(* share one Nostr identity and channel, against the Blossom servers and   *)
(* the Nostr relays.  A publisher runs one publish after the other; a run  *)
(* keeps all its state in memory, so an error return and a crash leave the *)
(* same state behind: whatever was already uploaded or accepted.           *)
(*                                                                         *)
(* An action is what a run does between two awaits.  In "process" and      *)
(* "tree" the run works through queue, the blobs it still has to upload    *)
(* before it goes on.                                                      *)
(***************************************************************************)
EXTENDS CacheData

CONSTANTS
  Publishers,  \* processes (hosts) that publish to the cache
  Relays,      \* the relays of --relay, the same for every run
  FetchSets,   \* the sets of relays that may answer a fetch within 10 s
  AcceptSets,  \* the sets of relays that a root event may reach
  Delays,      \* seconds between the signing of two root events
  Skew,        \* Skew[p]: seconds the clock of p is ahead
  MaxRuns      \* bound on the number of runs (all publishers together)

ASSUME EnvironmentAssumption ==
  /\ FetchSets \subseteq SUBSET Relays /\ AcceptSets \subseteq SUBSET Relays
  /\ Delays \subseteq Nat
  /\ Skew \in [Publishers -> Int]
  /\ MaxRuns \in Nat

VARIABLES
  \* the environment
  store,     \* store[s]: the blobs that server s holds
  relay,     \* relay[r]: the root event that relay r holds, a set of at most one
  clock,     \* true time, in seconds
  started,   \* number of runs started
  \* the runs
  pc,        \* where the run of p is
  cfg,       \* its command line
  root,      \* existing_root: the event it builds on, a set of at most one
  existing,  \* existing_entries
  todo,      \* closure entries not yet processed
  fresh,     \* new_entries
  queue,     \* blobs to upload before the next step
  event,     \* the signed root event, a set of at most one
  result     \* how the last run of p ended

remote == <<store, relay>>
run == <<pc, cfg, root, existing, todo, fresh, queue, event, result>>
vars == <<store, relay, clock, started, pc, cfg, root, existing, todo,
          fresh, queue, event, result>>

Positions == {"idle", "fetch", "flatten", "closure", "process", "tree", "send"}

TypeOK ==
  /\ store \in [Servers -> SUBSET Blobs]
  /\ relay \in [Relays -> SUBSET Events]
  /\ clock \in Nat
  /\ started \in 0..MaxRuns
  /\ pc \in [Publishers -> Positions]
  /\ cfg \in [Publishers -> Configs]
  /\ root \in [Publishers -> SUBSET Events]
  /\ existing \in [Publishers -> EntryMaps]
  /\ todo \in [Publishers -> SUBSET Paths]
  /\ fresh \in [Publishers -> EntryMaps]
  /\ queue \in [Publishers -> Seq(Blobs)]
  /\ event \in [Publishers -> SUBSET Events]
  /\ result \in [Publishers -> {"none", "ok", "err"}]

-----------------------------------------------------------------------------
AnyConfig == CHOOSE c \in Configs : TRUE

Init ==
  /\ store = [s \in Servers |-> {}]
  /\ relay = [r \in Relays |-> {}]
  /\ clock = 0
  /\ started = 0
  /\ pc = [p \in Publishers |-> "idle"]
  /\ cfg = [p \in Publishers |-> AnyConfig]
  /\ root = [p \in Publishers |-> {}]
  /\ existing = [p \in Publishers |-> EmptyMap]
  /\ todo = [p \in Publishers |-> {}]
  /\ fresh = [p \in Publishers |-> EmptyMap]
  /\ queue = [p \in Publishers |-> <<>>]
  /\ event = [p \in Publishers |-> {}]
  /\ result = [p \in Publishers |-> "none"]

(* The events held by a set of relays.                                     *)
Held(R) == UNION {relay[r] : r \in R}

(* The run of p returns (or dies): its memory is gone.                     *)
Finish(p, res) ==
  /\ pc' = [pc EXCEPT ![p] = "idle"]
  /\ cfg' = [cfg EXCEPT ![p] = AnyConfig]
  /\ root' = [root EXCEPT ![p] = {}]
  /\ existing' = [existing EXCEPT ![p] = EmptyMap]
  /\ todo' = [todo EXCEPT ![p] = {}]
  /\ fresh' = [fresh EXCEPT ![p] = EmptyMap]
  /\ queue' = [queue EXCEPT ![p] = <<>>]
  /\ event' = [event EXCEPT ![p] = {}]
  /\ result' = [result EXCEPT ![p] = res]

-----------------------------------------------------------------------------
(* A run starts with command line c.                                       *)
Start(p, c) ==
  /\ pc[p] = "idle"
  /\ started < MaxRuns
  /\ started' = started + 1
  /\ pc' = [pc EXCEPT ![p] = "fetch"]
  /\ cfg' = [cfg EXCEPT ![p] = c]
  /\ result' = [result EXCEPT ![p] = "none"]
  /\ UNCHANGED <<remote, clock, root, existing, todo, fresh, queue, event>>

(* Mutant: the run waits for a root event.                                 *)
FetchRootWait(p) ==
  /\ pc[p] = "fetch"
  /\ \E R \in FetchSets : \E e \in Newest(Held(R)) :
       /\ root' = [root EXCEPT ![p] = {e}]
       /\ pc' = [pc EXCEPT ![p] = "flatten"]
  /\ UNCHANGED <<remote, clock, started, cfg, existing, todo, fresh, queue,
                 event, result>>

(* nostr_fetch::fetch_latest_root.  The relays that do not answer within   *)
(* the timeout contribute nothing; the newest event among the answers is   *)
(* taken, any of them when several are equally new, and no event at all is *)
(* taken for a cache that does not exist yet.                              *)
FetchRoot(p) ==
  /\ pc[p] = "fetch"
  /\ \E R \in FetchSets :
       \/ /\ Held(R) = {}
          /\ pc' = [pc EXCEPT ![p] = "closure"]
          /\ UNCHANGED root
       \/ \E e \in Newest(Held(R)) :
            /\ root' = [root EXCEPT ![p] = {e}]
            /\ pc' = [pc EXCEPT ![p] = "flatten"]
  /\ UNCHANGED <<remote, clock, started, cfg, existing, todo, fresh, queue,
                 event, result>>

(* The servers the existing tree is read from.                             *)
FetchServers(e, c) == IF e.servers # {} THEN e.servers ELSE c.servers

Stored(b, S) == \E s \in S : b \in store[s]

(* tree_reader::flatten_tree: every node must be found on some server; the *)
(* entries go into a map, which keeps one of two entries of the same name. *)
FlattenTree(p) ==
  /\ pc[p] = "flatten"
  /\ \E e \in root[p] :
       IF \A b \in NodeSet(e.tree) : Stored(b, FetchServers(e, cfg[p]))
       THEN /\ existing' = [existing EXCEPT ![p] = e.tree.ents]
            /\ pc' = [pc EXCEPT ![p] = "closure"]
            /\ UNCHANGED <<cfg, root, todo, fresh, queue, event, result>>
       ELSE Finish(p, "err")
  /\ UNCHANGED <<remote, clock, started>>

(* Mutant: only the paths given are processed, not what they refer to.     *)
ResolveInputs(p) ==
  /\ pc[p] = "closure"
  /\ todo' = [todo EXCEPT ![p] = {x \in cfg[p].paths :
                                    \A y \in cfg[p].paths : x \notin Refs[y]}]
  /\ pc' = [pc EXCEPT ![p] = "process"]
  /\ UNCHANGED <<remote, clock, started, cfg, root, existing, fresh, queue,
                 event, result>>

(* closure::resolve.                                                       *)
ResolveClosure(p) ==
  /\ pc[p] = "closure"
  /\ todo' = [todo EXCEPT ![p] = cfg[p].paths]
  /\ pc' = [pc EXCEPT ![p] = "process"]
  /\ UNCHANGED <<remote, clock, started, cfg, root, existing, fresh, queue,
                 event, result>>

(* Mutant: every path is processed, those in the tree as well.             *)
ProcessPathAnew(p) ==
  /\ pc[p] = "process" /\ queue[p] = <<>>
  /\ \E x \in todo[p] :
       /\ todo' = [todo EXCEPT ![p] = @ \ {x}]
       /\ fresh' = [fresh EXCEPT ![p] = Merge([n \in {x} |-> NarInfo(x, cfg[p])], @)]
       /\ queue' = [queue EXCEPT ![p] =
                      IF cfg[p].dry THEN <<>>
                      ELSE <<Nar(x, cfg[p]), NarInfo(x, cfg[p])>>]
  /\ UNCHANGED <<remote, clock, started, pc, cfg, root, existing, event,
                 result>>

(* One round of the loop over the closure, up to its uploads: a path whose *)
(* narinfo name is in the tree is skipped, its entry kept; otherwise the   *)
(* NAR is to be uploaded, then the narinfo, unless this is a dry run.      *)
ProcessPath(p) ==
  /\ pc[p] = "process" /\ queue[p] = <<>>
  /\ \E x \in todo[p] :
       /\ todo' = [todo EXCEPT ![p] = @ \ {x}]
       /\ LET known == x \in DOMAIN existing[p]
              entry == IF known THEN existing[p][x] ELSE NarInfo(x, cfg[p])
          IN /\ fresh' = [fresh EXCEPT ![p] = Merge([n \in {x} |-> entry], @)]
             /\ queue' = [queue EXCEPT ![p] =
                            IF known \/ cfg[p].dry THEN <<>>
                            ELSE <<Nar(x, cfg[p]), NarInfo(x, cfg[p])>>]
  /\ UNCHANGED <<remote, clock, started, pc, cfg, root, existing, event,
                 result>>

(* Mutant: the existing entries are not merged in.                         *)
NewTreeUnmerged(p) ==
  [ents |-> Merge([n \in {CacheInfoName} |-> CacheInfo], fresh[p]),
   dup  |-> FALSE]

(* The tree of the merged entries.  nix-cache-info is pushed whether or    *)
(* not the existing tree already holds it.                                 *)
NewTree(p) ==
  [ents |-> Merge([n \in {CacheInfoName} |-> CacheInfo],
                  Merge(fresh[p], existing[p])),
   dup  |-> CacheInfoName \in DOMAIN existing[p]]

(* Mutant: a dry run uploads the tree.                                     *)
BuildTreeDry(p) ==
  /\ pc[p] = "process" /\ queue[p] = <<>> /\ todo[p] = {}
  /\ pc' = [pc EXCEPT ![p] = "tree"]
  /\ queue' = [queue EXCEPT ![p] = <<CacheInfo>> \o ManifestNodes(NewTree(p))]
  /\ UNCHANGED <<remote, clock, started, cfg, root, existing, todo, fresh,
                 event, result>>

(* After the loop: merge, build the hashtree, and upload nix-cache-info    *)
(* and the nodes, leaves first, unless this is a dry run.                  *)
BuildTree(p) ==
  /\ pc[p] = "process" /\ queue[p] = <<>> /\ todo[p] = {}
  /\ pc' = [pc EXCEPT ![p] = "tree"]
  /\ queue' = [queue EXCEPT ![p] =
                 IF cfg[p].dry THEN <<>>
                 ELSE <<CacheInfo>> \o ManifestNodes(NewTree(p))]
  /\ UNCHANGED <<remote, clock, started, cfg, root, existing, todo, fresh,
                 event, result>>

(* Mutant: the result of an upload is not looked at.                       *)
UploadUnchecked(p) ==
  /\ queue[p] # <<>>
  /\ \E W \in SUBSET cfg[p].servers :
       store' = [s \in Servers |->
                   store[s] \cup (IF s \in W THEN {Head(queue[p])} ELSE {})]
  /\ queue' = [queue EXCEPT ![p] = Tail(@)]
  /\ UNCHANGED <<relay, clock, started, pc, cfg, root, existing, todo, fresh,
                 event, result>>

(* blossom upload of the next blob: the servers in W store it.  The upload *)
(* may succeed as soon as one server has the blob (a HEAD finds the blobs  *)
(* stored earlier); it fails when none has, and may fail when every answer *)
(* is lost.  A failed upload ends the run.                                 *)
Upload(p) ==
  /\ queue[p] # <<>>
  /\ \E W \in SUBSET cfg[p].servers :
       LET b == Head(queue[p]) IN
       /\ store' = [s \in Servers |->
                      IF s \in W THEN store[s] \cup {b} ELSE store[s]]
       /\ \/ /\ \E s \in cfg[p].servers : s \in W \/ b \in store[s]
             /\ queue' = [queue EXCEPT ![p] = Tail(@)]
             /\ UNCHANGED <<pc, cfg, root, existing, todo, fresh, event,
                            result>>
          \/ Finish(p, "err")
  /\ UNCHANGED <<relay, clock, started>>

(* Mutant: every run returns there.                                        *)
FinishAlways(p) ==
  /\ pc[p] = "tree" /\ queue[p] = <<>>
  /\ Finish(p, "ok")
  /\ UNCHANGED <<remote, clock, started>>

(* A dry run returns before anything is published.                         *)
FinishDry(p) ==
  /\ pc[p] = "tree" /\ queue[p] = <<>> /\ cfg[p].dry
  /\ Finish(p, "ok")
  /\ UNCHANGED <<remote, clock, started>>

(* Mutant: the event keeps the servers of the event it replaces.           *)
RootEventOldServers(p) ==
  [tree    |-> NewTree(p),
   servers |-> IF root[p] = {} THEN cfg[p].servers
                               ELSE UNION {e.servers : e \in root[p]},
   keys    |-> {cfg[p].key} \ {NoKey},
   at      |-> clock + Skew[p]]

(* The root event of a run names the servers and the signing key of this   *)
(* run only.  Signing it fixes created_at.                                 *)
RootEvent(p) ==
  [tree    |-> NewTree(p),
   servers |-> cfg[p].servers,
   keys    |-> {cfg[p].key} \ {NoKey},
   at      |-> clock + Skew[p]]

(* nostr_pub::publish_cache up to the signature.                           *)
SignRoot(p) ==
  /\ pc[p] = "tree" /\ queue[p] = <<>> /\ ~cfg[p].dry
  /\ event' = [event EXCEPT ![p] = {RootEvent(p)}]
  /\ \E d \in Delays : clock' = clock + d
  /\ pc' = [pc EXCEPT ![p] = "send"]
  /\ UNCHANGED <<remote, started, cfg, root, existing, todo, fresh, queue,
                 result>>

(* send_event: a relay keeps the event unless it holds a newer one, and a  *)
(* relay that already holds one with the same created_at may keep either.  *)
(* One acceptance that is heard of makes the run a success.                *)
SendRoot(p) ==
  /\ pc[p] = "send"
  /\ \E e \in event[p], A \in AcceptSets :
       LET accepted == {r \in A : \A f \in relay[r] : f.at <= e.at} IN
       /\ relay' = [r \in Relays |->
                      IF r \in accepted THEN {e} ELSE relay[r]]
       /\ \/ accepted # {} /\ Finish(p, "ok")
          \/ Finish(p, "err")
  /\ UNCHANGED <<store, clock, started>>

(* Any other error return (signer, file system, encoding), or a crash.     *)
Abort(p) ==
  /\ pc[p] # "idle"
  /\ Finish(p, "err")
  /\ UNCHANGED <<remote, clock, started>>

-----------------------------------------------------------------------------
(* What a run does by itself, once started.                                *)
Step(p) ==
  \/ FetchRoot(p) \/ FlattenTree(p) \/ ResolveClosure(p)
  \/ ProcessPath(p) \/ Upload(p) \/ BuildTree(p)
  \/ FinishDry(p) \/ SignRoot(p) \/ SendRoot(p)

Next ==
  \E p \in Publishers :
    \/ \E c \in Configs : Start(p, c)
    \/ Step(p)
    \/ Abort(p)

Spec == Init /\ [][Next]_vars

(* A run that is started goes on.  The awaits on relays and on the bunker  *)
(* have time-outs; that a Blossom server answers or fails is assumed, for  *)
(* the HTTP clients of the uploader and of the fetcher have none.          *)
FairSpec == Spec /\ \A p \in Publishers : WF_vars(Step(p))
-----------------------------------------------------------------------------
(* Safety.                                                                 *)

(* Every root event on a relay has everything its tree needs (nodes,       *)
(* narinfos, NARs) on some Blossom server: lib.rs uploads every blob before*)
(* the event, and an entry is reused only from a tree of which this holds. *)
RootBacked ==
  \A r \in Relays : \A e \in relay[r] :
    \A b \in TreeNeeds(e.tree) : Stored(b, Servers)

(* The nodes of the tree of a root event are on the servers that the event *)
(* advertises, so the next publish (tree_reader::flatten_tree), which reads*)
(* them from there, finds them whatever --blossom servers it is given.     *)
NodesServed ==
  \A r \in Relays : \A e \in relay[r] :
    \A b \in NodeSet(e.tree) : Stored(b, e.servers)

(* A published tree is closed under references: a client that substitutes  *)
(* a path finds the narinfo of everything it refers to in the same tree,   *)
(* whatever failed, and whichever older tree the entries were merged with. *)
ClosedTrees ==
  \A r \in Relays : \A e \in relay[r] :
    \A x \in DOMAIN e.tree.ents \cap Paths : Refs[x] \subseteq DOMAIN e.tree.ents

(* The servers a root event advertises hold everything its tree needs      *)
(* (lib.rs step 9: the event goes out only after all blobs are uploaded).  *)
RootServed ==
  \A r \in Relays : \A e \in relay[r] :
    \A b \in TreeNeeds(e.tree) : Stored(b, e.servers)

(* The narinfos a run finds in the tree of the root it read are kept as    *)
(* they are, signed with whatever key; every other one is of its own       *)
(* closure and signed with a key that its event advertises, or not at all. *)
KeptOrCovered ==
  \A p \in Publishers : \A e \in event[p] :
    LET found == Paths \cap UNION {DOMAIN f.tree.ents : f \in root[p]} IN
    /\ \A f \in root[p] : \A x \in found :
         x \in DOMAIN e.tree.ents /\ e.tree.ents[x] = f.tree.ents[x]
    /\ \A x \in (Paths \cap DOMAIN e.tree.ents) \ found :
         x \in cfg[p].paths /\ e.tree.ents[x].key \in e.keys \cup {NoKey}

(* The entries read back from a tree are narinfo entries (tree_reader.rs). *)
OnlyNarinfos == \A p \in Publishers : DOMAIN existing[p] \subseteq Paths

-----------------------------------------------------------------------------
(* Action properties.                                                      *)

(* No step of a dry run changes what the servers or the relays hold        *)
(* (--dry-run: lib.rs tests the flag at each of its five remote writes).   *)
DryRunSilent ==
  [][\A p \in Publishers :
       cfg[p].dry /\ (pc'[p] # pc[p] \/ queue'[p] # queue[p])
         => UNCHANGED remote]_vars

(* When a run that is not dry reports success, a relay holds a root event  *)
(* whose tree has every path of the closure.                               *)
OkMeansPublished ==
  [][\A p \in Publishers :
       result[p] # "ok" /\ result'[p] = "ok" /\ ~cfg[p].dry
         => \E r \in Relays : \E e \in relay'[r] :
              cfg[p].paths \subseteq DOMAIN e.tree.ents]_vars

(* The cache a client sees: the entries of the newest event on any relay.  *)
VisibleCache ==
  LET N == Newest(Held(Relays))
  IN  IF N = {} THEN EmptyMap ELSE (CHOOSE e \in N : TRUE).tree.ents

Register == INSTANCE CacheRegister WITH cache <- VisibleCache

(* The cache is an atomic register: every change of it is one publish that *)
(* keeps the entries it finds (lib.rs step 1, "atomic update guarantee").  *)
AtomicUpdate == Register!Spec

-----------------------------------------------------------------------------
(* Liveness.                                                               *)

(* Every run that is started ends.                                         *)
RunEnds == \A p \in Publishers : pc[p] # "idle" ~> pc[p] = "idle"
=============================================================================
