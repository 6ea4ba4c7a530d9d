# A formal model of narwal-publisher

narwal-publisher uploads a Nix binary cache to Blossom servers (content
addressed blob stores) and announces it with one replaceable Nostr event, the
*root event*, that names the root hash of a hashtree of narinfo entries.  This
directory holds TLA+ modules of the program, the TLC configurations that check
them on small instances and TLAPS proofs about them for all instances.
Line numbers are those of the files under `src/`.

Contents: [inventory](#inventory), [modules](#modules), [runs](#runs),
[fairness](#fairness), [assumptions about the environment](#assumptions-about-the-environment),
[proofs](#proofs), [where code and comments differ](#where-code-and-comments-differ),
[limits](#limits), [not modelled](#not-modelled), [plan](#plan).

## Inventory

### Publish pipeline (`src/src/lib.rs`)
* **State.** All in the memory of one run of `publish`: the existing root event
  and entries, the closure, the new entries, the tree, the signed event.
  Nothing is persisted; what a run leaves behind is what servers and relays have
  accepted.
* **Operations.** Fetch the newest root event (131), read its tree (135-162),
  resolve the closure (165), per path: skip, or NAR, compression, narinfo,
  two uploads (169-300), merge, `nix-cache-info` and the hashtree (302-342), the
  return of a dry run (344-352), the root event (354-368).
* **Interactions.** Calls every other component; shares servers and relays
  with other publishers of the same identity, without any lock.
* **Hard.** A run may fail or die between any two awaits; two runs overlap; the
  relays answer only partly; runs are given different servers and keys although
  their entries end up in one tree.
* **Correct when** a root event names only what was uploaded, its nodes are
  readable from the servers it advertises, trees are closed under references,
  existing entries are kept, a dry run writes nothing, success means published.

### Root event fetch and publication (`nostr_fetch.rs`, `nostr_pub.rs`)
* **State.** None of its own; the relays keep one event per author, kind and
  channel.  The newest by `created_at` wins (`nostr_fetch.rs` 68-72).
* **Hard.** A 10 s time-out after which whatever arrived is used; `created_at` in
  seconds, from the publisher's clock; an event some relays keep and others
  miss; an acceptance that is not heard of.
* **Correct when** the event a run builds on is the newest there is, and an
  accepted event replaces only older ones.

### Blossom uploader (`blossom.rs`)
* **State.** The cached session token with its expiration (46-53).
* **Operations.** HEAD, preflight of large blobs, token reuse or minting, PUT, one
  retry after 401, the loop over all servers.
* **Hard.** The token is checked once and used later; the signer may take a minute
  and a half; each server may fail at each step; a stored blob whose answer is
  lost.
* **Correct when** Ok implies that a server has the blob, every server is tried,
  a token is sent with life left, and the retry after a 401 is not refused for the
  age of the token that was dropped.

### Closure resolver (`closure.rs`, `refscan.rs`)
* **State.** The worklist, the visited set, the closure map; then the recursion of
  `topo_sort`.
* **Hard.** References form cycles and diamonds; inputs repeat; a scan fails;
  two entries of the store directory may share a hash part (`.lock` files).
* **Correct when** it stops and lists exactly the closure, once, dependencies
  first.

### Hashtree builder and reader, nhash, Blossom fetcher (`manifest.rs`, `tree_reader.rs`, `nhash.rs`, `blossom_fetch.rs`)
* **State.** None that outlives a call; the nodes are on the servers.
* **Operations.** Sort and chunk the entries, level by level (`manifest.rs` 71-148),
  upload the nodes in that order (`lib.rs` 338-341), encode the root hash
  (`nhash.rs` 21) and parse it back (`tree_reader.rs` 71), walk the tree
  (`tree_reader.rs` 27), ask one server after the other for a node and check its hash
  (`blossom_fetch.rs` 28).
* **Hard.** A tree above 174 links gets further levels; an upload stops half-way and a
  later tree shares nodes with it; a server has only some of the nodes, or answers
  with something else; an nhash of another tool has entries before the hash.
* **Correct when** what is read back is what was built, no node on a server links to a
  missing one, and the parser finds the hash or fails.

### Narinfo, NAR, compression, signing (`narinfo.rs`, `nar.rs`, `compress.rs`, `signing.rs`, `store_path.rs`)
* **State.** None: encodings, mostly done by libraries.  What matters here is which
  inputs determine the bytes of a blob.

### Bunker signer (`nip46/signer.rs`)
* **State.** The map of pending requests, the background task, the connect
  handshake shared through a `OnceCell`, the cached user key.
* **Hard.** Responses that are late, early, duplicated or for nobody; 90 s
  time-outs; concurrent first uses; cancellation.
* **Correct when** a caller gets the answer to its own request or an error, whoever
  waits can be answered, and nothing is asked before the handshake is through.

### Pairing, session file, secrets (`nip46/pair.rs`, `nip46/session.rs`, `secrets.rs`)
* **State.** The pairing file (app key, signer key, user key, relays), the only state the
  program keeps on disk.  During a ceremony the new app key, its relays and the
  subscription; during a reuse the pairing loaded, and the relays of the transport.
* **Operations.** `pair` and `--qr` without a file: check the relays, show the code,
  wait for an app (60 s), look up the user key (20 s), ask for the relays, save.  `--qr`
  with a file: load, refresh the relays (5 s), save new ones, verify the user key.
* **Interactions.** Requests go through a `BunkerSigner`; `publish` gets the signer.  Several
  processes share the file without a lock; the signer app is changed by its owner.
* **Hard.** A crash between the signer's acceptance and the save, or inside it: the file
  is truncated, written in place, and its mode set last; a refresh cut off by its time-out;
  an app that scans an old code; a file that changed between load and save; a signer
  that moves, or holds another identity now.
* **Correct when** a stored pairing is one the signer app knows, requests go where the
  app listens, a save loses nothing, and a change of identity is noticed.

### Command line (`main.rs`)
* **State.** None.  `validate_publish` guarantees servers and paths to `publish`; `pair` calls
  `pair_fresh` with the default relays filled in (112).

## Modules

| Module | Models | Source |
|---|---|---|
| `CacheData` | blobs, entry maps, hashtrees, root events as values | `lib.rs`, `narinfo.rs`, `compress.rs`, `manifest.rs`, `nostr_fetch.rs`, `main.rs` |
| `CacheRegister` | abstract: the cache as one atomic register | what `lib.rs` 76 and 128 promise |
| `Publish` | publishers, Blossom servers, relays | `lib.rs`, `nostr_fetch.rs`, `nostr_pub.rs`, `blossom_fetch.rs`, `tree_reader.rs` |
| `BlobUpload` | abstract: the upload of one blob | what `Publish` assumes of `blossom.rs` |
| `BlossomUploader` | one uploader, step by step, with its clock | `blossom.rs` |
| `Closure` | `resolve`, step by step | `closure.rs`, `refscan.rs` |
| `BunkerSigner` | callers of one signer, dispatcher, relays, signer app | `nip46/signer.rs`, time-outs of `nip46/pair.rs` |
| `Pairing` | processes that pair or reuse a pairing, the file, the signer apps | `nip46/pair.rs`, `nip46/session.rs`, `secrets.rs`, `nip46/signer.rs`, `main.rs` |
| `Hashtree` | a publisher building and uploading trees, a reader walking them | `manifest.rs`, `tree_reader.rs`, `nhash.rs`, `blossom_fetch.rs`, `lib.rs` |
| `MCPublish`, `MCBlossomUploader`, `MCClosure`, `MCBunkerSigner`, `MCPairing`, `MCHashtree` | instances for TLC | |
| `PublishProofs`, `BlossomUploaderProofs`, `ClosureProofs`, `BunkerSignerProofs`, `PairingProofs`, `HashtreeProofs` | theorems: types and safety | |
| `CacheRegisterProofs` | theorem: `Publish` implements `CacheRegister` | |
| `HashtreeReadProofs` | theorems: what is built is read back | |

`Publish` extends `CacheData` and implements `CacheRegister` (under the
conditions of the theorem `PublishIsAtomic`, which the run `publish_serial` meets).  Its action `Upload` is one upload in
one step; `BlossomUploader`, with all its steps, implements the same promise
(`BlobUpload`), so the two modules compose at that interface.  `BunkerSigner` is what
signs for both: `CallReturns` is the ground on which the fairness of `MintToken`
(`BlossomUploader`) and `SignRoot` (`Publish`) stands, and its error return their
failures.  `Publish` uses the
result of `Closure` as an assumption on its command lines: the paths of a run
are closed under references (`ConfigAssumption`).  What `Publish` takes in one step,
a tree with its inner nodes and the read of it, `Hashtree` does node by node:
`ReadBack` and `ReadSucceeds` are what `FlattenTree` stands for.  `Pairing` uses the
requests of `BunkerSigner` as single steps that are answered or fail (`OwnAnswer`,
`CallReturns`), and leaves behind the signer in which a `BunkerSigner` without
a secret starts.

Definitions named ...`Unchecked`, `...Early`, `...Wait` and so on, under a comment
"Mutant", are no part of the specifications: each is a plausible mistake in the
definition after it, and some property fails when it takes that definition's place.

### `CacheData`: a blob is what determines its bytes
A blob's name is the SHA-256 of its bytes, so blobs are represented by what
determines them: a NAR by path and compression, a narinfo by path, compression
and key, a node by its tree.  A store path stands for its hash part and for the
name `<hash>.narinfo`.  A tree is its entry map and a flag `dup`, set when
`nix-cache-info` is in the list twice.  The nodes below the root are one blob
`inner`, made when the tree has more than `MaxLinks` entries.

### `Publish`: one action for what a run does between two awaits

| Variable | Code |
|---|---|
| `store`, `relay` | the servers' blobs, the relays' events (external) |
| `clock`, `Skew` | `Timestamp::now()` of each publisher |
| `pc`, `cfg` | position in `publish`, the command line |
| `root`, `existing` | `existing_root`, `existing_entries` |
| `todo`, `fresh` | closure entries to process, `new_entries` |
| `queue` | uploads awaited before the next step |
| `event`, `result` | the signed event, the run's result |

| Action | Code |
|---|---|
| `Start` | the call of `publish` |
| `FetchRoot` | `fetch_latest_root`: the relays of some set answer in time, the newest event wins, no event means a new cache |
| `FlattenTree` | `flatten_tree`: an error if some node is on none of the servers asked |
| `ResolveClosure` | `closure::resolve` |
| `ProcessPath` | one round of the loop: skip by name, or two uploads |
| `BuildTree` | merge, `nix-cache-info`, `build_directory_tree`, uploads leaves first |
| `Upload` | one `BlossomUploader::upload`; a failure ends the run |
| `FinishDry` | the early return of a dry run |
| `SignRoot`, `SendRoot` | `publish_cache`: signature, then sending |
| `Abort` | every other error return, and a crash, at every point |

A run keeps nothing on disk, so an error return and a crash leave the same
state behind; both are `Finish(p, "err")`.

### `BlossomUploader`: every await of an upload
`CheckExists`, `Preflight`, `AuthHeader`, `MintToken`, `PutUpload`, `Return` are the
steps of `upload`, `Begin` the next call.  `now` advances only where the code
waits: signing, requests, work between two uploads.  `token` is the mutex's
content, `header` the token of the next PUT, `acks` is `success_count`, `errors` has
the servers for which an error was pushed.  A token is the second at which it expires,
for that is all its life depends on, and two tokens of one second are the same event
(`blossom.rs` 91-112): what comes after a 401 may be the refused token once more.

### `Closure`: the worklist and the depth-first search
`ReadStore`, `Scan`, `ScanError` are `resolve`'s first part, `Scanned` its call of
`topo_sort`, `CallRoot`, `CallReference`, `Return` the calls of `dfs`, whose stack is
the variable `stack`.  What refers to what is any graph of `Graphs`, chosen in the
initial state; `References` leaves out a path's references to itself (142).  The
order in which a scan lists its matches is any order.

### `BunkerSigner`: one action per await of a call

| Variable | Code |
|---|---|
| `secret`, `userKey` | `app_secret` is there, `user_pubkey` |
| `started`, `handshook` | the two `OnceCell`s; who is inside an initialiser is seen from `pc` and `doing` |
| `listening` | the task spawned at 236 runs |
| `pending` | keys of the map; its channels are `inbox`, one per caller |
| `sent` | requests on some relay (external) |
| `pc`, `op`, `doing`, `id` | where a caller is, for what, and its round trip |

| Action | Code |
|---|---|
| `Begin` | the call of `user_public_key`, `sign_event` or `refresh_relays` |
| `EnsureHandshake` | `ensure_handshake`: done, or its own `connect` round trip first |
| `EnterStart`, `Started` | `ensure_started` |
| `Insert`, `Publish`, `SendReturns` | `rpc_raw` up to the wait; a relay may have the request before `send_event` returns |
| `Response` | `dispatch_response` of a response that arrives at any time, any number of times, or never |
| `Receive`, `Timeout` | the end of the wait; a response that is there goes first |
| `Cancel` | the time-outs around a call in `pair.rs` (189, 371) |

`sign` stands for `sign_event`, `nip44_encrypt` and `nip44_decrypt`.  The two NIP-04
functions fail at once.  The relays of the transport, with `add_relays` and
the list that `refresh_relays` returns, are in `Pairing`.

### `Pairing`: a process from load to exit

| Variable | Code |
|---|---|
| `file`, `hurt` | the pairing file, none or one: its text, whether that is whole, whether the mode has group or world bits; and whether a write was ever cut off or met another (history) |
| `codes` | the QR codes shown so far (history) |
| `links`, `owner`, `owners` | what the signer apps know, and the identity each holds and has held (external) |
| `pc`, `asked`, `reuse` | where a process is; `requested_relays`; the branch of `pair_via_qr` |
| `mem`, `transport` | the `Pairing` in its hands; the relays of its `BunkerSigner` |
| `result`, `alone` | how its command ended; that no other one overlapped it |

| Action | Code |
|---|---|
| `Start` | `main`: `pair` fills in the default relays and goes on to `pair_fresh`, `--qr` does not and loads the file first |
| `Load` | `load_pairing`, with the permission check and the JSON; the branch on its result |
| `Refresh` | the 5 s of `refresh_relays`, `add_relays`, and whether to save |
| `Verify` | the end of `pair_via_qr`; `PublicKey` is `get_public_key` of a signer made by `paired` |
| `Replace` | the load with which `pair_fresh` begins, of a file that may be new by then |
| `CheckRelays` | `pair_fresh` up to the code: any relays connect, a new app key |
| `Await`, `Lookup`, `Steer` | `await_connect_response`, the user key within 20 s, `refresh_relays` |
| `Truncate`, `Write`, `Lock` | the three system calls of `save_pairing`; each may fail |
| `Crash` | the process dies, anywhere |
| `Scan`, `Move`, `Switch`, `Delete` | the app scans a code, at any time; it moves to other relays; it gets another identity; the user deletes the file |

A failed save ends a ceremony with an error and is passed over by a reuse (`Saved`).
The write of one process over what another has truncated may leave a whole text or not,
and a write that is cut off may spoil a text that the other has completed (`CutOff`).
`Truncate` goes by the open file, `Lock` by its name, so that it fails when the file is
gone.  The user may delete the file at any time but while a process has it open for
writing: the model has no file without a name.

### `Hashtree`: nodes as places in a table
SHA-256 has no collisions, so a node is named by the place at which `sha`, the table of nodes
built so far, has its links: equal nodes have one place, different ones two.

| Variable | Code |
|---|---|
| `store`, `roots` | the nodes on each server; the trees published (external) |
| `bpc`, `input` | where the publisher is, `final_entries` |
| `level`, `next`, `all`, `sent` | what is left of `current_level`, `next_level`, `all_nodes`, the position of the upload loop |
| `rpc`, `data`, `pos` | where the reader is; the payload of the nhash and `i` of the parser |
| `got`, `todo`, `out` | the root hash; the links of all frames of `flatten_node` still to follow, innermost first; `entries` |
| `server`, `fault` | the loop of `fetch`; that a server did not give what it has (history) |

| Action | Code |
|---|---|
| `Begin`, `Chunk` | the sort, and one `chunks(MAX_LINKS)` node; the last one of a level starts the next, or ends the build |
| `Put`, `Publish`, `Crash` | `upload_bytes` of the next node, in the order of `all_nodes`; the root event; failures elsewhere |
| `Open`, `Parse` | a read of a published root; one round of the parser's loop |
| `Fetch`, `Keep`, `Return` | one server asked for a node; an entry collected; the end, by an error or with the list |

`Encode` is the payload the program writes; `Headers` are entries other tools may put
in front.  `HashLen` stands for 32, `MaxLinks` for 174; the proofs hold for all values.

## Runs

All bounds are constants of the cfg files.  Expected: no error, except for the
runs marked *violated*.

| Run | Instance | Question and result |
|---|---|---|
| `publish_core` | 2 publishers, 2 servers, 2 relays, 3 runs; different servers, keys and closures, one dry run; relays that answer or accept in any subset; equal timestamps | what a relay holds is complete (`RootBacked`), readable from the servers it advertises (`NodesServed`), closed (`ClosedTrees`); entries that were found are kept as they are, any other is signed with an advertised key (`KeptOrCovered`); a dry run writes nothing (`DryRunSilent`); success means published (`OkMeansPublished`) |
| `publish_serial` | 1 publisher, 4 runs, one key and server, all relays answer, any of them may miss the new event | the cache is an atomic register (`AtomicUpdate`), the advertised servers hold all of it (`RootServed`), every run ends (`RunEnds`) |
| `publish_unreachable` | as serial, any set of relays answers | *violated*: `AtomicUpdate` |
| `publish_moved` | the second run has another server | *violated*: `RootServed` |
| `publish_entries` | 2 runs | *violated*: `OnlyNarinfos` |
| `upload` | 3 uploads of 2 blobs to 3 servers: one refuses the key, one is full, the clock of the third is a minute ahead; requests that travel up to 20 s; a signer that takes up to 40 s | the promise to the pipeline (`UploadPromise`); every server has the blob or an error (`EveryServerTried`); a PUT goes out with the margin left (`HeaderFresh`), may meet an expired token all the same, and the retry is not refused for that (`RetryAccepted`); every upload returns (`UploadReturns`) |
| `signer` | 2 callers, 3 calls, with and without a secret, with the user key known or not; every loss, delay and repetition of responses | a caller gets the answer to its own request (`OwnAnswer`), nothing precedes the handshake (`HandshakeFirst`), who waits can be answered (`Answerable`), every call returns (`CallReturns`) |
| `upload_slow` | the signer takes up to 80 s | *violated*: `HeaderFresh` |
| `closure` | every store directory of up to 3 paths with any references, cycles included, every list of 1 or 2 inputs, repeated or missing ones included | `resolve` ends (`Resolves`), lists the closure once (`ListsClosure`), dependencies first (`DependenciesFirst`) |
| `pairing` | 2 processes, 2 commands of either kind with or without `--bunker-relay`, 1 app, 2 identities, 2 relays; a move, a switch or a deletion; an old file without relays and user key, or none; crashes and failed writes | what is stored is known to the app (`StoredKnown`), requests go to the relays of its code (`TransportMeets`), the file is unusable only after a write that was cut off or met another (`DamageExplained`), a ceremony that succeeds has stored its pairing (`OkMeansStored`), a refresh only adds (`RefreshKeeps`), every command returns (`CommandReturns`) |
| `pairing_unverified` | 1 process, the app changes its identity | *violated*: `UserVerified` |
| `hashtree` | nodes of 2 links; a tree of one level or two, then one of three with which it shares a node; 2 servers, the first one down at times; a reader of either, with six payloads | no node on a server links to a missing one (`ChildrenFirst`), the parser finds the first hash and no other (`ParsesHash`), a read gives what the tree was built from (`ReadBack`) and fails by a server's fault only (`ReadSucceeds`), both end (`BuildEnds`, `ReadEnds`) |

Why the bounds are enough.
* *Publish.* An entry can be lost, kept or mixed as soon as there are two paths of
  which one refers to the other.  Two servers make "another server", two relays
  "another answer", two publishers an overlap.  Three runs are a run that
  publishes, one that builds on it and one that overlaps or follows a failure.
  `MaxLinks` = 2 makes trees with and without inner nodes: one entry with
  `nix-cache-info` fits in the root, two do not.
* *Uploader.* Two blobs (small, large) take both branches of the preflight, three
  servers all combinations of refusals before and after a success, three uploads
  reuse, renewal and expiry of a token.  One unit of time is 20 s, a token lives
  six, the margin is three, so that a signer may eat none, a third or more of its life.
  A server's clock that is three ahead refuses a token with the margin left after one
  unit on the way, and the retry is made.
* *Closure.* Three paths have self-references, cycles of two and three, diamonds
  without their bottom and paths reached twice; the proofs cover all sizes.
* *Signer.* Two callers meet at the handshake and at the start; a third call comes
  after one that failed, while responses to the failed one are still under way.
  One user key: which one is returned is checked against the request, and two keys
  never meet in an action but in `userKey`, which takes the first.
* *Pairing.* Two commands are a pairing and its reuse, or two that overlap at every step of
  load, save and refresh; the second relay is the one the app moves to, or the flag
  of one of the commands; one change by the users at any moment.  A second app would
  only scan the other's codes, which `links` already tells apart by app key; the proofs
  cover any number.
* *Hashtree.* Five entries with nodes of two links make three levels with an odd node on
  two of them; the first input has one name twice, where the order must be stable, or
  nothing at all; the second shares its first node with it.  The payloads cover each
  branch of the parser.

`CHECK_DEADLOCK FALSE` is set everywhere because the systems stop: the number of
runs, uploads or calls is bounded, and `resolve` returns.

Some properties hold under conditions only, and the runs fix these conditions
on purpose: `AtomicUpdate` needs runs that do not overlap and a fetch that meets the relay
with the newest event, `RootServed` a constant set of servers.
`publish_unreachable` and `publish_moved` show that both are needed.  `RootServed` is a
theorem for uniform command lines, `AtomicUpdate` for any number of publishers that take
turns.  `KeptOrCovered` needs no condition, but promises no advertised key for what is
kept: a run with a new key keeps the narinfos of the old one and advertises only the
new (`lib.rs` 355).
`OkMeansStored` and `RefreshKeeps` speak of a command that was alone with the file.

## Fairness

* `Publish!FairSpec`: weak fairness of `Step(p)`, what a run does by itself; none
  of `Start` or `Abort`.  The code is one sequential async function: after each
  await it goes on.
* `BlossomUploader!FairSpec`: weak fairness of `Run`, the steps inside an upload;
  not of `Begin`.
* `Closure!FairSpec`: weak fairness of `Next`; `resolve` waits for nothing but the
  disk.
* `BunkerSigner!FairSpec`: weak fairness of `Run(c)`, the steps inside a call, among them
  the time-out of 90 s (343); none of `Begin`, `Cancel`, `Listen` or `Response`: the signer
  app may never answer, and the spawned task may never run.

* `Pairing!FairSpec`: weak fairness of `Run(p)`, the steps inside a command, which include the
  time-out of each wait (4, 5, 20, 60 and 90 s); none of `Start`, `Crash` or what apps
  and users do: nobody need scan or answer.
* `Hashtree!FairSpec`: weak fairness of `Build` and of `Read`, the loops of the publisher and
  the reader; none of `Begin`, `Open`, `Crash`.

The first two and the last assume that a request is answered or fails.  The code
guarantees this for the relays (10 s in `nostr_fetch.rs`) and for the bunker (90 s),
not for HTTP: `Client::new()` (`blossom.rs` 68, `blossom_fetch.rs` 20) sets no time-out, so
that a server that takes a request and stays silent holds the run for ever.  `RunEnds`,
`UploadReturns`, `BuildEnds` and `ReadEnds` say nothing about such a server.

## Assumptions about the environment

* A Blossom server keeps what it has accepted, under its hash.
* A relay keeps, of one author, kind and channel, the event with the greatest
  `created_at`; of two with the same it may keep either.  It says OK only to an
  event it keeps.
* The publishers of a cache use the same relays.
* Every publisher of a cache uses this program.
* The ids of requests to the bunker, random or from clock and counter, do not repeat;
  a relay may lose, repeat and reorder responses, but nobody forges the signer's.
* Store paths do not change while they are published; a hash part names one path.
* SHA-256 and the app keys that are drawn do not repeat by chance.
* An nhash has one hash: no tool puts a TLV of type 0 and 32 bytes in front of the hash it
  names (`OneHash`; `MCHashtree` has TLC evaluate it for the payloads of its instance).
* A signer app that answers a `connect` echoes the secret of a code it has scanned, and
  listens on the relays of that code until its owner changes them.
* A write of the pairing file over one that another process has just truncated or
  written leaves the new text, whole or with a tail of the other.

## Proofs

Everything listed here is proved for all values of the constants that satisfy
the modules' assumptions (`ConfigAssumption`, `EnvironmentAssumption`,
`UploaderAssumption`, `GraphAssumption`, `SignerAssumption`, `PairingAssumption`,
`HashtreeAssumption`): any number of publishers, servers, relays, paths, blobs, callers,
processes, apps, entries and links in a node, any clocks and any pattern of failures.

### `PublishProofs`
* `TypeCorrect`: `Spec => []TypeOK`.
* `RootAlwaysBacked`, `NodesAlwaysServed`: neither property is inductive, for they
  speak of the relays only.  `BackedInv` adds what the runs in flight know: what
  a fetched or signed event names is stored, so is what the existing
  entries name, and what the new entries name is stored or still in the queue of that
  run; and the nodes of a fetched or signed event are on its servers.  It is
  preserved since stores only grow, only the run itself changes its queue, and
  `SignRoot` waits for an empty one.
* `TreesAlwaysClosed`: `ClosedInv` says that the existing entries of a run are
  closed, and that the new entries and what is to be done together have the
  run's closure.
* `SuccessIsPublished` (`OkMeansPublished`): from `ClosedInv`, which also says that a
  signed event has the closure of its run.
* `UniformlyServed` (`RootServed` when all command lines name the same servers): `ServersInv`
  says that only servers of command lines hold anything, and only such sets are
  advertised; `BackedInv` gives the rest.
* `KeepsOrCovers` (`KeptOrCovered`), with any keys and any overlap: `KeptInv` says that the
  existing entries of a run are those of the tree it read, that a new entry is one of these
  or signed with the key of the run, and that a signed event has the merged tree and
  that key; `ClosedInv`, that new entries are of the run's closure.
* `DryRunsAreSilent` (`DryRunSilent`): `DryInv`, a dry run has nothing in its queue and never
  gets to sending, so that neither `Upload` nor `SendRoot` is a step of it.

### `BlossomUploaderProofs`
* `TypeCorrect`: `Spec => []TypeOK`.
* `AllServersTried` (`EveryServerTried`): `Progress` relates successes and errors to the
  position in the list of servers: those behind it have the blob or an error.
* `ImplementsPromise`: `BlossomUploader` implements `BlobUpload`; each step maps to a step
  of it or a stutter, and `Succeed`'s guard follows from `Progress`.
* `RetriesAreAccepted` (`RetryAccepted`), for any delays and clocks: `TokenInv` says that from
  a 401 on no token is cached until one is minted, and that the second PUT carries that
  one, so that it is as old as its signing took.
* `QuickSignerFresh` (`HeaderFresh`): with a signer that answers within TTL minus margin a
  PUT always carries a token with the margin left.  The hypothesis is needed: the run
  `upload_slow` breaks the property without it.

### `ClosureProofs`
* `Lists` (`ListsClosure`), `Ordered` (`DependenciesFirst`), for every finite store
  and every list of inputs.  `ScanInv`: scanned paths and worklist together hold the inputs
  and all references of scanned paths, and nothing outside the closure; with an
  empty worklist they are the closure.  `SortInv`: a path that was seen is on the
  stack or listed, never both and once; its references were seen except those in `rest`;
  each path on the stack is referred to by the one below it.  So when a path is
  listed, each of its references is listed, or on the stack, and then the stack from
  there up is a cycle (`NotOnStack`).

### `BunkerSignerProofs`
* `TypeCorrect`: `Spec => []TypeOK`.
* `AnswersAreOwn` (`OwnAnswer`), `ConnectsFirst` (`HandshakeFirst`), `RequestsAnswerable`
  (`Answerable`), for any number of callers and calls.  None is inductive.
  `IdsInv` says that no two callers wait under the same id, and that an id which is pending
  or on a relay has been drawn, so that the next one is new; `BusyInv` and `InboxInv` tie a
  caller's id, method and response to what is on the relays under that id.  A late
  response then finds no caller with its id, or the one that sent the request.
  `HandshakeInv` says that a caller beyond `ensure_handshake` is doing the `connect` itself
  or finds it done.

### `PairingProofs`
* `TypeCorrect`: `Spec => []TypeOK`.
* `StoredIsKnown` (`StoredKnown`) and `TransportKeepsCode` (`TransportMeets`): what is on disk
  was in the hands of a process, so `KnownInv` says of `mem` and of the file alike that a
  signer that is named has a link for the app key, that the relays of the code are among
  the stored ones, and that the user key was one of that app; and that an app key in
  use was drawn, so that a new code never meets an old pairing.
* `DamageIsExplained` (`DamageExplained`): `DamageInv` is inductive with the history variable
  `hurt`: between `Truncate` and `Lock` some process is there to be seen, and whoever
  leaves without finishing sets `hurt`.
* `CeremonyStores` (`OkMeansStored`), `RefreshIsKept` (`RefreshKeeps`): `AloneInv` says that
  while a reuse is alone, what it holds differs from the file by more relays only, and that
  whoever is alone in a write has its own pairing in the file, whole before `Lock`.

### `HashtreeProofs`
* `TypeCorrect`: `Spec => []TypeOK`; the parser stays within the payload, and the reader follows
  hashes that have been built only.
* `ChildrenAreFirst` (`ChildrenFirst`): not inductive, for an upload relies on the order of
  `all`.  `Order` says that the nodes before the one to be sent are stored, and that a node
  in `all` links to nodes earlier in `all`; `next` and `level` hold links to nodes of `all`.
* `ParserIsRight` (`ParsesHash`): for every payload.  `OnTheWay` says that `pos` is reached by
  jumps that pass no hash, and that whatever jumps lead to a hash come by `pos`, so that the
  first hash found is the only one; the jumps are a set of offsets, not a recursion.

### `CacheRegisterProofs`
* `PublishIsAtomic` (`AtomicUpdate`): `Publish` implements `CacheRegister`, each step being a
  step of the register or a stutter.  The one step that is not a stutter is `SendRoot`, and
  only when some relay accepts the event.  It holds for any number of publishers, paths,
  relays, servers and configurations, any failure at any point, and any relays that miss
  an event, under three hypotheses:
  * `OneAtATime`: no two runs overlap (of one publisher or of two).  Without it the second
    one's tree lacks what the first one added; see [Limits](#limits).
  * every set of relays that may answer a fetch meets every set that may accept a root
    event (`Orderly`).  The run `publish_unreachable` has it broken, and with it the property.
  * clocks agree, and two root events are not signed within one second (`Orderly`), as
    `created_at` has seconds: with equal ones a relay may keep the old event.
* The inductive invariant is `SeesInv`.  `OneNewest`: some set of relays that a root event
  reached holds nothing but the newest event, the only one of its time, so that every
  fetch finds it (`FetchesNewest`); `Older`: it is older than what will be signed next.
  `RunSees`: what a run has read is still what a client sees; `fresh` is exactly what the
  loop has entered so far; and a signed event holds what the register would after the
  update.  The last is preserved because nobody else sends (`OneAtATime`).

### `HashtreeReadProofs`
* `ReadsSucceed` (`ReadSucceeds`), for any number of servers and uploads that each reach any of
  them or fail: `Ahead` says that every published root and every node the reader has still
  to fetch is on a server, and, unless a server has withheld it, on one that is still to be
  asked.  It rests on `ChildrenFirst`: a node that arrives brings links to stored nodes only.
* `ReadsBack` (`ReadBack`), for trees of any depth and width.  The invariant `BInv` speaks of
  a table `F` of what each node stands for, with `Flat(F, L)` what a list of links does:
  a node stands for what its links do; `next` and what is left of `level` together stand
  for the sorted entries, chunk by chunk and level by level; a published root for those it
  was built from; and what the reader has collected, followed by what its open links stand
  for, is what its root does.  A new node is a new row of the table, which changes nothing
  that was there (`FlatSame`), or an old row, for equal nodes stand for the same entries.
* Both have the hypothesis `OneHash(Nat)`: the payload a reader is given has no other hash
  in front of the root's.
* `SortedIsOne`: the entries have one sorted list: a permutation of them, in the order of names,
  stable where names are equal.  So the set `Sorted(I)`, from which `Begin` takes a list, stands
  for the one result of `sort_by`.
* These proofs use induction.  The library's induction theorems have an operator as parameter, which
  the provers cannot instantiate; `Induction` is stated for sets of numbers instead and derived from
  the well-foundedness of `<` on `Nat`.  `Flat` is not a recursive function but the end of a list of
  prefixes, each of which is the one before and one piece more.

### Model-checked only
Liveness (`RunEnds`, `UploadReturns`, `Resolves`, `CallReturns`, `CommandReturns`, `BuildEnds`,
`ReadEnds`), which the prover cannot treat under fairness and `ENABLED`.  All other properties
of passing runs are theorems.

## Where code and comments differ

1. *"atomic: abort if unreachable"* (`lib.rs` 76; also `nostr_fetch.rs` 40 "or Err on
   network/relay errors").  A relay that does not answer within 10 s contributes
   nothing and raises no error.  With none answering, the run takes the cache for
   new and replaces it; with an outdated one answering, it drops what was
   published since.  Run `publish_unreachable`.
2. *"only after all blobs are uploaded"* (`lib.rs` 354).  They are, but not to the
   servers the event advertises: it names those of this run, while kept
   entries were uploaded to those of earlier ones.  Run `publish_moved`.
3. *"all narinfo entries in the tree"* (`tree_reader.rs` 16).  The reader returns
   `nix-cache-info` as well, which `lib.rs` 322 pushes again.  Run `publish_entries`.
4. *"Re-mint when less than this much validity remains"* (`blossom.rs` 25).  A new
   token's life counts from before it is signed, and it is not checked after.  Run
   `upload_slow`.
5. *"verifies the user pubkey still matches (warns loudly on change)"* (`pair.rs` 157-158;
   also `session.rs` 23).  `paired` puts the stored key into the cell that
   `get_public_key` reads (`signer.rs` 185-190), so the comparison at `pair.rs` 223 is of
   the stored key with itself and no app is asked.  Run `pairing_unverified`.

Smaller ones, seen while modelling and without a run of their own:

* *"the derived public key is advertised ... so clients can add it"* (`README.md` 85-86): only
  the key of the last run is (`lib.rs` 355), also when older narinfos have another one.
* *"Replaces any stored pairing"* (`main.rs` 78): `pair` first loads the old file to log its
  user key (`pair.rs` 256), so a file that is truncated or group-readable makes it fail.
* *"only advertise relays that are up. Explicit requests are kept"* (`pair.rs` 283-284):
  `main.rs` 112 fills in the defaults before `pair_fresh` looks whether any were asked
  for (265), so under `pair` no default relay is ever left out.
* *"Relays come from CLI/defaults each run (never go stale in the file)"* (`signer.rs` 172):
  since relays are stored, `pair_via_qr` goes by those in the file (`pair.rs` 170).
* *"Tries each server in order, returns the first successful response"* (`blossom_fetch.rs` 26):
  an answer whose body breaks off ends the fetch (33); later servers are not asked.

## Limits

* Two publishers that overlap lose one's update: each replaces the other's event
  with a tree built on the one before.  Nothing in the protocol can detect
  this, so `AtomicUpdate` is checked with one publisher and proved for runs that do not
  overlap; what holds with any overlap is proved (`RootBacked`, `NodesServed`, `ClosedTrees`).
* A path is skipped by its name (`lib.rs` 190), also when this run's key or
  compression would make another narinfo.  The model does the same; no
  property forbids it.
* In `Publish` the levels of the hashtree are one blob; `Hashtree` has them one by one, but
  one publisher and one reader, and no other runs in between.  Sizes are left out.
* Encodings (narinfo text, NAR, xz and zstd, nhash, JSON and event tags) are
  represented by what determines their result.
* An entry of `pending` whose request was not sent, timed out or was cancelled stays
  unless a response comes (`signer.rs` 321 inserts, only 289 removes).  The model keeps
  it too; the properties hold with it, but the map grows with the failures.
* Callers that find no user key each ask for it; the first answer is kept.  The
  model does the same, and two callers may get two keys from a signer that
  changes its mind.
* Two processes that use one pairing file can undo each other's save: a reuse writes back
  the pairing it loaded before the refresh, also over a new one.  What is stored is then
  still a pairing its app knows (`StoredKnown`).
* A user key that a reuse looks up because none was stored is not saved (`pair.rs` 215); each
  later run asks again.
* `TransportMeets` promises the relays of the code.  A signer that has left all of them is
  found only if it is still on a relay it named before.

## Not modelled

* Argument parsing, logging, progress messages, the drawing of the QR code.
* The formats: narinfo text, NAR and its reference scan, xz and zstd, bech32, JSON, event
  tags, nix base 32.  They are pure functions, mostly of libraries; what matters of
  them here is which inputs determine the result (`CacheData`).
* `signing.rs` and `store_path.rs`: the parsing of a key file and the Ed25519 signature, and
  wrappers around a library.  They keep no state; a narinfo carries its key in the model.
* `build_directory_node` (`manifest.rs` 153), which only tests call, and the tests.
* The relay connections inside the Nostr library: reconnection and subscriptions are part of
  what a relay may lose or delay.

## Plan

What is left, in the order of its worth:

1. `Closure` with two entries of one hash part (a path and its lock file), where the map of
   `closure.rs` 83 keeps the last one read.
2. The composition of `Hashtree` with two publishers, whose trees share nodes while they are
   uploaded.
3. A measure that every step of a build, a read and a run of `resolve` decreases, as the
   part of their termination that is a safety property.
