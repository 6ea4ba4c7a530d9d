------------------------------- MODULE Pairing -------------------------------
(***************************************************************************)
(* Pairing with a signer app (nip46/pair.rs) and the pairing file          *)
(* (nip46/session.rs, secrets.rs): processes that pair or reuse the stored *)
(* pairing, the apps that scan their codes, and crashes at every point.    *)
(*                                                                         *)
(* The requests to the signer are those of BunkerSigner: each gets the     *)
(* signer's answer or fails, and none is answered unless the transport     *)
(* has a relay the signer listens on.                                      *)
(***************************************************************************)
EXTENDS Integers

CONSTANTS
  Procs,     \* processes that use one pairing file
  Signers,   \* signer apps, each under the key of its own
  Users,     \* identities a signer app may hold
  Relays,
  Defaults,  \* DEFAULT_HANDSHAKE_RELAYS
  Flags,     \* the sets of --bunker-relay that commands are started with
  Holder,    \* the identity each signer app holds at first
  None,      \* an empty user key, a signer not known yet
  MaxRuns,   \* bound on the commands started
  MaxActs    \* bound on what the users change meanwhile

ASSUME PairingAssumption ==
  /\ None \notin Signers \cup Users
  /\ Defaults \subseteq Relays /\ Defaults # {}
  /\ Flags \subseteq SUBSET Relays
  /\ Holder \in [Signers -> Users]
  /\ MaxRuns \in Nat /\ MaxActs \in Nat

VARIABLES
  file,       \* the pairing file, a set of at most one
  hurt,       \* a write of it was cut off, or met another one
  codes,      \* the QR codes shown so far: app key and relays
  links,      \* what the signer apps know: app key, and where they listen
  owner,      \* the identity each signer app holds
  owners,     \* those it has held so far
  runs,       \* commands started
  acts,       \* what the users have changed meanwhile
  lastApp,    \* app keys drawn so far: 1..lastApp
  pc,         \* where the command of p is
  asked,      \* requested_relays
  reuse,      \* p goes by a stored pairing
  mem,        \* the pairing in the hands of p
  transport,  \* the relays of its BunkerSigner
  result,     \* how its last command ended
  alone       \* no other command has overlapped that of p

appVars == <<codes, links, owner, owners, acts, lastApp>>
procVars == <<pc, asked, reuse, mem, transport, result, alone>>
vars == <<file, hurt, runs, appVars, procVars>>

Pairings == [app : Nat, bunker : Signers \cup {None},
             user : Users \cup {None}, relays : SUBSET Relays]
Blank == [app |-> 0, bunker |-> None, user |-> None, relays |-> {}]

(* whole: the JSON is complete; open: the mode has group or world bits.    *)
Files == [data : Pairings, whole : BOOLEAN, open : BOOLEAN]

Steps == {"idle", "load", "replace", "check", "await", "lookup", "steer",
          "refresh", "save", "write", "lock", "verify"}
Ends == {"none", "ok", "warned", "err"}

TypeOK ==
  /\ file \in SUBSET Files /\ \A f, g \in file : f = g
  /\ hurt \in BOOLEAN
  /\ codes \in SUBSET [app : Nat, relays : SUBSET Relays]
  /\ links \in SUBSET [app : Nat, signer : Signers, relays : SUBSET Relays]
  /\ owner \in [Signers -> Users]
  /\ owners \in [Signers -> SUBSET Users]
  /\ runs \in 0..MaxRuns /\ acts \in 0..MaxActs /\ lastApp \in Nat
  /\ pc \in [Procs -> Steps]
  /\ asked \in [Procs -> SUBSET Relays]
  /\ reuse \in [Procs -> BOOLEAN]
  /\ mem \in [Procs -> Pairings]
  /\ transport \in [Procs -> SUBSET Relays]
  /\ result \in [Procs -> Ends]
  /\ alone \in [Procs -> BOOLEAN]

-----------------------------------------------------------------------------
(* resolve_handshake_relays                                                *)
Resolve(R) == IF R = {} THEN Defaults ELSE R

(* There is no file; or one written before it had relays and user key.     *)
Init ==
  /\ owner = Holder
  /\ owners = [s \in Signers |-> {owner[s]}]
  /\ \/ file = {} /\ links = {} /\ lastApp = 0
     \/ \E s \in Signers, R \in Flags :
          /\ file = {[data |-> [Blank EXCEPT !.app = 1, !.bunker = s],
                      whole |-> TRUE, open |-> FALSE]}
          /\ links = {[app |-> 1, signer |-> s, relays |-> Resolve(R)]}
          /\ lastApp = 1
  /\ hurt = FALSE /\ codes = {} /\ runs = 0 /\ acts = 0
  /\ pc = [p \in Procs |-> "idle"]
  /\ asked = [p \in Procs |-> {}]
  /\ reuse = [p \in Procs |-> FALSE]
  /\ mem = [p \in Procs |-> Blank]
  /\ transport = [p \in Procs |-> {}]
  /\ result = [p \in Procs |-> "none"]
  /\ alone = [p \in Procs |-> FALSE]

Goto(p, s) ==
  pc' = [pc EXCEPT ![p] = s] /\ UNCHANGED <<asked, result, alone>>

Finish(p, res) ==
  /\ pc' = [pc EXCEPT ![p] = "idle"]
  /\ asked' = [asked EXCEPT ![p] = {}]
  /\ reuse' = [reuse EXCEPT ![p] = FALSE]
  /\ mem' = [mem EXCEPT ![p] = Blank]
  /\ transport' = [transport EXCEPT ![p] = {}]
  /\ result' = [result EXCEPT ![p] = res]
  /\ alone' = [alone EXCEPT ![p] = FALSE]

(* pair, or publish --qr, with --bunker-relay R; main resolves the         *)
(* defaults of pair.                                                       *)
Start(p, o, R) ==
  /\ pc[p] = "idle" /\ runs < MaxRuns
  /\ runs' = runs + 1
  /\ pc' = [pc EXCEPT ![p] = IF o = "pair" THEN "replace" ELSE "load"]
  /\ asked' = [asked EXCEPT ![p] = IF o = "pair" THEN Resolve(R) ELSE R]
  /\ result' = [result EXCEPT ![p] = "none"]
  /\ alone' = [q \in Procs |->
                 IF q = p THEN \A r \in Procs \ {p} : pc[r] = "idle" ELSE FALSE]
  /\ UNCHANGED <<file, hurt, appVars, reuse, mem, transport>>

-----------------------------------------------------------------------------
(* A stored pairing (pair_via_qr).                                         *)

Usable(f) == f.whole /\ ~f.open

(* Mutant: a reuse goes by the relays it would pair over.                  *)
ContactDefaults(f, R) == Resolve(R)

(* The relays of a reuse: the stored ones and those asked for.             *)
Contact(f, R) == Resolve(f.data.relays \cup R)

(* load_pairing finds no file, one that it refuses, or a stored pairing.   *)
Load(p) ==
  /\ pc[p] = "load"
  /\ \/ /\ file = {}
        /\ Goto(p, "replace")
        /\ UNCHANGED <<reuse, mem, transport>>
     \/ /\ \E f \in file : ~Usable(f)
        /\ Finish(p, "err")
     \/ /\ \E f \in file :
             /\ Usable(f)
             /\ mem' = [mem EXCEPT ![p] = f.data]
             /\ transport' = [transport EXCEPT ![p] = Contact(f, asked[p])]
        /\ reuse' = [reuse EXCEPT ![p] = TRUE]
        /\ Goto(p, "refresh")
  /\ UNCHANGED <<file, hurt, runs, appVars>>

(* The signer apps that can take a request of p.                           *)
Listeners(p) ==
  {l \in links : /\ l.app = mem[p].app /\ l.signer = mem[p].bunker
                 /\ l.relays \cap transport[p] # {}}

(* Mutant: the relays the signer names take the place of the stored ones.  *)
RefreshReplaces(p) ==
  /\ pc[p] = "refresh"
  /\ \E l \in Listeners(p) :
       /\ mem' = [mem EXCEPT ![p].relays = l.relays]
       /\ transport' = [transport EXCEPT ![p] = @ \cup l.relays]
       /\ Goto(p, IF l.relays = mem[p].relays THEN "verify" ELSE "save")
  /\ UNCHANGED <<file, hurt, runs, appVars, reuse>>

(* refresh_relays within 5 s, add_relays: the relays the signer names are  *)
(* added, and saved if there is a new one; or there is no answer.          *)
Refresh(p) ==
  /\ pc[p] = "refresh"
  /\ \/ \E l \in Listeners(p) :
          /\ mem' = [mem EXCEPT ![p].relays = @ \cup l.relays]
          /\ transport' = [transport EXCEPT ![p] = @ \cup l.relays]
          /\ Goto(p, IF l.relays \subseteq mem[p].relays THEN "verify"
                                                         ELSE "save")
     \/ Goto(p, "verify") /\ UNCHANGED <<mem, transport>>
  /\ UNCHANGED <<file, hurt, runs, appVars, reuse>>

(* get_public_key of a signer made by paired(), which holds the stored     *)
(* user key, if any: only without one is the app asked.                    *)
PublicKey(p) ==
  IF mem[p].user # None THEN {mem[p].user}
                        ELSE {owner[l.signer] : l \in Listeners(p)} \cup {None}

(* The user key is looked up when none is stored, else compared.           *)
Verify(p) ==
  /\ pc[p] = "verify"
  /\ \E u \in PublicKey(p) :
       Finish(p, IF mem[p].user = None \/ u = mem[p].user THEN "ok"
                 ELSE IF u = None THEN "err" ELSE "warned")
  /\ UNCHANGED <<file, hurt, runs, appVars>>

-----------------------------------------------------------------------------
(* The ceremony (pair_fresh).                                              *)

(* load_pairing once more: a file that it refuses ends the ceremony, one   *)
(* with a pairing is to be replaced.                                       *)
Replace(p) ==
  /\ pc[p] = "replace"
  /\ IF \A f \in file : Usable(f)
     THEN Goto(p, "check") /\ UNCHANGED <<reuse, mem, transport>>
     ELSE Finish(p, "err")
  /\ UNCHANGED <<file, hurt, runs, appVars>>

(* The relays of the code: those in up, unless none is or they were asked  *)
(* for.                                                                    *)
Effective(p, up) ==
  IF asked[p] = {} /\ up # {} THEN up ELSE Resolve(asked[p])

(* The relays that connect, the subscription, a new app key, the QR code.  *)
CheckRelays(p) ==
  /\ pc[p] = "check"
  /\ \/ \E up \in SUBSET Resolve(asked[p]) :
          LET R == Effective(p, up) IN
          /\ lastApp' = lastApp + 1
          /\ codes' = codes \cup {[app |-> lastApp + 1, relays |-> R]}
          /\ mem' = [mem EXCEPT ![p].app = lastApp + 1, ![p].relays = R]
          /\ Goto(p, "await")
          /\ UNCHANGED <<links, owner, owners, acts, reuse, transport>>
     \/ Finish(p, "err") /\ UNCHANGED appVars
  /\ UNCHANGED <<file, hurt, runs>>

(* A signer app scans a code, while it is shown or later.                  *)
Scan(s, c) ==
  /\ \A l \in links : l.app # c.app \/ l.signer # s
  /\ links' = links \cup {[app |-> c.app, signer |-> s, relays |-> c.relays]}
  /\ UNCHANGED <<file, hurt, runs, codes, owner, owners, acts, lastApp,
                 procVars>>

(* Mutants: a response to any code will do; no time-out.                   *)
AwaitAny(p) ==
  /\ pc[p] = "await"
  /\ \E l \in links :
       /\ mem' = [mem EXCEPT ![p].bunker = l.signer]
       /\ transport' = [transport EXCEPT ![p] = mem[p].relays]
       /\ Goto(p, "lookup")
  /\ UNCHANGED <<file, hurt, runs, appVars, reuse>>

AwaitForever(p) ==
  /\ pc[p] = "await"
  /\ \E l \in links :
       /\ l.app = mem[p].app
       /\ mem' = [mem EXCEPT ![p].bunker = l.signer]
       /\ transport' = [transport EXCEPT ![p] = mem[p].relays]
       /\ Goto(p, "lookup")
  /\ UNCHANGED <<file, hurt, runs, appVars, reuse>>

(* await_connect_response: the first app to echo the secret, other events  *)
(* being passed over, or the end of PAIRING_TIMEOUT.                       *)
Await(p) ==
  /\ pc[p] = "await"
  /\ \/ \E l \in links :
          /\ l.app = mem[p].app
          /\ mem' = [mem EXCEPT ![p].bunker = l.signer]
          /\ transport' = [transport EXCEPT ![p] = mem[p].relays]
          /\ Goto(p, "lookup")
          /\ UNCHANGED reuse
     \/ Finish(p, "err")
  /\ UNCHANGED <<file, hurt, runs, appVars>>

(* user_public_key within VERIFY_TIMEOUT; without an answer it stays empty.*)
Lookup(p) ==
  /\ pc[p] = "lookup"
  /\ \E u \in {owner[l.signer] : l \in Listeners(p)} \cup {None} :
       mem' = [mem EXCEPT ![p].user = u]
  /\ Goto(p, "steer")
  /\ UNCHANGED <<file, hurt, runs, appVars, reuse, transport>>

(* refresh_relays, add_relays.                                             *)
Steer(p) ==
  /\ pc[p] = "steer"
  /\ \E R \in {l.relays : l \in Listeners(p)} \cup {{}} :
       /\ mem' = [mem EXCEPT ![p].relays = @ \cup R]
       /\ transport' = [transport EXCEPT ![p] = @ \cup R]
  /\ Goto(p, "save")
  /\ UNCHANGED <<file, hurt, runs, appVars, reuse>>

-----------------------------------------------------------------------------
(* save_pairing: write_secret_file.                                        *)

(* What follows a save: a ceremony ends, a reuse goes on in any case.      *)
Saved(p, ok) ==
  IF reuse[p]
  THEN Goto(p, "verify") /\ UNCHANGED <<reuse, mem, transport>>
  ELSE Finish(p, IF ok THEN "ok" ELSE "err")

(* Mutant: a second file beside the first one.                             *)
TruncateBeside(p) ==
  /\ pc[p] = "save"
  /\ file' = file \cup {[data |-> mem[p], whole |-> FALSE, open |-> TRUE]}
  /\ Goto(p, "write")
  /\ UNCHANGED <<hurt, runs, appVars, reuse, mem, transport>>

(* The file is opened and truncated, a new one with the mode of the umask. *)
Truncate(p) ==
  /\ pc[p] = "save"
  /\ \/ /\ \E b \in BOOLEAN :
             /\ \A f \in file : b = f.open
             /\ file' = {[data |-> mem[p], whole |-> FALSE, open |-> b]}
        /\ Goto(p, "write")
        /\ UNCHANGED <<reuse, mem, transport>>
     \/ Saved(p, FALSE) /\ UNCHANGED file
  /\ UNCHANGED <<hurt, runs, appVars>>

(* Mutants: a failed write is not noticed; the mode is left as it is.      *)
WriteUnchecked(p) ==
  /\ pc[p] = "write"
  /\ \E ok \in BOOLEAN :
       file' = {[f EXCEPT !.data = mem[p], !.whole = ok] : f \in file}
  /\ Goto(p, "lock")
  /\ UNCHANGED <<hurt, runs, appVars, reuse, mem, transport>>

WriteLast(p) ==
  /\ pc[p] = "write"
  /\ file' = {[f EXCEPT !.data = mem[p], !.whole = TRUE] : f \in file}
  /\ Saved(p, TRUE)
  /\ UNCHANGED <<hurt, runs, appVars>>

(* A write that is cut off has changed nothing yet, or has spoiled the text*)
(* that another process has completed meanwhile.                           *)
CutOff ==
  \E spoiled \in BOOLEAN :
    file' = {[f EXCEPT !.whole = @ /\ ~spoiled] : f \in file}

(* The bytes are written; over those of another process they may leave a   *)
(* tail of it.  Or the write fails.                                        *)
Write(p) ==
  LET met == \E f \in file : f.data # mem[p] IN
  /\ pc[p] = "write"
  /\ \/ /\ \E w \in {TRUE, ~met} :
             file' = {[f EXCEPT !.data = mem[p], !.whole = w] : f \in file}
        /\ hurt' = (hurt \/ met)
        /\ Goto(p, "lock")
        /\ UNCHANGED <<reuse, mem, transport>>
     \/ /\ hurt' = TRUE
        /\ Saved(p, FALSE)
        /\ CutOff
  /\ UNCHANGED <<runs, appVars>>

(* The mode is set to 0600, by the name of the file.                       *)
Lock(p) ==
  /\ pc[p] = "lock"
  /\ \/ /\ file # {}
        /\ file' = {[f EXCEPT !.open = FALSE] : f \in file}
        /\ Saved(p, TRUE)
        /\ UNCHANGED hurt
     \/ /\ hurt' = (hurt \/ file # {})
        /\ Saved(p, FALSE)
        /\ UNCHANGED file
  /\ UNCHANGED <<runs, appVars>>

-----------------------------------------------------------------------------
(* The process dies; a write that it had begun is cut off.                 *)
Crash(p) ==
  /\ pc[p] # "idle"
  /\ IF pc[p] = "write" THEN CutOff ELSE UNCHANGED file
  /\ hurt' = (hurt \/ pc[p] \in {"write", "lock"})
  /\ Finish(p, "none")
  /\ UNCHANGED <<runs, appVars>>

(* The user deletes the file, as the messages say, at any time but while a *)
(* process has it open for writing.                                        *)
Delete ==
  /\ file # {} /\ \A p \in Procs : pc[p] # "write"
  /\ acts < MaxActs /\ acts' = acts + 1
  /\ file' = {}
  /\ UNCHANGED <<hurt, runs, codes, links, owner, owners, lastApp, procVars>>

(* A signer app moves to other relays.                                     *)
Move(l) ==
  /\ acts < MaxActs /\ acts' = acts + 1
  /\ \E R \in SUBSET Relays :
       /\ R # {}
       /\ links' = (links \ {l}) \cup {[l EXCEPT !.relays = R]}
  /\ UNCHANGED <<file, hurt, runs, codes, owner, owners, lastApp, procVars>>

(* A signer app is given another identity.                                 *)
Switch(s) ==
  /\ acts < MaxActs /\ acts' = acts + 1
  /\ \E u \in Users :
       /\ owner' = [owner EXCEPT ![s] = u]
       /\ owners' = [owners EXCEPT ![s] = @ \cup {u}]
  /\ UNCHANGED <<file, hurt, runs, codes, links, lastApp, procVars>>

Run(p) ==
  \/ Load(p) \/ Replace(p) \/ Refresh(p) \/ Verify(p)
  \/ CheckRelays(p) \/ Await(p) \/ Lookup(p) \/ Steer(p)
  \/ Truncate(p) \/ Write(p) \/ Lock(p)

Next ==
  \/ \E p \in Procs :
       \/ \E o \in {"pair", "qr"}, R \in Flags : Start(p, o, R)
       \/ Run(p) \/ Crash(p)
  \/ \E s \in Signers : Switch(s) \/ \E c \in codes : Scan(s, c)
  \/ \E l \in links : Move(l)
  \/ Delete

Spec == Init /\ [][Next]_vars

(* Every wait of a command has a time-out; nobody need scan or answer.     *)
FairSpec == Spec /\ \A p \in Procs : WF_vars(Run(p))

-----------------------------------------------------------------------------
(* A pairing on disk, even half of one, is one that its signer app knows,  *)
(* with the relays of the code which that app scanned, and a user key that *)
(* the app has held: whatever crashes, overlaps, or answers late.          *)
StoredKnown ==
  \A f \in file :
    /\ \E l \in links : l.app = f.data.app /\ l.signer = f.data.bunker
    /\ \A c \in codes : c.app = f.data.app => c.relays \subseteq f.data.relays
    /\ f.data.user \in owners[f.data.bunker] \cup {None}

(* Requests go, among others, to the relays of the code, also in a run     *)
(* that was started with others, so that a signer that stays is found.     *)
TransportMeets ==
  \A p \in Procs : \A c \in codes :
    mem[p].bunker # None /\ c.app = mem[p].app => c.relays \subseteq transport[p]

(* A file is left unusable only by a write that was cut off or met another.*)
DamageExplained ==
  \A f \in file :
    ~Usable(f) => hurt \/ \E p \in Procs : pc[p] \in {"write", "lock"}

(* A ceremony that reports success, with no other command around, has left *)
(* its pairing where the next run reuses it.                               *)
OkMeansStored ==
  [][\A p \in Procs :
       pc[p] # "idle" /\ ~reuse[p] /\ alone[p] /\ result'[p] = "ok" =>
         file' = {[data |-> mem[p], whole |-> TRUE, open |-> FALSE]}]_vars

(* What a run saves that was alone with the file differs from what was     *)
(* there by new relays only.                                               *)
RefreshKeeps ==
  [][\A p \in Procs : \A f \in file, g \in file' :
       reuse[p] /\ alone[p] /\ f # g =>
         /\ g.data = [f.data EXCEPT !.relays = g.data.relays]
         /\ f.data.relays \subseteq g.data.relays]_vars

(* Every command comes to an end, whoever scans, answers or fails.         *)
CommandReturns == \A p \in Procs : pc[p] # "idle" ~> pc[p] = "idle"

-----------------------------------------------------------------------------
(* "verifies the user pubkey still matches (warns loudly on change)": a    *)
(* reuse that ends without a warning has the user key of the signer app.   *)
UserVerified ==
  [][\A p \in Procs :
       pc[p] = "verify" /\ mem[p].user # None /\ result'[p] = "ok" =>
         mem[p].user = owner[mem[p].bunker]]_vars
=============================================================================
