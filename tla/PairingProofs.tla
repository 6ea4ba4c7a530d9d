---------------------------- MODULE PairingProofs ----------------------------
(***************************************************************************)
(* Safety of the pairing file, for any number of processes, apps and runs. *)
(***************************************************************************)
EXTENDS Pairing, TLAPS

-----------------------------------------------------------------------------
(* Type correctness.                                                       *)

LEMMA ResolveType ==
  ASSUME NEW R \in SUBSET Relays
  PROVE  Resolve(R) \in SUBSET Relays
BY PairingAssumption DEF Resolve

LEMMA BlankType == Blank \in Pairings
BY DEF Blank, Pairings

LEMMA LinkType ==
  ASSUME TypeOK, NEW l \in links
  PROVE  l.app \in Nat /\ l.signer \in Signers /\ l.relays \in SUBSET Relays
BY DEF TypeOK

LEMMA InitType == Init => TypeOK
<1> SUFFICES ASSUME Init PROVE TypeOK
  OBVIOUS
<1> USE PairingAssumption
<1>1. owner \in [Signers -> Users] /\ owners \in [Signers -> SUBSET Users]
  <2>1. owner = Holder /\ owners = [s \in Signers |-> {owner[s]}]
    BY DEF Init
  <2>2. Holder \in [Signers -> Users]
    BY PairingAssumption
  <2> HIDE PairingAssumption
  <2> QED
    BY <2>1, <2>2
<1>2. /\ file \in SUBSET Files /\ \A f, g \in file : f = g
      /\ links \in SUBSET [app : Nat, signer : Signers, relays : SUBSET Relays]
      /\ lastApp \in Nat
  <2>1. CASE file = {} /\ links = {} /\ lastApp = 0
    BY <2>1
  <2>2. ASSUME NEW s \in Signers, NEW R \in Flags,
               file = {[data |-> [Blank EXCEPT !.app = 1, !.bunker = s],
                        whole |-> TRUE, open |-> FALSE]},
               links = {[app |-> 1, signer |-> s, relays |-> Resolve(R)]},
               lastApp = 1
        PROVE  /\ file \in SUBSET Files /\ \A f, g \in file : f = g
               /\ links \in SUBSET [app : Nat, signer : Signers,
                                   relays : SUBSET Relays]
               /\ lastApp \in Nat
    <3>1. Resolve(R) \in SUBSET Relays
      BY ResolveType
    <3>2. [Blank EXCEPT !.app = 1, !.bunker = s] \in Pairings
      BY DEF Blank, Pairings
    <3> QED
      BY <2>2, <3>1, <3>2 DEF Files
  <2> QED
    BY <2>1, <2>2 DEF Init
<1>3. mem \in [Procs -> Pairings]
  BY BlankType DEF Init
<1>4. /\ hurt \in BOOLEAN /\ codes = {} /\ runs \in 0..MaxRuns
      /\ acts \in 0..MaxActs
  <2>1. hurt = FALSE /\ codes = {} /\ runs = 0 /\ acts = 0
    BY DEF Init
  <2>2. MaxRuns \in Nat /\ MaxActs \in Nat
    BY PairingAssumption
  <2> HIDE PairingAssumption
  <2>3. hurt \in BOOLEAN
    BY <2>1
  <2>4. runs \in 0..MaxRuns /\ acts \in 0..MaxActs
    BY <2>1, <2>2
  <2> QED
    BY <2>1, <2>3, <2>4
<1> QED
  BY <1>1, <1>2, <1>3, <1>4 DEF Init, TypeOK, Steps, Ends

(* The variables of the processes, apart from the rest.                    *)
ProcType ==
  /\ pc \in [Procs -> Steps]
  /\ asked \in [Procs -> SUBSET Relays]
  /\ reuse \in [Procs -> BOOLEAN]
  /\ mem \in [Procs -> Pairings]
  /\ transport \in [Procs -> SUBSET Relays]
  /\ result \in [Procs -> Ends]
  /\ alone \in [Procs -> BOOLEAN]

FileType == file \in SUBSET Files /\ \A f, g \in file : f = g

WorldType ==
  /\ codes \in SUBSET [app : Nat, relays : SUBSET Relays]
  /\ links \in SUBSET [app : Nat, signer : Signers, relays : SUBSET Relays]
  /\ owner \in [Signers -> Users]
  /\ owners \in [Signers -> SUBSET Users]
  /\ acts \in 0..MaxActs /\ lastApp \in Nat

LEMMA TypeParts ==
  /\ TypeOK <=> /\ ProcType /\ FileType /\ WorldType
                /\ hurt \in BOOLEAN /\ runs \in 0..MaxRuns
  /\ TypeOK' <=> /\ ProcType' /\ FileType' /\ WorldType'
                 /\ hurt' \in BOOLEAN /\ runs' \in 0..MaxRuns
BY DEF TypeOK, ProcType, FileType, WorldType

LEMMA FinishType ==
  ASSUME ProcType, NEW p \in Procs, NEW res \in Ends, Finish(p, res)
  PROVE  ProcType'
BY BlankType DEF ProcType, Finish, Steps

LEMMA GotoType ==
  ASSUME ProcType, NEW p \in Procs, NEW s \in Steps, Goto(p, s),
         reuse' \in [Procs -> BOOLEAN], mem' \in [Procs -> Pairings],
         transport' \in [Procs -> SUBSET Relays]
  PROVE  ProcType'
BY DEF ProcType, Goto

LEMMA SavedType ==
  ASSUME ProcType, NEW p \in Procs, NEW ok \in BOOLEAN, Saved(p, ok)
  PROVE  ProcType'
<1>1. CASE reuse[p]
  <2>1. "verify" \in Steps
    BY DEF Steps
  <2> QED
    BY <1>1, <2>1, GotoType DEF Saved, ProcType
<1>2. CASE ~reuse[p]
  <2>1. (IF ok THEN "ok" ELSE "err") \in Ends
    BY DEF Ends
  <2> QED
    BY <1>2, <2>1, FinishType DEF Saved
<1> QED
  BY <1>1, <1>2

(* A write that is cut off leaves the data of the file as they were.       *)
LEMMA CutOffKeeps ==
  ASSUME FileType, CutOff
  PROVE  FileType' /\ \A g \in file' : \E f \in file : g.data = f.data
<1>1. PICK c \in BOOLEAN : file' = {[f EXCEPT !.whole = @ /\ ~c] : f \in file}
  BY DEF CutOff
<1>2. \A f \in Files : /\ [f EXCEPT !.whole = @ /\ ~c] \in Files
                       /\ [f EXCEPT !.whole = @ /\ ~c].data = f.data
  BY DEF Files
<1>3. \A g \in file' : \E f \in file : /\ f \in Files
                                     /\ g = [f EXCEPT !.whole = @ /\ ~c]
  BY <1>1 DEF FileType
<1>4. file' \in SUBSET Files /\ \A g \in file' : \E f \in file : g.data = f.data
  <2>1. ASSUME NEW g \in file' PROVE g \in Files /\ \E f \in file : g.data = f.data
    <3>1. PICK f \in file : f \in Files /\ g = [f EXCEPT !.whole = @ /\ ~c]
      BY <1>3
    <3>2. g \in Files /\ g.data = f.data
      BY <1>2, <3>1, Zenon
    <3> QED
      BY <3>2
  <2> QED
    BY <2>1
<1>5. \A g, h \in file' : g = h
  BY <1>3 DEF FileType
<1> QED
  BY <1>4, <1>5 DEF FileType

LEMMA TypeStep == TypeOK /\ [Next]_vars => TypeOK'
<1> SUFFICES ASSUME TypeOK, [Next]_vars PROVE TypeOK'
  OBVIOUS
<1> USE PairingAssumption
<1>0. ProcType /\ FileType /\ WorldType /\ hurt \in BOOLEAN /\ runs \in 0..MaxRuns
  BY TypeParts
<1>w. ASSUME UNCHANGED appVars PROVE WorldType'
  BY <1>0, <1>w DEF WorldType, appVars
<1>f. ASSUME UNCHANGED file PROVE FileType'
  BY <1>0, <1>f DEF FileType
<1>p. ASSUME UNCHANGED procVars PROVE ProcType'
  BY <1>0, <1>p DEF ProcType, procVars
<1>1. ASSUME NEW p \in Procs, NEW o \in {"pair", "qr"}, NEW R \in Flags,
             Start(p, o, R)
      PROVE  TypeOK'
  <2>1. (IF o = "pair" THEN Resolve(R) ELSE R) \in SUBSET Relays
    BY ResolveType
  <2>2. ProcType'
    BY <1>0, <1>1, <2>1 DEF ProcType, Start, Steps, Ends
  <2> QED
    BY <1>0, <1>1, <1>w, <1>f, <2>2, TypeParts DEF Start
<1>2. ASSUME NEW p \in Procs, Load(p) PROVE TypeOK'
  <2>1. /\ "replace" \in Steps /\ "refresh" \in Steps /\ "err" \in Ends
    BY DEF Steps, Ends
  <2>2. CASE Goto(p, "replace") /\ UNCHANGED <<reuse, mem, transport>>
    BY <1>0, <2>1, <2>2, <1>2, <1>w, <1>f, GotoType, TypeParts DEF Load, ProcType
  <2>3. CASE Finish(p, "err")
    BY <1>0, <2>1, <2>3, <1>2, <1>w, <1>f, FinishType, TypeParts DEF Load
  <2>4. ASSUME NEW f \in file, mem' = [mem EXCEPT ![p] = f.data],
               transport' = [transport EXCEPT ![p] = Contact(f, asked[p])],
               reuse' = [reuse EXCEPT ![p] = TRUE], Goto(p, "refresh")
        PROVE  TypeOK'
    <3>1. f.data \in Pairings
      BY <1>0 DEF FileType, Files
    <3>2. Contact(f, asked[p]) \in SUBSET Relays
      <4>1. f.data.relays \cup asked[p] \in SUBSET Relays
        BY <1>0, <3>1 DEF ProcType, Pairings
      <4> QED
        BY <4>1, ResolveType DEF Contact
    <3>3. ProcType'
      BY <1>0, <2>1, <2>4, <3>1, <3>2, GotoType DEF ProcType
    <3> QED
      BY <1>0, <1>2, <1>w, <1>f, <3>3, TypeParts DEF Load
  <2> QED
    BY <1>2, <2>2, <2>3, <2>4 DEF Load
<1>3. ASSUME NEW p \in Procs, NEW R \in SUBSET Relays, NEW s \in Steps,
             Goto(p, s),
             mem' = [mem EXCEPT ![p].relays = @ \cup R],
             transport' = [transport EXCEPT ![p] = @ \cup R],
             UNCHANGED <<file, hurt, runs, appVars, reuse>>
      PROVE  TypeOK'
  <2>1. mem' \in [Procs -> Pairings]
    BY <1>0, <1>3 DEF ProcType, Pairings
  <2>2. ProcType'
    BY <1>0, <1>3, <2>1, GotoType DEF ProcType
  <2> QED
    BY <1>0, <1>3, <1>w, <1>f, <2>2, TypeParts
<1>4. ASSUME NEW p \in Procs, Refresh(p) PROVE TypeOK'
  <2>1. {"verify", "save"} \subseteq Steps
    BY DEF Steps
  <2>2. ASSUME NEW l \in Listeners(p),
               mem' = [mem EXCEPT ![p].relays = @ \cup l.relays],
               transport' = [transport EXCEPT ![p] = @ \cup l.relays],
               Goto(p, IF l.relays \subseteq mem[p].relays THEN "verify" ELSE "save")
        PROVE  TypeOK'
    <3>1. l.relays \in SUBSET Relays
      BY LinkType DEF Listeners
    <3>2. (IF l.relays \subseteq mem[p].relays THEN "verify" ELSE "save") \in Steps
      BY <2>1
    <3> QED
      BY <1>3, <1>4, <2>2, <3>1, <3>2 DEF Refresh
  <2>3. CASE Goto(p, "verify") /\ UNCHANGED <<mem, transport>>
    BY <1>0, <1>4, <2>1, <2>3, <1>w, <1>f, GotoType, TypeParts DEF Refresh, ProcType
  <2> QED
    BY <1>4, <2>2, <2>3 DEF Refresh
<1>5. ASSUME NEW p \in Procs, NEW res \in Ends, Finish(p, res),
             UNCHANGED <<file, runs, appVars>>, hurt' \in BOOLEAN
      PROVE  TypeOK'
  BY <1>0, <1>5, <1>w, <1>f, FinishType, TypeParts
<1>20. ASSUME NEW p \in Procs, Replace(p) PROVE TypeOK'
  <2>1. CASE Goto(p, "check") /\ UNCHANGED <<reuse, mem, transport>>
    <3>1. "check" \in Steps
      BY DEF Steps
    <3> QED
      BY <1>0, <2>1, <3>1, <1>20, <1>w, <1>f, GotoType, TypeParts DEF Replace, ProcType
  <2>2. CASE Finish(p, "err")
    BY <1>0, <1>5, <1>20, <2>2 DEF Replace, Ends
  <2> QED
    BY <1>20, <2>1, <2>2 DEF Replace
<1>6. ASSUME NEW p \in Procs, Verify(p) PROVE TypeOK'
  <2>1. {"ok", "err", "warned"} \subseteq Ends
    BY DEF Ends
  <2>2. PICK u \in PublicKey(p) :
          Finish(p, IF mem[p].user = None \/ u = mem[p].user THEN "ok"
                    ELSE IF u = None THEN "err" ELSE "warned")
    BY <1>6 DEF Verify
  <2>3. (IF mem[p].user = None \/ u = mem[p].user THEN "ok"
         ELSE IF u = None THEN "err" ELSE "warned") \in Ends
    BY <2>1
  <2> QED
    BY <1>0, <1>5, <1>6, <2>2, <2>3 DEF Verify
<1>7. ASSUME NEW p \in Procs, CheckRelays(p) PROVE TypeOK'
  <2>1. ASSUME NEW up \in SUBSET Resolve(asked[p]), NEW R, R = Effective(p, up),
               lastApp' = lastApp + 1,
               codes' = codes \cup {[app |-> lastApp + 1, relays |-> R]},
               mem' = [mem EXCEPT ![p].app = lastApp + 1, ![p].relays = R],
               Goto(p, "await"),
               UNCHANGED <<links, owner, owners, acts, reuse, transport>>
        PROVE  TypeOK'
    <3>1. R \in SUBSET Relays
      <4>1. Resolve(asked[p]) \in SUBSET Relays
        BY <1>0, ResolveType DEF ProcType
      <4> QED
        BY <2>1, <4>1 DEF Effective
    <3>2. WorldType'
      BY <1>0, <2>1, <3>1 DEF WorldType
    <3>3. mem' \in [Procs -> Pairings] /\ "await" \in Steps
      <4>1. mem \in [Procs -> Pairings] /\ lastApp + 1 \in Nat /\ mem[p] \in Pairings
        BY <1>0 DEF ProcType, WorldType
      <4>a. \A m \in Pairings, n \in Nat, Q \in SUBSET Relays :
              [m EXCEPT !.app = n, !.relays = Q] \in Pairings
        BY DEF Pairings
      <4>2. [mem[p] EXCEPT !.app = lastApp + 1, !.relays = R] \in Pairings
        BY <3>1, <4>1, <4>a
      <4>3. mem' = [mem EXCEPT ![p] = [mem[p] EXCEPT !.app = lastApp + 1,
                                                    !.relays = R]]
        BY <2>1, <4>1 DEF Pairings
      <4> QED
        BY <4>1, <4>2, <4>3 DEF Steps
    <3>4. ProcType'
      BY <1>0, <2>1, <3>3, GotoType DEF ProcType
    <3> QED
      BY <1>0, <1>7, <1>f, <3>2, <3>4, TypeParts DEF CheckRelays
  <2>2. CASE Finish(p, "err") /\ UNCHANGED appVars
    BY <1>0, <1>5, <1>7, <2>2 DEF CheckRelays, Ends
  <2> QED
    BY <1>7, <2>1, <2>2 DEF CheckRelays
<1>8. ASSUME NEW p \in Procs, Await(p) PROVE TypeOK'
  <2>1. ASSUME NEW l \in links,
               mem' = [mem EXCEPT ![p].bunker = l.signer],
               transport' = [transport EXCEPT ![p] = mem[p].relays],
               Goto(p, "lookup"), UNCHANGED reuse
        PROVE  TypeOK'
    <3>1. mem' \in [Procs -> Pairings]
      <4>1. mem \in [Procs -> Pairings] /\ l.signer \in Signers
        BY <1>0, LinkType DEF ProcType
      <4>2. \A m \in Pairings : [m EXCEPT !.bunker = l.signer] \in Pairings
        BY <4>1 DEF Pairings
      <4> QED
        BY <2>1, <4>1, <4>2
    <3>2. transport' \in [Procs -> SUBSET Relays] /\ "lookup" \in Steps
      BY <1>0, <2>1 DEF ProcType, Pairings, Steps
    <3>3. ProcType'
      BY <1>0, <2>1, <3>1, <3>2, GotoType DEF ProcType
    <3> QED
      BY <1>0, <1>8, <1>w, <1>f, <3>3, TypeParts DEF Await
  <2>2. CASE Finish(p, "err")
    BY <1>0, <1>5, <1>8, <2>2 DEF Await, Ends
  <2> QED
    BY <1>8, <2>1, <2>2 DEF Await
<1>9. ASSUME NEW p \in Procs, Lookup(p) PROVE TypeOK'
  <2>1. PICK u \in {owner[l.signer] : l \in Listeners(p)} \cup {None} :
          mem' = [mem EXCEPT ![p].user = u]
    BY <1>9 DEF Lookup
  <2>2. u \in Users \cup {None}
    BY <1>0, LinkType DEF Listeners, WorldType
  <2>3. mem' \in [Procs -> Pairings] /\ "steer" \in Steps
    <3>1. \A m \in Pairings : [m EXCEPT !.user = u] \in Pairings
      BY <2>2 DEF Pairings
    <3>2. mem \in [Procs -> Pairings]
      BY <1>0 DEF ProcType
    <3> QED
      BY <2>1, <3>1, <3>2 DEF Steps
  <2>4. ProcType'
    BY <1>0, <1>9, <2>3, GotoType DEF ProcType, Lookup
  <2> QED
    BY <1>0, <1>9, <1>w, <1>f, <2>4, TypeParts DEF Lookup
<1>10. ASSUME NEW p \in Procs, Steer(p) PROVE TypeOK'
  <2>1. PICK R \in {l.relays : l \in Listeners(p)} \cup {{}} :
          /\ mem' = [mem EXCEPT ![p].relays = @ \cup R]
          /\ transport' = [transport EXCEPT ![p] = @ \cup R]
    BY <1>10 DEF Steer
  <2>2. R \in SUBSET Relays
    BY LinkType DEF Listeners
  <2> QED
    BY <1>3, <1>10, <2>1, <2>2 DEF Steer, Steps
<1>11. ASSUME NEW p \in Procs, Truncate(p) PROVE TypeOK'
  <2>1. ASSUME NEW b \in BOOLEAN,
               file' = {[data |-> mem[p], whole |-> FALSE, open |-> b]},
               Goto(p, "write"), UNCHANGED <<reuse, mem, transport>>
        PROVE  TypeOK'
    <3>1. FileType'
      BY <1>0, <2>1 DEF FileType, Files, ProcType
    <3>2. ProcType'
      BY <1>0, <2>1, GotoType DEF ProcType, Steps
    <3> QED
      BY <1>0, <1>11, <1>w, <3>1, <3>2, TypeParts DEF Truncate
  <2>2. CASE Saved(p, FALSE) /\ UNCHANGED file
    BY <1>0, <1>11, <2>2, <1>w, <1>f, SavedType, TypeParts DEF Truncate
  <2> QED
    BY <1>11, <2>1, <2>2 DEF Truncate
<1>12. ASSUME NEW p \in Procs, Write(p) PROVE TypeOK'
  <2>1. ASSUME NEW w \in BOOLEAN,
               file' = {[f EXCEPT !.data = mem[p], !.whole = w] : f \in file},
               Goto(p, "lock"), UNCHANGED <<reuse, mem, transport>>
        PROVE  FileType' /\ ProcType'
    <3>1. mem[p] \in Pairings
      BY <1>0 DEF ProcType
    <3>2. FileType'
      <4>1. \A f \in Files : [f EXCEPT !.data = mem[p], !.whole = w] \in Files
        BY <3>1 DEF Files
      <4>2. file \in SUBSET Files /\ \A f, g \in file : f = g
        BY <1>0 DEF FileType
      <4>3. file' \in SUBSET Files
        BY <2>1, <4>1, <4>2
      <4>4. \A f, g \in file' : f = g
        BY <2>1, <4>2
      <4> QED
        BY <4>3, <4>4 DEF FileType
    <3>3. ProcType'
      BY <1>0, <2>1, GotoType DEF ProcType, Steps
    <3> QED
      BY <3>2, <3>3
  <2>2. ASSUME Saved(p, FALSE), CutOff PROVE FileType' /\ ProcType'
    BY <1>0, <1>12, <2>2, CutOffKeeps, SavedType
  <2>3. FileType' /\ ProcType'
    BY <1>12, <2>1, <2>2 DEF Write
  <2>4. hurt' \in BOOLEAN /\ UNCHANGED <<runs, appVars>>
    BY <1>0, <1>12 DEF Write
  <2> QED
    BY <1>0, <1>w, <2>3, <2>4, TypeParts
<1>13. ASSUME NEW p \in Procs, Lock(p) PROVE TypeOK'
  <2>1. ProcType'
    BY <1>0, <1>13, SavedType DEF Lock
  <2>2. ASSUME file' = {[f EXCEPT !.open = FALSE] : f \in file} PROVE FileType'
    BY <1>0, <2>2 DEF FileType, Files
  <2>3. FileType'
    BY <1>13, <2>2, <1>f DEF Lock
  <2>4. hurt' \in BOOLEAN /\ UNCHANGED <<runs, appVars>>
    BY <1>0, <1>13 DEF Lock
  <2> QED
    BY <1>0, <1>w, <2>1, <2>3, <2>4, TypeParts
<1>14. ASSUME NEW p \in Procs, Crash(p) PROVE TypeOK'
  <2>1. FileType'
    BY <1>0, <1>14, <1>f, CutOffKeeps DEF Crash
  <2>2. ProcType' /\ hurt' \in BOOLEAN /\ UNCHANGED <<runs, appVars>>
    BY <1>0, <1>14, FinishType DEF Crash, Ends
  <2> QED
    BY <1>0, <1>w, <2>1, <2>2, TypeParts
<1>15. ASSUME NEW s \in Signers, NEW c \in codes, Scan(s, c) PROVE TypeOK'
  <2>1. WorldType'
    BY <1>0, <1>15 DEF WorldType, Scan
  <2> QED
    BY <1>0, <1>15, <1>p, <1>f, <2>1, TypeParts DEF Scan
<1>16. ASSUME NEW l \in links, Move(l) PROVE TypeOK'
  <2>1. WorldType'
    BY <1>0, <1>16 DEF WorldType, Move
  <2> QED
    BY <1>0, <1>16, <1>p, <1>f, <2>1, TypeParts DEF Move
<1>17. ASSUME NEW s \in Signers, Switch(s) PROVE TypeOK'
  <2>1. WorldType'
    BY <1>0, <1>17 DEF WorldType, Switch
  <2> QED
    BY <1>0, <1>17, <1>p, <1>f, <2>1, TypeParts DEF Switch
<1>18. CASE Delete
  BY <1>0, <1>18, <1>p, TypeParts DEF Delete, FileType, WorldType
<1>19. CASE UNCHANGED vars
  BY <1>0, <1>19, <1>p, <1>f, <1>w, TypeParts DEF vars
<1> QED
  BY <1>1, <1>2, <1>4, <1>6, <1>7, <1>8, <1>9, <1>10, <1>11, <1>12, <1>13,
     <1>14, <1>15, <1>16, <1>17, <1>18, <1>19, <1>20 DEF Next, Run

(* The variables keep their types: in particular there is never more than  *)
(* one pairing file.                                                       *)
THEOREM TypeCorrect == Spec => []TypeOK
BY InitType, TypeStep, PTL DEF Spec

-----------------------------------------------------------------------------
(* What is in the file, and in the hands of the processes, is known.       *)

(* A pairing m that an app of L knows, with the relays of its codes in C   *)
(* and a user key of O.                                                    *)
Known(m, L, C, O) ==
  /\ \E l \in L : l.app = m.app /\ l.signer = m.bunker
  /\ \A c \in C : c.app = m.app => c.relays \subseteq m.relays
  /\ m.user \in O[m.bunker] \cup {None}

(* Before the ceremony there is nothing in the hands of p; during it, a    *)
(* code; and from then on a pairing that is known, whose relays p is on.   *)
Held(p) ==
  /\ pc[p] \in {"idle", "load", "replace", "check"} => mem[p] = Blank
  /\ pc[p] = "await" =>
       /\ mem[p].bunker = None /\ mem[p].user = None
       /\ \A c \in codes : c.app = mem[p].app => c.relays \subseteq mem[p].relays
  /\ pc[p] \notin {"idle", "load", "replace", "check", "await"} =>
       /\ Known(mem[p], links, codes, owners)
       /\ mem[p].relays \subseteq transport[p]

(* App keys are drawn once.                                                *)
AppsInv ==
  /\ \A c \in codes : c.app \in 1..lastApp
  /\ \A l \in links : l.app <= lastApp
  /\ \A p \in Procs : mem[p].app <= lastApp

KnownInv ==
  /\ AppsInv
  /\ \A s \in Signers : owner[s] \in owners[s]
  /\ \A f \in file : Known(f.data, links, codes, owners)
  /\ \A p \in Procs : Held(p)

(* Apps keep what they know, codes get new keys, identities are added.     *)
LEMMA KnownStays ==
  ASSUME NEW m, NEW L \in SUBSET [app : Nat, signer : Signers, relays : SUBSET Relays],
         NEW K, NEW C, NEW D, NEW O, NEW Q,
         Known(m, L, C, O),
         \A l \in L : \E k \in K : k.app = l.app /\ k.signer = l.signer,
         \A c \in D \ C : c.app # m.app,
         \A s \in Signers : O[s] \subseteq Q[s]
  PROVE  Known(m, K, D, Q)
<1>1. PICK l \in L : l.app = m.app /\ l.signer = m.bunker
  BY DEF Known
<1>2. l.signer \in Signers
  OBVIOUS
<1> QED
  BY <1>1, <1>2 DEF Known

LEMMA InitKnown == Init => KnownInv
<1> SUFFICES ASSUME Init PROVE KnownInv
  OBVIOUS
<1>1. /\ codes = {} /\ pc = [p \in Procs |-> "idle"]
      /\ mem = [p \in Procs |-> Blank] /\ owners = [s \in Signers |-> {owner[s]}]
  BY DEF Init
<1>2. \A p \in Procs : Held(p)
  BY <1>1 DEF Held
<1>3. CASE file = {} /\ links = {} /\ lastApp = 0
  BY <1>1, <1>2, <1>3 DEF KnownInv, AppsInv, Blank
<1>4. ASSUME NEW s \in Signers, NEW R \in Flags,
             file = {[data |-> [Blank EXCEPT !.app = 1, !.bunker = s],
                      whole |-> TRUE, open |-> FALSE]},
             links = {[app |-> 1, signer |-> s, relays |-> Resolve(R)]},
             lastApp = 1
      PROVE  KnownInv
  <2>1. \A f \in file : f.data.app = 1 /\ f.data.bunker = s /\ f.data.user = None
    <3> DEFINE one == [Blank EXCEPT !.app = 1]
    <3>1. one = [app |-> 1, bunker |-> None, user |-> None, relays |-> {}]
      BY DEF Blank
    <3> HIDE DEF one
    <3>2. [one EXCEPT !.bunker = s]
            = [app |-> 1, bunker |-> s, user |-> None, relays |-> {}]
      BY <3>1
    <3> QED
      BY <1>4, <3>2 DEF one
  <2>2. \A f \in file : Known(f.data, links, codes, owners)
    BY <1>1, <1>4, <2>1 DEF Known
  <2>3. AppsInv
    BY <1>1, <1>4 DEF AppsInv, Blank
  <2> QED
    BY <1>1, <1>2, <2>2, <2>3 DEF KnownInv
<1> QED
  BY <1>3, <1>4 DEF Init

(* A step of p alone: what it holds afterwards, and what is in the file.   *)
Others(p) ==
  \A q \in Procs \ {p} :
    pc'[q] = pc[q] /\ mem'[q] = mem[q] /\ transport'[q] = transport[q]

LEMMA ProcKnown ==
  ASSUME KnownInv, NEW p \in Procs, Others(p), UNCHANGED appVars,
         Held(p)', mem'[p].app <= lastApp,
         \A f \in file' : Known(f.data, links, codes, owners)
  PROVE  KnownInv'
<1>1. \A q \in Procs \ {p} : Held(q)'
  BY DEF KnownInv, Held, Others, appVars
<1>2. AppsInv'
  BY DEF KnownInv, AppsInv, Others, appVars
<1> QED
  BY <1>1, <1>2 DEF KnownInv, appVars

(* A step of the apps or of their users.                                   *)
LEMMA WorldKnown ==
  ASSUME TypeOK, KnownInv, UNCHANGED <<file, codes, lastApp, procVars>>,
         \A l \in links : \E k \in links' : k.app = l.app /\ k.signer = l.signer,
         \A k \in links' : k.app <= lastApp,
         \A s \in Signers : owners[s] \subseteq owners'[s] /\ owner'[s] \in owners'[s]
  PROVE  KnownInv'
<1>1. links \in SUBSET [app : Nat, signer : Signers, relays : SUBSET Relays]
  BY DEF TypeOK
<1>2. \A m : Known(m, links, codes, owners) => Known(m, links', codes', owners')
  BY <1>1, KnownStays
<1>3. \A f \in file' : Known(f.data, links', codes', owners')
  BY <1>2 DEF KnownInv
<1>4. \A p \in Procs : Held(p)'
  BY <1>2 DEF KnownInv, Held, procVars
<1>5. AppsInv'
  BY DEF KnownInv, AppsInv, procVars
<1> QED
  BY <1>3, <1>4, <1>5 DEF KnownInv

LEMMA FinishKnown ==
  ASSUME TypeOK, KnownInv, NEW p \in Procs, NEW res, Finish(p, res),
         UNCHANGED appVars,
         \A f \in file' : Known(f.data, links, codes, owners)
  PROVE  KnownInv'
<1>1. pc'[p] = "idle" /\ mem'[p] = Blank /\ Others(p)
  BY DEF Finish, TypeOK, Others
<1>2. Held(p)'
  BY <1>1 DEF Held
<1>3. mem'[p].app <= lastApp
  BY <1>1 DEF Blank, TypeOK
<1> QED
  BY <1>1, <1>2, <1>3, ProcKnown

(* p goes on with the pairing that it has.                                 *)
LEMMA OnKnown ==
  ASSUME TypeOK, KnownInv, NEW p \in Procs, NEW s, Goto(p, s),
         UNCHANGED <<mem, transport, appVars>>,
         pc[p] \notin {"idle", "load", "replace", "check", "await"},
         s \notin {"idle", "load", "replace", "check", "await"},
         \A f \in file' : Known(f.data, links, codes, owners)
  PROVE  KnownInv'
<1>1. pc'[p] = s /\ Others(p)
  BY DEF Goto, TypeOK, Others
<1>2. Held(p)'
  BY <1>1 DEF KnownInv, Held, appVars
<1>3. mem'[p].app <= lastApp
  BY DEF KnownInv, AppsInv
<1> QED
  BY <1>1, <1>2, <1>3, ProcKnown

LEMMA SavedKnown ==
  ASSUME TypeOK, KnownInv, NEW p \in Procs, NEW ok, Saved(p, ok),
         UNCHANGED appVars, pc[p] \in {"save", "write", "lock"},
         \A f \in file' : Known(f.data, links, codes, owners)
  PROVE  KnownInv'
BY OnKnown, FinishKnown DEF Saved

(* p learns relays.                                                        *)
LEMMA RelaysKnown ==
  ASSUME TypeOK, KnownInv, NEW p \in Procs, NEW R \in SUBSET Relays, NEW s, Goto(p, s),
         mem' = [mem EXCEPT ![p].relays = @ \cup R],
         transport' = [transport EXCEPT ![p] = @ \cup R],
         pc[p] \notin {"idle", "load", "replace", "check", "await"},
         s \notin {"idle", "load", "replace", "check", "await"},
         UNCHANGED <<file, appVars>>
  PROVE  KnownInv'
<1>1. pc'[p] = s /\ Others(p)
  BY DEF Goto, TypeOK, Others
<1>2. /\ mem'[p].app = mem[p].app /\ mem'[p].bunker = mem[p].bunker
      /\ mem'[p].user = mem[p].user /\ mem'[p].relays = mem[p].relays \cup R
      /\ transport'[p] = transport[p] \cup R
  BY DEF TypeOK, Pairings
<1>3. Held(p) /\ \A f \in file' : Known(f.data, links, codes, owners)
  BY DEF KnownInv
<1>4. Known(mem'[p], links, codes, owners)
  BY <1>2, <1>3 DEF Held, Known
<1>5. Held(p)'
  BY <1>1, <1>2, <1>3, <1>4 DEF Held, appVars
<1>6. mem'[p].app <= lastApp
  BY <1>2 DEF KnownInv, AppsInv
<1> QED
  BY <1>1, <1>3, <1>5, <1>6, ProcKnown

LEMMA LoadKnown ==
  ASSUME TypeOK, KnownInv, NEW p \in Procs, Load(p)
  PROVE  KnownInv'
<1>1. \A f \in file' : Known(f.data, links, codes, owners)
  BY DEF KnownInv, Load
<1>2. CASE Goto(p, "replace") /\ UNCHANGED <<reuse, mem, transport>>
  <2>1. pc'[p] = "replace" /\ Others(p)
    BY <1>2 DEF Goto, TypeOK, Others
  <2>2. Held(p)' /\ mem'[p].app <= lastApp
    BY <1>2, <2>1 DEF Load, KnownInv, AppsInv, Held
  <2> QED
    BY <1>1, <2>1, <2>2, ProcKnown DEF Load
<1>3. CASE Finish(p, "err")
  BY <1>1, <1>3, FinishKnown DEF Load
<1>4. ASSUME NEW f \in file, mem' = [mem EXCEPT ![p] = f.data],
             transport' = [transport EXCEPT ![p] = Contact(f, asked[p])],
             Goto(p, "refresh")
      PROVE  KnownInv'
  <2>1. /\ pc'[p] = "refresh" /\ Others(p)
        /\ mem'[p] = f.data /\ transport'[p] = Contact(f, asked[p])
    BY <1>4 DEF Goto, TypeOK, Others
  <2>2. f.data.relays \subseteq Contact(f, asked[p])
    BY DEF Contact, Resolve
  <2>3. Known(f.data, links, codes, owners)
    BY DEF KnownInv
  <2>4. f.data.app <= lastApp
    BY <2>3 DEF Known, KnownInv, AppsInv
  <2>5. Held(p)'
    BY <2>1, <2>2, <2>3 DEF Held, Load, appVars
  <2> QED
    BY <1>1, <2>1, <2>4, <2>5, ProcKnown DEF Load
<1> QED
  BY <1>2, <1>3, <1>4 DEF Load

LEMMA ReplaceKnown ==
  ASSUME TypeOK, KnownInv, NEW p \in Procs, Replace(p)
  PROVE  KnownInv'
<1>1. \A f \in file' : Known(f.data, links, codes, owners)
  BY DEF KnownInv, Replace
<1>2. CASE Goto(p, "check") /\ UNCHANGED <<reuse, mem, transport>>
  <2>1. pc'[p] = "check" /\ Others(p)
    BY <1>2 DEF Goto, TypeOK, Others
  <2>2. Held(p)' /\ mem'[p].app <= lastApp
    BY <1>2, <2>1 DEF Replace, KnownInv, AppsInv, Held
  <2> QED
    BY <1>1, <2>1, <2>2, ProcKnown DEF Replace
<1>3. CASE Finish(p, "err")
  BY <1>1, <1>3, FinishKnown DEF Replace
<1> QED
  BY <1>2, <1>3 DEF Replace

(* The key of the new code is not that of any pairing.                     *)
LEMMA CheckKnown ==
  ASSUME TypeOK, KnownInv, NEW p \in Procs, CheckRelays(p)
  PROVE  KnownInv'
<1>1. CASE Finish(p, "err") /\ UNCHANGED appVars
  BY <1>1, FinishKnown DEF CheckRelays, KnownInv
<1>2. ASSUME NEW R, lastApp' = lastApp + 1,
             codes' = codes \cup {[app |-> lastApp + 1, relays |-> R]},
             mem' = [mem EXCEPT ![p].app = lastApp + 1, ![p].relays = R],
             Goto(p, "await"),
             UNCHANGED <<links, owner, owners, acts, reuse, transport>>
      PROVE  KnownInv'
  <2>1. pc'[p] = "await" /\ Others(p) /\ lastApp \in Nat /\ mem[p] = Blank
    BY <1>2 DEF Goto, TypeOK, Others, CheckRelays, KnownInv, Held
  <2>2. mem'[p] = [app |-> lastApp + 1, bunker |-> None, user |-> None, relays |-> R]
    <3> DEFINE one == [Blank EXCEPT !.app = lastApp + 1]
    <3>1. one = [app |-> lastApp + 1, bunker |-> None, user |-> None, relays |-> {}]
      BY DEF Blank
    <3> HIDE DEF one
    <3>2. [one EXCEPT !.relays = R]
            = [app |-> lastApp + 1, bunker |-> None, user |-> None, relays |-> R]
      BY <3>1
    <3>3. mem'[p] = [one EXCEPT !.relays = R]
      BY <1>2, <2>1 DEF TypeOK, one
    <3> QED
      BY <3>2, <3>3
  <2>3. \A m \in Pairings : m.app <= lastApp /\ Known(m, links, codes, owners)
                         => Known(m, links', codes', owners')
    BY <1>2, <2>1 DEF Known, Pairings
  <2>4. AppsInv'
    <3>1. \A c \in codes' : c.app \in 1..lastApp'
      BY <1>2, <2>1 DEF KnownInv, AppsInv
    <3>2. \A l \in links' : l.app <= lastApp'
      BY <1>2, <2>1, LinkType DEF KnownInv, AppsInv
    <3>3. \A q \in Procs : mem'[q].app <= lastApp'
      <4>1. \A q \in Procs : mem[q].app \in Nat /\ mem[q].app <= lastApp
        BY DEF TypeOK, Pairings, KnownInv, AppsInv
      <4>2. ASSUME NEW q \in Procs PROVE mem'[q].app <= lastApp + 1
        BY <2>1, <2>2, <4>1 DEF Others
      <4> QED
        BY <1>2, <4>2
    <3> QED
      BY <3>1, <3>2, <3>3 DEF AppsInv
  <2>5. \A f \in file' : Known(f.data, links', codes', owners')
    <3>1. \A f \in file : f.data \in Pairings /\ Known(f.data, links, codes, owners)
      BY DEF TypeOK, Files, KnownInv
    <3>2. \A f \in file : f.data.app <= lastApp
      BY <3>1 DEF Known, KnownInv, AppsInv
    <3> QED
      BY <2>3, <3>1, <3>2 DEF CheckRelays
  <2>6. Held(p)'
    <3>1. \A c \in codes' : c.app = lastApp + 1 => c.relays \subseteq R
      BY <1>2, <2>1 DEF KnownInv, AppsInv
    <3> QED
      BY <2>1, <2>2, <3>1 DEF Held
  <2>7. ASSUME NEW q \in Procs, q # p PROVE Held(q)'
    <3>1. mem[q] \in Pairings /\ mem[q].app <= lastApp /\ Held(q)
      BY DEF TypeOK, KnownInv, AppsInv
    <3>2. pc'[q] = pc[q] /\ mem'[q] = mem[q] /\ transport'[q] = transport[q]
      BY <2>1, <2>7 DEF Others
    <3>3. CASE pc[q] = "await"
      <4>1. \A c \in codes' : c.app = mem[q].app => c.relays \subseteq mem[q].relays
        <5>1. mem[q].app # lastApp + 1
          BY <2>1, <3>1 DEF Pairings
        <5> QED
          BY <1>2, <3>1, <3>3, <5>1 DEF Held
      <4> QED
        BY <3>1, <3>2, <3>3, <4>1 DEF Held
    <3>4. CASE pc[q] # "await"
      BY <2>3, <3>1, <3>2, <3>4 DEF Held
    <3> QED
      BY <3>3, <3>4
  <2>8. \A s \in Signers : owner'[s] \in owners'[s]
    BY <1>2 DEF KnownInv
  <2> QED
    BY <2>4, <2>5, <2>6, <2>7, <2>8 DEF KnownInv
<1> QED
  BY <1>1, <1>2 DEF CheckRelays

LEMMA AwaitKnown ==
  ASSUME TypeOK, KnownInv, NEW p \in Procs, Await(p)
  PROVE  KnownInv'
<1>1. CASE Finish(p, "err")
  BY <1>1, FinishKnown DEF Await, KnownInv
<1>2. ASSUME NEW l \in links, l.app = mem[p].app,
             mem' = [mem EXCEPT ![p].bunker = l.signer],
             transport' = [transport EXCEPT ![p] = mem[p].relays],
             Goto(p, "lookup")
      PROVE  KnownInv'
  <2>1. pc'[p] = "lookup" /\ Others(p) /\ Held(p) /\ pc[p] = "await"
    BY <1>2 DEF Goto, TypeOK, Others, Await, KnownInv
  <2>2. /\ mem'[p].app = mem[p].app /\ mem'[p].bunker = l.signer
        /\ mem'[p].user = mem[p].user /\ mem'[p].relays = mem[p].relays
        /\ transport'[p] = mem[p].relays
    BY <1>2 DEF TypeOK, Pairings
  <2>3. Known(mem'[p], links, codes, owners)
    BY <1>2, <2>1, <2>2 DEF Held, Known
  <2>4. Held(p)'
    BY <2>1, <2>2, <2>3 DEF Held, Await, appVars
  <2>5. mem'[p].app <= lastApp
    BY <2>2 DEF KnownInv, AppsInv
  <2>6. \A f \in file' : Known(f.data, links, codes, owners)
    BY DEF Await, KnownInv
  <2> QED
    BY <2>1, <2>4, <2>5, <2>6, ProcKnown DEF Await
<1> QED
  BY <1>1, <1>2 DEF Await

LEMMA LookupKnown ==
  ASSUME TypeOK, KnownInv, NEW p \in Procs, Lookup(p)
  PROVE  KnownInv'
<1>1. PICK u \in {owner[l.signer] : l \in Listeners(p)} \cup {None} :
        mem' = [mem EXCEPT ![p].user = u]
  BY DEF Lookup
<1>2. pc'[p] = "steer" /\ Others(p) /\ Held(p) /\ pc[p] = "lookup"
  BY <1>1 DEF Goto, TypeOK, Others, Lookup, KnownInv
<1>3. /\ mem'[p].app = mem[p].app /\ mem'[p].bunker = mem[p].bunker
      /\ mem'[p].user = u /\ mem'[p].relays = mem[p].relays
      /\ transport'[p] = transport[p]
  BY <1>1 DEF TypeOK, Pairings, Lookup
<1>4. u \in owners[mem[p].bunker] \cup {None}
  <2>1. \A l \in Listeners(p) : l.signer = mem[p].bunker /\ l.signer \in Signers
    BY LinkType DEF Listeners
  <2> QED
    BY <2>1 DEF KnownInv
<1>5. Known(mem'[p], links, codes, owners)
  BY <1>2, <1>3, <1>4 DEF Held, Known
<1>6. Held(p)'
  BY <1>2, <1>3, <1>5 DEF Held, Lookup, appVars
<1>7. mem'[p].app <= lastApp
  BY <1>3 DEF KnownInv, AppsInv
<1>8. \A f \in file' : Known(f.data, links, codes, owners)
  BY DEF Lookup, KnownInv
<1> QED
  BY <1>2, <1>6, <1>7, <1>8, ProcKnown DEF Lookup

LEMMA KnownStep == TypeOK /\ KnownInv /\ [Next]_vars => KnownInv'
<1> SUFFICES ASSUME TypeOK, KnownInv, [Next]_vars PROVE KnownInv'
  OBVIOUS
<1>0. /\ \A f \in file : Known(f.data, links, codes, owners)
      /\ \A p \in Procs : Held(p)
  BY DEF KnownInv
<1>1. ASSUME NEW p \in Procs, NEW o, NEW R, Start(p, o, R) PROVE KnownInv'
  <2>1. /\ pc'[p] \in {"load", "replace"} /\ pc[p] = "idle"
        /\ Others(p) /\ mem' = mem
    BY <1>1 DEF Start, TypeOK, Others
  <2>2. Held(p)' /\ mem'[p].app <= lastApp
    BY <1>0, <2>1 DEF Held, KnownInv, AppsInv
  <2> QED
    BY <1>0, <1>1, <2>1, <2>2, ProcKnown DEF Start
<1>2. ASSUME NEW p \in Procs, Refresh(p) PROVE KnownInv'
  <2>1. ASSUME NEW l \in Listeners(p),
               mem' = [mem EXCEPT ![p].relays = @ \cup l.relays],
               transport' = [transport EXCEPT ![p] = @ \cup l.relays],
               Goto(p, IF l.relays \subseteq mem[p].relays THEN "verify" ELSE "save")
        PROVE  KnownInv'
    <3>1. l.relays \in SUBSET Relays
      BY LinkType DEF Listeners
    <3> DEFINE s == IF l.relays \subseteq mem[p].relays THEN "verify" ELSE "save"
    <3>2. s \notin {"idle", "load", "replace", "check", "await"} /\ Goto(p, s)
      BY <2>1
    <3> HIDE DEF s
    <3> QED
      BY <1>2, <2>1, <3>1, <3>2, RelaysKnown DEF Refresh
  <2>2. CASE Goto(p, "verify") /\ UNCHANGED <<mem, transport>>
    BY <1>0, <1>2, <2>2, OnKnown DEF Refresh
  <2> QED
    BY <1>2, <2>1, <2>2 DEF Refresh
<1>3. ASSUME NEW p \in Procs, Verify(p) PROVE KnownInv'
  BY <1>0, <1>3, FinishKnown DEF Verify
<1>4. ASSUME NEW p \in Procs, Steer(p) PROVE KnownInv'
  <2>1. PICK R \in {l.relays : l \in Listeners(p)} \cup {{}} :
          /\ mem' = [mem EXCEPT ![p].relays = @ \cup R]
          /\ transport' = [transport EXCEPT ![p] = @ \cup R]
    BY <1>4 DEF Steer
  <2>2. R \in SUBSET Relays
    BY LinkType DEF Listeners
  <2> QED
    BY <1>4, <2>1, <2>2, RelaysKnown DEF Steer
<1>5. ASSUME NEW p \in Procs, Truncate(p) PROVE KnownInv'
  <2>1. Known(mem[p], links, codes, owners)
    BY <1>0, <1>5 DEF Truncate, Held
  <2>2. ASSUME NEW b, file' = {[data |-> mem[p], whole |-> FALSE, open |-> b]},
               Goto(p, "write"), UNCHANGED <<reuse, mem, transport>>
        PROVE  KnownInv'
    <3>1. \A f \in file' : Known(f.data, links, codes, owners)
      BY <2>1, <2>2
    <3> QED
      BY <1>5, <2>2, <3>1, OnKnown DEF Truncate
  <2>3. CASE Saved(p, FALSE) /\ UNCHANGED file
    BY <1>0, <1>5, <2>3, SavedKnown DEF Truncate
  <2> QED
    BY <1>5, <2>2, <2>3 DEF Truncate
<1>6. ASSUME NEW p \in Procs, Write(p) PROVE KnownInv'
  <2>1. Known(mem[p], links, codes, owners)
    BY <1>0, <1>6 DEF Write, Held
  <2>2. ASSUME NEW w, Goto(p, "lock"), UNCHANGED <<reuse, mem, transport>>,
               file' = {[f EXCEPT !.data = mem[p], !.whole = w] : f \in file}
        PROVE  KnownInv'
    <3>1. \A f \in file : [f EXCEPT !.data = mem[p], !.whole = w].data = mem[p]
      BY DEF TypeOK, Files
    <3>2. \A f \in file' : Known(f.data, links, codes, owners)
      BY <2>1, <2>2, <3>1
    <3> QED
      BY <1>6, <2>2, <3>2, OnKnown DEF Write
  <2>3. CASE Saved(p, FALSE) /\ CutOff
    <3>1. \A f \in file' : Known(f.data, links, codes, owners)
      BY <1>0, <2>3, TypeParts, CutOffKeeps
    <3> QED
      BY <1>6, <2>3, <3>1, SavedKnown DEF Write
  <2> QED
    BY <1>6, <2>2, <2>3 DEF Write
<1>7. ASSUME NEW p \in Procs, Lock(p) PROVE KnownInv'
  <2>1. \A f \in file : [f EXCEPT !.open = FALSE].data = f.data
    BY DEF TypeOK, Files
  <2>2. \A f \in file' : Known(f.data, links, codes, owners)
    <3>1. CASE file' = {[f EXCEPT !.open = FALSE] : f \in file}
      BY <1>0, <2>1, <3>1
    <3> QED
      BY <1>0, <1>7, <3>1 DEF Lock
  <2> QED
    BY <1>7, <2>2, SavedKnown DEF Lock
<1>8. ASSUME NEW p \in Procs, Crash(p) PROVE KnownInv'
  <2>1. \A f \in file' : Known(f.data, links, codes, owners)
    BY <1>0, <1>8, TypeParts, CutOffKeeps DEF Crash
  <2> QED
    BY <1>8, <2>1, FinishKnown DEF Crash
<1>9. ASSUME NEW s \in Signers, NEW c \in codes, Scan(s, c) PROVE KnownInv'
  <2>1. c.app <= lastApp
    BY DEF TypeOK, KnownInv, AppsInv
  <2>2. \A l \in links : l.app <= lastApp
    BY DEF KnownInv, AppsInv
  <2>3. \A k \in links' : k.app <= lastApp
    BY <1>9, <2>1, <2>2 DEF Scan
  <2>4. links \subseteq links' /\ UNCHANGED <<owner, owners>>
    BY <1>9 DEF Scan
  <2> QED
    BY <1>9, <2>3, <2>4, WorldKnown DEF Scan, KnownInv
<1>10. ASSUME NEW l \in links, Move(l) PROVE KnownInv'
  <2>1. PICK R \in SUBSET Relays :
          links' = (links \ {l}) \cup {[l EXCEPT !.relays = R]}
    BY <1>10 DEF Move
  <2>2. /\ [l EXCEPT !.relays = R].app = l.app
        /\ [l EXCEPT !.relays = R].signer = l.signer
    BY DEF TypeOK
  <2>3. \A m \in links : \E k \in links' : k.app = m.app /\ k.signer = m.signer
    BY <2>1, <2>2
  <2>4. \A k \in links' : k.app <= lastApp
    BY <2>1, <2>2 DEF KnownInv, AppsInv
  <2> QED
    BY <1>10, <2>3, <2>4, WorldKnown DEF Move, KnownInv
<1>11. ASSUME NEW s \in Signers, Switch(s) PROVE KnownInv'
  <2>1. PICK u \in Users : /\ owner' = [owner EXCEPT ![s] = u]
                           /\ owners' = [owners EXCEPT ![s] = @ \cup {u}]
    BY <1>11 DEF Switch
  <2>2. \A r \in Signers : owners[r] \subseteq owners'[r] /\ owner'[r] \in owners'[r]
    BY <2>1 DEF TypeOK, KnownInv
  <2>3. \A k \in links' : k.app <= lastApp
    BY <1>11 DEF KnownInv, AppsInv, Switch
  <2> QED
    BY <1>11, <2>2, <2>3, WorldKnown DEF Switch
<1>12. CASE Delete
  BY <1>12 DEF Delete, KnownInv, AppsInv, Held, procVars
<1>13. CASE UNCHANGED vars
  BY <1>13 DEF vars, appVars, procVars, KnownInv, AppsInv, Held
<1> QED
  BY <1>1, <1>2, <1>3, <1>4, <1>5, <1>6, <1>7, <1>8, <1>9, <1>10, <1>11, <1>12,
     <1>13, LoadKnown, ReplaceKnown, CheckKnown, AwaitKnown, LookupKnown DEF Next, Run

(* A pairing on disk is one that its app knows, whatever crashes, overlaps *)
(* or answers late.                                                        *)
THEOREM StoredIsKnown == Spec => []StoredKnown
<1>1. KnownInv => StoredKnown
  BY DEF KnownInv, Known, StoredKnown
<1> QED
  BY <1>1, InitType, TypeStep, InitKnown, KnownStep, PTL DEF Spec

(* The relays of the code are among those that requests go to.             *)
THEOREM TransportKeepsCode == Spec => []TransportMeets
<1>1. TypeOK /\ KnownInv => TransportMeets
  <2> SUFFICES ASSUME TypeOK, KnownInv, NEW p \in Procs, NEW c \in codes,
                      mem[p].bunker # None, c.app = mem[p].app
               PROVE  c.relays \subseteq transport[p]
    BY DEF TransportMeets
  <2>1. Held(p) /\ Blank.bunker = None
    BY DEF KnownInv, Blank
  <2> QED
    BY <2>1 DEF Held, Known
<1> QED
  BY <1>1, InitType, TypeStep, InitKnown, KnownStep, PTL DEF Spec

-----------------------------------------------------------------------------
(* What may be wrong with the file.                                        *)

(* An open write explains what the file lacks, if none was cut off.        *)
DamageInv ==
  \A f \in file :
    /\ ~f.whole => hurt \/ \E p \in Procs : pc[p] = "write"
    /\ f.open => hurt \/ \E p \in Procs : pc[p] \in {"write", "lock"}

(* Where p may go in a step that does not write.                           *)
LEMMA DamageStays ==
  ASSUME TypeOK, DamageInv, NEW p \in Procs, pc[p] \notin {"write", "lock"},
         UNCHANGED <<file, hurt>>,
         \A q \in Procs \ {p} : pc'[q] = pc[q]
  PROVE  DamageInv'
BY DEF DamageInv

LEMMA SavedEnds ==
  ASSUME TypeOK, NEW p \in Procs, NEW ok, Saved(p, ok)
  PROVE  \A q \in Procs \ {p} : pc'[q] = pc[q]
BY DEF Saved, Goto, Finish, TypeOK

LEMMA DamageStep == TypeOK /\ DamageInv /\ [Next]_vars => DamageInv'
<1> SUFFICES ASSUME TypeOK, DamageInv, [Next]_vars PROVE DamageInv'
  OBVIOUS
<1>1. ASSUME NEW p \in Procs, NEW o, NEW R, Start(p, o, R) PROVE DamageInv'
  BY <1>1, DamageStays DEF Start, TypeOK
<1>2. ASSUME NEW p \in Procs,
             \/ Load(p) \/ Replace(p) \/ Refresh(p) \/ Verify(p)
             \/ CheckRelays(p) \/ Await(p) \/ Lookup(p) \/ Steer(p)
      PROVE  DamageInv'
  <2>1. /\ pc[p] \notin {"write", "lock"} /\ UNCHANGED <<file, hurt>>
    BY <1>2 DEF Load, Replace, Refresh, Verify, CheckRelays, Await, Lookup, Steer
  <2>2. (\E s : Goto(p, s)) \/ (\E res : Finish(p, res))
    BY <1>2 DEF Load, Replace, Refresh, Verify, CheckRelays, Await, Lookup, Steer
  <2>3. \A q \in Procs \ {p} : pc'[q] = pc[q]
    BY <2>2 DEF Goto, Finish, TypeOK
  <2> QED
    BY <2>1, <2>3, DamageStays
<1>3. ASSUME NEW p \in Procs, Truncate(p) PROVE DamageInv'
  <2>1. CASE Goto(p, "write")
    BY <2>1 DEF Goto, TypeOK, DamageInv
  <2>2. CASE Saved(p, FALSE) /\ UNCHANGED file
    BY <1>3, <2>2, SavedEnds, DamageStays DEF Truncate
  <2> QED
    BY <1>3, <2>1, <2>2 DEF Truncate
<1>4. ASSUME NEW p \in Procs, Write(p) PROVE DamageInv'
  <2>1. CASE hurt'
    BY <2>1 DEF DamageInv
  <2>2. CASE ~hurt'
    <3>1. /\ \A f \in file : f.data = mem[p]
          /\ file' = {[f EXCEPT !.data = mem[p], !.whole = TRUE] : f \in file}
          /\ Goto(p, "lock")
      BY <1>4, <2>2 DEF Write
    <3>2. pc'[p] = "lock"
      BY <3>1 DEF Goto, TypeOK
    <3>3. \A f \in file : [f EXCEPT !.data = mem[p], !.whole = TRUE].whole
      BY DEF TypeOK, Files
    <3> QED
      BY <3>1, <3>2, <3>3 DEF DamageInv
  <2> QED
    BY <2>1, <2>2
<1>5. ASSUME NEW p \in Procs, Lock(p) PROVE DamageInv'
  <2>1. CASE hurt'
    BY <2>1 DEF DamageInv
  <2>2. CASE ~hurt'
    <3>1. CASE file' = {}
      BY <3>1 DEF DamageInv
    <3>2. CASE /\ file' = {[f EXCEPT !.open = FALSE] : f \in file}
               /\ Saved(p, TRUE) /\ UNCHANGED hurt
      <4>1. \A f \in file : /\ [f EXCEPT !.open = FALSE].open = FALSE
                            /\ [f EXCEPT !.open = FALSE].whole = f.whole
        BY DEF TypeOK, Files
      <4>2. \A q \in Procs : pc[q] = "write" => pc'[q] = "write"
        BY <1>5, <3>2, SavedEnds DEF Lock
      <4> QED
        BY <3>2, <4>1, <4>2 DEF DamageInv
    <3> QED
      BY <1>5, <2>2, <3>1, <3>2 DEF Lock
  <2> QED
    BY <2>1, <2>2
<1>6. ASSUME NEW p \in Procs, Crash(p) PROVE DamageInv'
  <2>1. CASE hurt'
    BY <2>1 DEF DamageInv
  <2>2. CASE ~hurt'
    <3>1. pc[p] \notin {"write", "lock"} /\ UNCHANGED <<file, hurt>>
      BY <1>6, <2>2 DEF Crash, TypeOK
    <3>2. \A q \in Procs \ {p} : pc'[q] = pc[q]
      BY <1>6 DEF Crash, Finish, TypeOK
    <3> QED
      BY <3>1, <3>2, DamageStays
  <2> QED
    BY <2>1, <2>2
<1>7. ASSUME NEW s \in Signers, NEW c \in codes, Scan(s, c) PROVE DamageInv'
  BY <1>7 DEF Scan, DamageInv, procVars
<1>8. ASSUME NEW l \in links, Move(l) PROVE DamageInv'
  BY <1>8 DEF Move, DamageInv, procVars
<1>9. ASSUME NEW s \in Signers, Switch(s) PROVE DamageInv'
  BY <1>9 DEF Switch, DamageInv, procVars
<1>10. CASE Delete
  BY <1>10 DEF Delete, DamageInv
<1>11. CASE UNCHANGED vars
  BY <1>11 DEF vars, DamageInv, procVars
<1> QED
  BY <1>1, <1>2, <1>3, <1>4, <1>5, <1>6, <1>7, <1>8, <1>9, <1>10, <1>11 DEF Next, Run

(* Only a write that was cut off, or that met another, leaves a file that  *)
(* the next run refuses.                                                   *)
THEOREM DamageIsExplained == Spec => []DamageExplained
<1>1. Init => DamageInv
  <2>1. Init => file = {} \/ \E d : file = {[data |-> d, whole |-> TRUE, open |-> FALSE]}
    BY DEF Init
  <2> QED
    BY <2>1 DEF DamageInv
<1>2. DamageInv => DamageExplained
  BY DEF DamageInv, DamageExplained, Usable
<1> QED
  BY <1>1, <1>2, InitType, TypeStep, DamageStep, PTL DEF Spec

-----------------------------------------------------------------------------
(* A command that no other one overlaps.                                   *)

(* b is a with more relays.                                                *)
Grown(a, b) ==
  /\ b.app = a.app /\ b.bunker = a.bunker /\ b.user = a.user
  /\ a.relays \subseteq b.relays

Ceremony == {"idle", "load", "replace", "check", "await", "lookup", "steer"}

AloneInv ==
  /\ \A p \in Procs : alone[p] => /\ pc[p] # "idle"
                                  /\ \A q \in Procs \ {p} : pc[q] = "idle"
  /\ \A p \in Procs : pc[p] # "idle" => result[p] = "none"
  /\ \A p \in Procs : pc[p] \in {"refresh", "verify"} => reuse[p]
  /\ \A p \in Procs : pc[p] \in Ceremony => ~reuse[p]
  /\ \A p \in Procs : alone[p] /\ reuse[p] => \A f \in file : Grown(f.data, mem[p])
  /\ \A p \in Procs : alone[p] /\ pc[p] \in {"write", "lock"} =>
       \A f \in file : f.data = mem[p] /\ (pc[p] = "lock" => f.whole)

LEMMA InitAlone == Init => AloneInv
BY DEF Init, AloneInv, Ceremony

(* When no command is alone but p, p is all that there is to look at.      *)
Quiet(p) ==
  \A q \in Procs \ {p} :
    /\ pc'[q] = pc[q] /\ result'[q] = result[q] /\ reuse'[q] = reuse[q]
    /\ alone'[q] = alone[q] /\ mem'[q] = mem[q]

LEMMA QuietStep ==
  ASSUME TypeOK, AloneInv, NEW p \in Procs, Quiet(p), pc[p] # "idle",
         alone'[p] => alone[p] /\ pc'[p] # "idle",
         pc'[p] # "idle" => result'[p] = "none",
         pc'[p] \in {"refresh", "verify"} => reuse'[p],
         pc'[p] \in Ceremony => ~reuse'[p],
         alone'[p] /\ reuse'[p] => \A f \in file' : Grown(f.data, mem'[p]),
         alone'[p] /\ pc'[p] \in {"write", "lock"} =>
           \A f \in file' : f.data = mem'[p] /\ (pc'[p] = "lock" => f.whole)
  PROVE  AloneInv'
<1>1. \A q \in Procs \ {p} : ~alone'[q]
  BY DEF AloneInv, Quiet
<1> QED
  BY <1>1 DEF AloneInv, Quiet

LEMMA FinishAlone ==
  ASSUME TypeOK, AloneInv, NEW p \in Procs, pc[p] # "idle", NEW res, Finish(p, res)
  PROVE  AloneInv'
<1>1. /\ Quiet(p) /\ pc'[p] = "idle" /\ ~alone'[p] /\ ~reuse'[p]
  BY DEF Finish, TypeOK, Quiet
<1> QED
  BY <1>1, QuietStep DEF Ceremony

(* p goes on, and neither the file nor whether it reuses one changes.      *)
LEMMA OnAlone ==
  ASSUME TypeOK, AloneInv, NEW p \in Procs, pc[p] # "idle", NEW s, Goto(p, s),
         s \notin {"idle", "write", "lock"}, UNCHANGED <<file, reuse>>,
         s = "verify" => reuse[p], s # "refresh", s \in Ceremony => ~reuse[p],
         \A q \in Procs \ {p} : mem'[q] = mem[q],
         reuse[p] => Grown(mem[p], mem'[p])
  PROVE  AloneInv'
<1>1. pc'[p] = s /\ Quiet(p) /\ UNCHANGED <<alone, result>>
  BY DEF Goto, TypeOK, Quiet
<1>2. alone[p] /\ reuse[p] => \A f \in file : Grown(f.data, mem'[p])
  BY DEF AloneInv, Grown
<1>3. result[p] = "none"
  BY DEF AloneInv
<1> QED
  BY <1>1, <1>2, <1>3, QuietStep

LEMMA SavedAlone ==
  ASSUME TypeOK, AloneInv, NEW p \in Procs, NEW ok, Saved(p, ok), pc[p] # "idle",
         alone[p] /\ reuse[p] => \A f \in file' : Grown(f.data, mem[p])
  PROVE  AloneInv'
<1>1. CASE reuse[p]
  <2>1. /\ pc'[p] = "verify" /\ Quiet(p) /\ UNCHANGED <<alone, result, reuse, mem>>
    BY <1>1 DEF Saved, Goto, TypeOK, Quiet
  <2>2. result[p] = "none"
    BY DEF AloneInv
  <2> QED
    BY <1>1, <2>1, <2>2, QuietStep DEF Ceremony
<1>2. CASE ~reuse[p]
  BY <1>2, FinishAlone DEF Saved
<1> QED
  BY <1>1, <1>2

LEMMA AloneStep == TypeOK /\ AloneInv /\ [Next]_vars => AloneInv'
<1> SUFFICES ASSUME TypeOK, AloneInv, [Next]_vars PROVE AloneInv'
  OBVIOUS
<1>1. ASSUME NEW p \in Procs, NEW o, NEW R, Start(p, o, R) PROVE AloneInv'
  <2>1. /\ pc[p] = "idle" /\ pc'[p] \in {"load", "replace"} /\ result'[p] = "none"
        /\ alone' = [q \in Procs |->
             IF q = p THEN \A r \in Procs \ {p} : pc[r] = "idle" ELSE FALSE]
        /\ UNCHANGED <<file, mem, reuse>> /\ ~reuse[p]
        /\ \A q \in Procs \ {p} : pc'[q] = pc[q] /\ result'[q] = result[q]
    BY <1>1 DEF Start, TypeOK, AloneInv, Ceremony
  <2>2. \A q \in Procs : alone'[q] => q = p /\ \A r \in Procs \ {p} : pc'[r] = "idle"
    BY <2>1
  <2>3. \A q \in Procs : pc'[q] # "idle" => result'[q] = "none"
    BY <2>1 DEF AloneInv
  <2>4. \A q \in Procs : /\ pc'[q] \in {"refresh", "verify"} => reuse'[q]
                         /\ pc'[q] \in Ceremony => ~reuse'[q]
    BY <2>1 DEF AloneInv, Ceremony
  <2> QED
    BY <2>1, <2>2, <2>3, <2>4 DEF AloneInv
<1>2. ASSUME NEW p \in Procs, Load(p) PROVE AloneInv'
  <2>1. pc[p] = "load" /\ UNCHANGED file /\ ~reuse[p] /\ result[p] = "none"
    BY <1>2 DEF Load, AloneInv, Ceremony
  <2>2. CASE Goto(p, "replace") /\ UNCHANGED <<reuse, mem, transport>>
    BY <2>1, <2>2, OnAlone
  <2>3. CASE Finish(p, "err")
    BY <2>1, <2>3, FinishAlone
  <2>4. ASSUME NEW f \in file, mem' = [mem EXCEPT ![p] = f.data],
               reuse' = [reuse EXCEPT ![p] = TRUE], Goto(p, "refresh")
        PROVE  AloneInv'
    <3>1. /\ pc'[p] = "refresh" /\ Quiet(p) /\ UNCHANGED <<alone, result>>
          /\ reuse'[p] /\ mem'[p] = f.data
      BY <2>4 DEF Goto, TypeOK, Quiet
    <3>2. \A g \in file' : Grown(g.data, mem'[p])
      BY <2>1, <2>4, <3>1 DEF Grown, TypeOK
    <3> QED
      BY <2>1, <3>1, <3>2, QuietStep DEF Ceremony
  <2> QED
    BY <1>2, <2>2, <2>3, <2>4 DEF Load
<1>14. ASSUME NEW p \in Procs, Replace(p) PROVE AloneInv'
  <2>1. pc[p] = "replace" /\ UNCHANGED file /\ ~reuse[p]
    BY <1>14 DEF Replace, AloneInv, Ceremony
  <2>2. CASE Goto(p, "check") /\ UNCHANGED <<reuse, mem, transport>>
    BY <2>1, <2>2, OnAlone
  <2>3. CASE Finish(p, "err")
    BY <2>1, <2>3, FinishAlone
  <2> QED
    BY <1>14, <2>2, <2>3 DEF Replace
<1>3. ASSUME NEW p \in Procs, Refresh(p) PROVE AloneInv'
  <2>1. pc[p] = "refresh" /\ UNCHANGED <<file, reuse>> /\ reuse[p]
    BY <1>3 DEF Refresh, AloneInv
  <2>2. ASSUME NEW l, mem' = [mem EXCEPT ![p].relays = @ \cup l.relays],
               Goto(p, IF l.relays \subseteq mem[p].relays THEN "verify" ELSE "save")
        PROVE  AloneInv'
    <3>1. Grown(mem[p], mem'[p]) /\ \A q \in Procs \ {p} : mem'[q] = mem[q]
      BY <2>2 DEF TypeOK, Pairings, Grown
    <3> DEFINE s == IF l.relays \subseteq mem[p].relays THEN "verify" ELSE "save"
    <3>2. s \in {"verify", "save"} /\ Goto(p, s)
      BY <2>2
    <3> HIDE DEF s
    <3> QED
      BY <2>1, <3>1, <3>2, OnAlone DEF Ceremony
  <2>3. CASE Goto(p, "verify") /\ UNCHANGED <<mem, transport>>
    BY <2>1, <2>3, OnAlone DEF Ceremony, Grown
  <2> QED
    BY <1>3, <2>2, <2>3 DEF Refresh
<1>4. ASSUME NEW p \in Procs, Verify(p) PROVE AloneInv'
  BY <1>4, FinishAlone DEF Verify
<1>5. ASSUME NEW p \in Procs, NEW s, Goto(p, s), s \in {"await", "lookup", "steer", "save"},
             pc[p] \in Ceremony \ {"idle"}, UNCHANGED <<file, reuse>>,
             \A q \in Procs \ {p} : mem'[q] = mem[q]
      PROVE  AloneInv'
  <2>1. ~reuse[p] /\ pc[p] # "idle"
    BY <1>5 DEF AloneInv, Ceremony
  <2> QED
    BY <1>5, <2>1, OnAlone
<1>6. ASSUME NEW p \in Procs, CheckRelays(p) \/ Await(p) PROVE AloneInv'
  <2>1. CASE Finish(p, "err")
    BY <1>6, <2>1, FinishAlone DEF CheckRelays, Await
  <2>2. CASE ~Finish(p, "err")
    <3>1. /\ pc[p] \in Ceremony \ {"idle"} /\ UNCHANGED <<file, reuse>>
          /\ Goto(p, "await") \/ Goto(p, "lookup")
      BY <1>6, <2>2 DEF CheckRelays, Await, Ceremony
    <3>2. \A q \in Procs \ {p} : mem'[q] = mem[q]
      BY <1>6, <2>2 DEF CheckRelays, Await, TypeOK
    <3> QED
      BY <1>5, <3>1, <3>2
  <2> QED
    BY <2>1, <2>2
<1>7. ASSUME NEW p \in Procs, Lookup(p) \/ Steer(p) PROVE AloneInv'
  <2>1. /\ pc[p] \in Ceremony \ {"idle"} /\ UNCHANGED <<file, reuse>>
        /\ Goto(p, "steer") \/ Goto(p, "save")
    BY <1>7 DEF Lookup, Steer, Ceremony
  <2>2. \A q \in Procs \ {p} : mem'[q] = mem[q]
    BY <1>7 DEF Lookup, Steer, TypeOK
  <2> QED
    BY <1>5, <2>1, <2>2
<1>8. ASSUME NEW p \in Procs, Truncate(p) PROVE AloneInv'
  <2>1. ASSUME NEW b, file' = {[data |-> mem[p], whole |-> FALSE, open |-> b]},
               Goto(p, "write"), UNCHANGED <<reuse, mem, transport>>
        PROVE  AloneInv'
    <3>1. /\ pc'[p] = "write" /\ Quiet(p) /\ UNCHANGED <<alone, result>>
      BY <2>1 DEF Goto, TypeOK, Quiet
    <3>2. \A f \in file' : f.data = mem[p] /\ Grown(f.data, mem[p])
      BY <2>1 DEF Grown
    <3>3. result[p] = "none" /\ pc[p] # "idle"
      BY <1>8 DEF Truncate, AloneInv
    <3> QED
      BY <2>1, <3>1, <3>2, <3>3, QuietStep DEF Ceremony
  <2>2. CASE Saved(p, FALSE) /\ UNCHANGED file
    <3>1. alone[p] /\ reuse[p] => \A f \in file' : Grown(f.data, mem[p])
      BY <2>2 DEF AloneInv
    <3> QED
      BY <1>8, <2>2, <3>1, SavedAlone DEF Truncate
  <2> QED
    BY <1>8, <2>1, <2>2 DEF Truncate
<1>9. ASSUME NEW p \in Procs, Write(p) PROVE AloneInv'
  <2>1. ASSUME Saved(p, FALSE), CutOff PROVE AloneInv'
    <3>1. alone[p] /\ reuse[p] => \A f \in file' : Grown(f.data, mem[p])
      BY <2>1, TypeParts, CutOffKeeps DEF AloneInv
    <3> QED
      BY <1>9, <2>1, <3>1, SavedAlone DEF Write
  <2>2. ASSUME NEW w \in BOOLEAN, Goto(p, "lock"), UNCHANGED <<reuse, mem, transport>>,
               file' = {[f EXCEPT !.data = mem[p], !.whole = w] : f \in file},
               w \/ \E f \in file : f.data # mem[p]
        PROVE  AloneInv'
    <3>1. /\ pc'[p] = "lock" /\ Quiet(p) /\ UNCHANGED <<alone, result>>
      BY <2>2 DEF Goto, TypeOK, Quiet
    <3>2. \A f \in file : /\ [f EXCEPT !.data = mem[p], !.whole = w].data = mem[p]
                          /\ [f EXCEPT !.data = mem[p], !.whole = w].whole = w
      BY DEF TypeOK, Files
    <3>3. alone[p] => w
      BY <1>9, <2>2 DEF AloneInv, Write
    <3>4. \A f \in file' : f.data = mem[p] /\ f.whole = w /\ Grown(f.data, mem[p])
      BY <2>2, <3>2 DEF Grown
    <3>5. result[p] = "none" /\ pc[p] # "idle"
      BY <1>9 DEF Write, AloneInv
    <3> QED
      BY <2>2, <3>1, <3>3, <3>4, <3>5, QuietStep DEF Ceremony
  <2> QED
    BY <1>9, <2>1, <2>2 DEF Write
<1>10. ASSUME NEW p \in Procs, Lock(p) PROVE AloneInv'
  <2>1. \A f \in file : [f EXCEPT !.open = FALSE].data = f.data
    BY DEF TypeOK, Files
  <2>2. alone[p] /\ reuse[p] => \A f \in file' : Grown(f.data, mem[p])
    <3>0. alone[p] /\ reuse[p] => \A f \in file : Grown(f.data, mem[p])
      BY DEF AloneInv
    <3>1. CASE file' = {[f EXCEPT !.open = FALSE] : f \in file}
      BY <2>1, <3>0, <3>1
    <3>2. CASE UNCHANGED file
      BY <3>2 DEF AloneInv
    <3> QED
      BY <1>10, <3>1, <3>2 DEF Lock
  <2> QED
    BY <1>10, <2>2, SavedAlone DEF Lock
<1>11. ASSUME NEW p \in Procs, Crash(p) PROVE AloneInv'
  BY <1>11, FinishAlone DEF Crash
<1>12. ASSUME UNCHANGED <<file, procVars>> PROVE AloneInv'
  BY <1>12 DEF AloneInv, procVars
<1>13. CASE Delete
  BY <1>13 DEF Delete, AloneInv, procVars
<1> QED
  BY <1>1, <1>2, <1>3, <1>4, <1>6, <1>7, <1>8, <1>9, <1>10, <1>11, <1>12, <1>13,
     <1>14 DEF Next, Run, Scan, Move, Switch, vars

LEMMA Invariants == Spec => [](TypeOK /\ AloneInv)
BY InitType, TypeStep, InitAlone, AloneStep, PTL DEF Spec

(* A ceremony that reports success, with no other command around, has left *)
(* its pairing, whole and closed, for the next run.                        *)
THEOREM CeremonyStores == Spec => OkMeansStored
<1>1. TypeOK /\ AloneInv /\ [Next]_vars =>
        [\A p \in Procs :
           pc[p] # "idle" /\ ~reuse[p] /\ alone[p] /\ result'[p] = "ok" =>
             file' = {[data |-> mem[p], whole |-> TRUE, open |-> FALSE]}]_vars
  <2> SUFFICES ASSUME TypeOK, AloneInv, Next, NEW p \in Procs,
                      pc[p] # "idle", ~reuse[p], alone[p], result'[p] = "ok"
               PROVE  file' = {[data |-> mem[p], whole |-> TRUE, open |-> FALSE]}
    BY DEF vars
  <2>1. /\ result[p] = "none" /\ pc[p] # "verify"
        /\ \A q \in Procs \ {p} : pc[q] = "idle"
    BY DEF AloneInv
  <2>2. ~(\E s : Goto(p, s)) /\ ~(UNCHANGED result) /\ ~Finish(p, "err")
        /\ ~Finish(p, "none")
    BY <2>1 DEF Goto, Finish, TypeOK
  <2>3. ASSUME NEW q \in Procs, NEW o, NEW R PROVE ~Start(q, o, R)
    BY <2>1 DEF Start, TypeOK
  <2>4. \A s \in Signers : ~Switch(s) /\ (\A c \in codes : ~Scan(s, c))
    BY <2>2 DEF Switch, Scan, procVars
  <2>5. (\A l \in links : ~Move(l)) /\ ~Delete
    BY <2>2 DEF Move, Delete, procVars
  <2>6. ASSUME NEW q \in Procs, q # p PROVE ~Run(q) /\ ~Crash(q)
    BY <2>1, <2>6 DEF Run, Crash, Load, Replace, Refresh, Verify, CheckRelays, Await,
                      Lookup, Steer, Truncate, Write, Lock
  <2>7. ~Load(p) /\ ~Replace(p) /\ ~Refresh(p) /\ ~Verify(p) /\ ~CheckRelays(p)
    BY <2>1, <2>2 DEF Load, Replace, Refresh, Verify, CheckRelays
  <2>8. ~Await(p) /\ ~Lookup(p) /\ ~Steer(p)
    BY <2>2 DEF Await, Lookup, Steer
  <2>9. ~Truncate(p) /\ ~Write(p) /\ ~Crash(p)
    BY <2>2 DEF Truncate, Write, Crash, Saved
  <2>10. Lock(p)
    BY <2>3, <2>4, <2>5, <2>6, <2>7, <2>8, <2>9 DEF Next, Run
  <2>11. /\ pc[p] = "lock" /\ file # {}
         /\ file' = {[f EXCEPT !.open = FALSE] : f \in file}
    BY <2>2, <2>10 DEF Lock, Saved
  <2>12. PICK f \in file : file = {f}
    BY <2>11 DEF TypeOK
  <2>13. f \in Files /\ f.data = mem[p] /\ f.whole = TRUE
    BY <2>11, <2>12 DEF AloneInv, TypeOK, Files
  <2>14. [f EXCEPT !.open = FALSE] = [data |-> mem[p], whole |-> TRUE, open |-> FALSE]
    <3>2. /\ [f EXCEPT !.open = FALSE].data = mem[p]
          /\ [f EXCEPT !.open = FALSE].whole = TRUE
          /\ [f EXCEPT !.open = FALSE].open = FALSE
          /\ [f EXCEPT !.open = FALSE] \in Files
      BY <2>13 DEF Files
    <3>3. \A h \in Files :
            h = [data |-> h.data, whole |-> h.whole, open |-> h.open]
      BY DEF Files
    <3> DEFINE h == [f EXCEPT !.open = FALSE]
    <3>4. h \in Files /\ h.data = mem[p] /\ h.whole = TRUE /\ h.open = FALSE
      BY <3>2
    <3> HIDE DEF h
    <3>5. h = [data |-> mem[p], whole |-> TRUE, open |-> FALSE]
      BY <3>3, <3>4
    <3> QED
      BY <3>5 DEF h
  <2> QED
    BY <2>11, <2>12, <2>14
<1> QED
  BY <1>1, Invariants, PTL DEF Spec, OkMeansStored

(* What a run that is alone with the file saves has new relays, and is     *)
(* otherwise what was there.                                               *)
THEOREM RefreshIsKept == Spec => RefreshKeeps
<1>1. TypeOK /\ TypeOK' /\ AloneInv /\ [Next]_vars =>
        [\A p \in Procs : \A f \in file, g \in file' :
           reuse[p] /\ alone[p] /\ f # g =>
             /\ g.data = [f.data EXCEPT !.relays = g.data.relays]
             /\ f.data.relays \subseteq g.data.relays]_vars
  <2> SUFFICES ASSUME TypeOK, TypeOK', AloneInv, Next, NEW p \in Procs,
                      NEW f \in file, NEW g \in file', reuse[p], alone[p], f # g
               PROVE  /\ g.data = [f.data EXCEPT !.relays = g.data.relays]
                      /\ f.data.relays \subseteq g.data.relays
    BY DEF vars
  <2>1. /\ pc[p] # "idle" /\ \A q \in Procs \ {p} : pc[q] = "idle"
        /\ \A h \in file : Grown(h.data, mem[p])
    BY DEF AloneInv
  <2>2. file' # file
    BY DEF TypeOK
  <2>3. f.data \in Pairings /\ g.data \in Pairings
    BY DEF TypeOK, Files
  <2>4. PICK q \in Procs : Truncate(q) \/ Write(q) \/ Lock(q) \/ Crash(q)
    <3>1. /\ \A q \in Procs, o \in {"pair", "qr"}, R \in Flags : ~Start(q, o, R)
          /\ \A q \in Procs : ~Load(q) /\ ~Replace(q) /\ ~Refresh(q) /\ ~Verify(q)
                              /\ ~CheckRelays(q) /\ ~Await(q) /\ ~Lookup(q)
                              /\ ~Steer(q)
      BY <2>2 DEF Start, Load, Replace, Refresh, Verify, CheckRelays, Await, Lookup,
                  Steer
    <3>2. /\ \A s \in Signers : ~Switch(s) /\ (\A c \in codes : ~Scan(s, c))
          /\ (\A l \in links : ~Move(l)) /\ ~Delete
      BY <2>2 DEF Switch, Scan, Move, Delete
    <3> QED
      BY <3>1, <3>2 DEF Next, Run
  <2>5. q = p
    <3>1. pc[q] # "idle"
      BY <2>4 DEF Truncate, Write, Lock, Crash
    <3> QED
      BY <2>1, <3>1
  <2>6. Grown(f.data, g.data)
    <3>0. CASE CutOff
      <4>1. PICK h \in file : g.data = h.data
        BY <3>0, TypeParts, CutOffKeeps
      <4> QED
        BY <4>1 DEF TypeOK, Grown
    <3>1. CASE Truncate(p)
      <4>1. PICK b : file' = {[data |-> mem[p], whole |-> FALSE, open |-> b]}
        BY <2>2, <3>1 DEF Truncate
      <4> QED
        BY <2>1, <4>1
    <3>2. CASE Write(p) /\ ~CutOff
      <4>1. PICK w : file' = {[h EXCEPT !.data = mem[p], !.whole = w] : h \in file}
        BY <3>2 DEF Write
      <4>2. \A h \in file : [h EXCEPT !.data = mem[p], !.whole = w].data = mem[p]
        BY DEF TypeOK, Files
      <4> QED
        BY <2>1, <4>1, <4>2
    <3>3. CASE Lock(p)
      <4>1. file' = {[h EXCEPT !.open = FALSE] : h \in file}
        BY <2>2, <3>3 DEF Lock
      <4>2. PICK h \in file : g = [h EXCEPT !.open = FALSE]
        BY <4>1
      <4>3. g.data = f.data
        BY <4>2 DEF TypeOK, Files
      <4> QED
        BY <4>3 DEF Grown
    <3> QED
      BY <2>2, <2>4, <2>5, <3>0, <3>1, <3>2, <3>3 DEF Crash
  <2>7. g.data = [f.data EXCEPT !.relays = g.data.relays]
    BY <2>3, <2>6 DEF Grown, Pairings
  <2> QED
    BY <2>6, <2>7 DEF Grown
<1> QED
  BY <1>1, Invariants, PTL DEF Spec, RefreshKeeps
=============================================================================
