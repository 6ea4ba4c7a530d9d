------------------------------ MODULE MCPublish ------------------------------
(***************************************************************************)
(* Small instances of Publish.  The paths: app refers to lib.              *)
(***************************************************************************)
EXTENDS Publish, TLC

CONSTANTS app, lib, s1, s2, k1, k2, xz, r1, r2, p1, p2

TwoPaths == {app, lib}
RefsOf == (app :> {lib}) @@ (lib :> {})
BothRelays == {r1, r2}
NoSkew == [p \in Publishers |-> 0]

Command(X, S, k, d) ==
  [paths |-> X, servers |-> S, key |-> k, comp |-> xz, dry |-> d]

(* Different servers, keys and closures, and a dry run.                    *)
MixedConfigs ==
  {Command({lib}, {s1}, k1, FALSE), Command({app, lib}, {s2}, k2, FALSE),
   Command({app, lib}, {s1}, k1, TRUE)}

(* The same server and key in every run.                                   *)
UniformConfigs ==
  {Command({lib}, {s1}, k1, FALSE), Command({app, lib}, {s1}, k1, FALSE)}

(* A run that moves to another server.                                     *)
MovingConfigs ==
  {Command({lib}, {s1}, k1, FALSE), Command({app, lib}, {s2}, k1, FALSE)}

AnySubset == SUBSET Relays
AllAnswer == {Relays}
Second == {1}
SameSecond == {0, 1}

Symmetric == Permutations(Relays) \cup Permutations(Publishers)
=============================================================================
