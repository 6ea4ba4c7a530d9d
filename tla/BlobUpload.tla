----------------------------- MODULE BlobUpload -----------------------------
(***************************************************************************)
(* What an upload of one blob promises to the publish pipeline: while it   *)
(* runs, servers may come to hold the blob; it may return Ok only when     *)
(* some server holds it, and it never touches another blob.                *)
(* Publish!Upload is one such upload in one step.                          *)
(***************************************************************************)
CONSTANTS Servers, Blobs, NoBlob

VARIABLES
  store,    \* store[s]: the blobs that server s holds
  blob,     \* the blob being uploaded, or NoBlob
  outcome   \* how the last upload ended

Init ==
  /\ store = [s \in Servers |-> {}]
  /\ blob = NoBlob
  /\ outcome = "none"

Begin(b) ==
  /\ blob = NoBlob
  /\ blob' = b
  /\ outcome' = "none"
  /\ UNCHANGED store

Accept(s) ==
  /\ blob # NoBlob
  /\ store' = [store EXCEPT ![s] = @ \cup {blob}]
  /\ UNCHANGED <<blob, outcome>>

Succeed ==
  /\ blob # NoBlob
  /\ \E s \in Servers : blob \in store[s]
  /\ blob' = NoBlob
  /\ outcome' = "ok"
  /\ UNCHANGED store

Fail ==
  /\ blob # NoBlob
  /\ blob' = NoBlob
  /\ outcome' = "err"
  /\ UNCHANGED store

Next ==
  \/ \E b \in Blobs : Begin(b)
  \/ \E s \in Servers : Accept(s)
  \/ Succeed
  \/ Fail

Spec == Init /\ [][Next]_<<store, blob, outcome>>
=============================================================================
