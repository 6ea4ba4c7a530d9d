--------------------------- MODULE BlossomUploader ---------------------------
(***************************************************************************)
(* BlossomUploader (blossom.rs): the uploads of one publish run, one after *)
(* the other.  An upload goes through the servers in order: HEAD the blob, *)
(* preflight it if it is large, PUT it with the session token, and PUT it  *)
(* once more with a new token when the answer is 401.  The session token   *)
(* is kept across blobs and servers.                                       *)
(*                                                                         *)
(* Time is explicit: now is the publisher's clock in seconds.  Only what   *)
(* waits lets it advance: signing (a bunker asks its owner), the requests, *)
(* and the work between two uploads.                                       *)
(***************************************************************************)
EXTENDS Integers, FiniteSets

CONSTANTS
  NumServers,     \* --blossom servers, in the order given
  Blobs,          \* blobs to upload
  NoBlob,
  Large,          \* the blobs above PREFLIGHT_SIZE_THRESHOLD
  Ttl,            \* TOKEN_TTL_SECS
  Margin,         \* REFRESH_MARGIN_SECS
  SignDelays,     \* how long get_public_key and sign_event may take
  WorkDelays,     \* how long the pipeline works between two uploads
  NetDelays,      \* how long a PUT travels before the server checks its token
  ServerSkew,     \* seconds the clocks of the servers are ahead
  Denying,        \* servers that refuse the publisher's key (401)
  Full,           \* servers for which large blobs are too large (413)
  MaxUploads      \* bound on the number of uploads

Servers == 1..NumServers

ASSUME UploaderAssumption ==
  /\ NumServers \in Nat
  /\ NoBlob \notin Blobs /\ Large \subseteq Blobs
  /\ Ttl \in Nat /\ Margin \in Nat \ {0} /\ Margin <= Ttl
  /\ SignDelays \subseteq Nat /\ WorkDelays \subseteq Nat
  /\ NetDelays \subseteq Nat
  /\ ServerSkew \in [Servers -> Int]
  /\ MaxUploads \in Nat

VARIABLES
  now,      \* the publisher's clock
  store,    \* store[s]: the blobs that server s holds
  uploads,  \* number of uploads begun
  pc,       \* where the upload is
  blob,     \* the blob being uploaded
  server,   \* the server it is at
  attempt,  \* 1, or 2 for the PUT after a 401
  token,    \* the cached token, a set of at most one
  header,   \* the token the next PUT carries, a set of at most one
  acks,     \* success_count
  errors,   \* the servers for which an error was pushed
  outcome   \* how the last upload ended

vars == <<now, store, uploads, pc, blob, server, attempt, token, header,
          acks, errors, outcome>>

(* A token is the second at which it expires: two that are minted in the   *)
(* same second are the same event.                                         *)
Tokens == Nat

TypeOK ==
  /\ now \in Nat
  /\ store \in [Servers -> SUBSET Blobs]
  /\ uploads \in 0..MaxUploads
  /\ pc \in {"idle", "next", "preflight", "auth", "mint", "put"}
  /\ blob \in Blobs \cup {NoBlob}
  /\ server \in Nat
  /\ attempt \in {1, 2}
  /\ token \in SUBSET Tokens
  /\ header \in SUBSET Tokens
  /\ acks \in Nat
  /\ errors \in SUBSET Servers
  /\ outcome \in {"none", "ok", "err"}

Init ==
  /\ now = 0
  /\ store = [s \in Servers |-> {}]
  /\ uploads = 0
  /\ pc = "idle"
  /\ blob = NoBlob
  /\ server = 1
  /\ attempt = 1
  /\ token = {} /\ header = {}
  /\ acks = 0 /\ errors = {}
  /\ outcome = "none"

-----------------------------------------------------------------------------
(* upload(data) is called, the work since the last upload done.            *)
Begin(b) ==
  /\ pc = "idle" /\ uploads < MaxUploads
  /\ uploads' = uploads + 1
  /\ \E d \in WorkDelays : now' = now + d
  /\ blob' = b /\ server' = 1
  /\ acks' = 0 /\ errors' = {}
  /\ outcome' = "none"
  /\ pc' = "next"
  /\ UNCHANGED <<store, attempt, token, header>>

(* The loop moves to the next server, with one more success or error.      *)
Advance(ok) ==
  /\ acks' = IF ok THEN acks + 1 ELSE acks
  /\ errors' = IF ok THEN errors ELSE errors \cup {server}
  /\ server' = server + 1
  /\ attempt' = 1
  /\ header' = {}
  /\ pc' = "next"

(* check_exists: HEAD of the blob.  A server that has it is a success; one *)
(* that has not, or cannot be reached, is tried further.                   *)
CheckExists ==
  /\ pc = "next" /\ server \in Servers
  /\ \/ /\ blob \in store[server]
        /\ Advance(TRUE)
     \/ /\ pc' = IF blob \in Large THEN "preflight" ELSE "auth"
        /\ UNCHANGED <<server, attempt, header, acks, errors>>
  /\ UNCHANGED <<now, store, uploads, blob, token, outcome>>

(* Mutants: a server that is skipped counts as a success, or is waited for.*)
PreflightAck ==
  /\ pc = "preflight"
  /\ \/ Advance(TRUE)
     \/ /\ server \notin Full
        /\ pc' = "auth"
        /\ UNCHANGED <<server, attempt, header, acks, errors>>
  /\ UNCHANGED <<now, store, uploads, blob, token, outcome>>

PreflightWait ==
  /\ pc = "preflight" /\ server \notin Full
  /\ pc' = "auth"
  /\ UNCHANGED <<server, attempt, header, acks, errors>>
  /\ UNCHANGED <<now, store, uploads, blob, token, outcome>>

(* preflight_upload: 413 and a network error skip the server, any other    *)
(* answer lets the PUT go on.                                              *)
Preflight ==
  /\ pc = "preflight"
  /\ \/ Advance(FALSE)
     \/ /\ server \notin Full
        /\ pc' = "auth"
        /\ UNCHANGED <<server, attempt, header, acks, errors>>
  /\ UNCHANGED <<now, store, uploads, blob, token, outcome>>

(* Mutant: no margin.                                                      *)
ReusableUnexpired(t) == t > now

(* expires_at.saturating_sub(now) >= REFRESH_MARGIN_SECS                   *)
Reusable(t) == (IF t > now THEN t - now ELSE 0) >= Margin

(* auth_header: the cached token if enough of its life remains.            *)
AuthHeader ==
  /\ pc = "auth"
  /\ IF \E t \in token : Reusable(t)
     THEN header' = token /\ pc' = "put"
     ELSE pc' = "mint" /\ UNCHANGED header
  /\ UNCHANGED <<now, store, uploads, blob, server, attempt, token, acks,
                 errors, outcome>>

(* mint_token: the expiration counts from before the signing, which takes  *)
(* d seconds; the new token is cached and used as it is.  A signer that    *)
(* fails fails the upload to this server.                                  *)
MintToken ==
  /\ pc = "mint"
  /\ \E d \in SignDelays :
       /\ now' = now + d
       /\ \/ /\ token' = {now + Ttl}
             /\ header' = {now + Ttl}
             /\ pc' = "put"
             /\ UNCHANGED <<server, attempt, acks, errors>>
          \/ /\ Advance(FALSE)
             /\ UNCHANGED token
  /\ UNCHANGED <<store, uploads, blob, outcome>>

(* A server takes a token until its own clock says it has expired.         *)
Expired(t, d) == now + d + ServerSkew[server] >= t

(* Mutants: every 401 is retried, and the refused token is kept.           *)
RetryUnlimited ==
  /\ token' = {}
  /\ attempt' = attempt + 1
  /\ pc' = "auth"
  /\ UNCHANGED <<store, server, header, acks, errors>>

RetrySameToken ==
  /\ attempt = 1
  /\ attempt' = 2
  /\ pc' = "auth"
  /\ UNCHANGED <<store, server, token, header, acks, errors>>

(* The first 401 drops the cached token and asks for another one.          *)
Retry401 ==
  /\ attempt = 1
  /\ token' = {}
  /\ attempt' = 2
  /\ pc' = "auth"
  /\ UNCHANGED <<store, server, header, acks, errors>>

(* PUT: 401 for an expired token or a refused key, else 413, any other     *)
(* error, or the blob is stored; the answer to a stored blob may be lost.  *)
PutUpload ==
  /\ pc = "put"
  /\ \E t \in header, d \in NetDelays :
       LET unauthorized == Expired(t, d) \/ server \in Denying IN
       /\ now' = now + d
       /\ \/ unauthorized /\ Retry401
          \/ /\ unauthorized /\ attempt = 2
             /\ Advance(FALSE)
             /\ UNCHANGED <<store, token>>
          \/ /\ ~unauthorized /\ ~(server \in Full /\ blob \in Large)
             /\ store' = [store EXCEPT ![server] = @ \cup {blob}]
             /\ \E answered \in BOOLEAN : Advance(answered)
             /\ UNCHANGED token
          \/ /\ Advance(FALSE)
             /\ UNCHANGED <<store, token>>
  /\ UNCHANGED <<uploads, blob, outcome>>

(* Mutant: the first success returns.                                      *)
ReturnEarly ==
  /\ pc = "next" /\ (server = NumServers + 1 \/ acks > 0)
  /\ outcome' = IF acks > 0 THEN "ok" ELSE "err"
  /\ blob' = NoBlob
  /\ pc' = "idle"
  /\ UNCHANGED <<now, store, uploads, server, attempt, token, header, acks,
                 errors>>

(* After the last server: Ok as soon as one server has the blob.           *)
Return ==
  /\ pc = "next" /\ server = NumServers + 1
  /\ outcome' = IF acks > 0 THEN "ok" ELSE "err"
  /\ blob' = NoBlob
  /\ pc' = "idle"
  /\ UNCHANGED <<now, store, uploads, server, attempt, token, header, acks,
                 errors>>

Run == CheckExists \/ Preflight \/ AuthHeader \/ MintToken \/ PutUpload \/ Return

Next == (\E b \in Blobs : Begin(b)) \/ Run

Spec == Init /\ [][Next]_vars

(* The loop goes on.  For the requests this is an assumption: the client   *)
(* has no time-out, so a server that never answers holds the upload.       *)
FairSpec == Spec /\ WF_vars(Run)

-----------------------------------------------------------------------------
(* The uploader does what the pipeline relies on: Ok only when a server    *)
(* has the blob, whatever was refused, retried or lost on the way.         *)
Promise == INSTANCE BlobUpload
UploadPromise == Promise!Spec

(* When an upload returns, a server is without the blob only if an error   *)
(* was pushed for it ("does not stop at first success"), and the upload    *)
(* fails only if one was pushed for every server.  An error need not mean  *)
(* that the server has no blob: the answer to the PUT may be lost.         *)
EveryServerTried ==
  [][pc # "idle" /\ pc' = "idle" =>
       /\ \A s \in Servers : blob \in store[s] \/ s \in errors
       /\ outcome' = "err" <=> errors = Servers]_vars

(* The PUT after a 401 is refused for the age of its token only where no   *)
(* new token would do: where its signing, the way of the request and the   *)
(* lead of the server's clock take a token's whole life ("retry with a     *)
(* fresh token").                                                          *)
RetryAccepted ==
  pc = "put" /\ attempt = 2 =>
    \A t \in header, d \in NetDelays :
      Expired(t, d) => \E w \in SignDelays : w + d + ServerSkew[server] >= Ttl

(* A token goes out with at least REFRESH_MARGIN_SECS of life ("Re-mint    *)
(* when less than this much validity remains").                            *)
HeaderFresh ==
  pc = "put" => \A t \in header : t - now >= Margin

(* Every upload returns.                                                   *)
UploadReturns == pc # "idle" ~> pc = "idle"
=============================================================================
