------------------------ MODULE BlossomUploaderProofs ------------------------
(***************************************************************************)
(* Theorems about BlossomUploader, for any number of servers, blobs and    *)
(* uploads, any delays, clocks and refusals.                               *)
(***************************************************************************)
EXTENDS BlossomUploader, TLAPS

(* Where an upload is: at every server before the current one either an    *)
(* error was pushed or the blob is stored, and there is a success exactly  *)
(* if one of them has no error.                                            *)
Progress ==
  /\ pc = "idle" <=> blob = NoBlob
  /\ server \in 1..(NumServers + 1)
  /\ pc \in {"preflight", "auth", "mint", "put"} => server \in Servers
  /\ errors \subseteq 1..(server - 1)
  /\ acks > 0 <=> \E s \in 1..(server - 1) : s \notin errors
  /\ pc # "idle" => \A s \in 1..(server - 1) : s \in errors \/ blob \in store[s]

IInv == TypeOK /\ Progress

(* It holds at the start.                                                  *)
LEMMA InitIInv == Init => IInv
BY UploaderAssumption DEF Init, IInv, TypeOK, Progress, Servers

(* A step of the loop keeps it.                                            *)
LEMMA AdvanceIInv ==
  ASSUME IInv, NEW ok \in BOOLEAN, Advance(ok), server \in Servers, blob' = blob,
         outcome' = outcome, now' \in Nat, uploads' = uploads, pc # "idle",
         store' \in [Servers -> SUBSET Blobs], token' \in SUBSET Tokens,
         \A s \in Servers : store[s] \subseteq store'[s],
         ok => blob \in store'[server]
  PROVE  IInv'
<1>1. TypeOK'
  BY DEF IInv, TypeOK, Advance
<1>2. Progress'
  <2> USE UploaderAssumption
  <2>1. /\ server \in 1..NumServers /\ server \in Nat /\ server' = server + 1
        /\ server' \in 1..(NumServers + 1)
        /\ 1..(server' - 1) = (1..(server - 1)) \cup {server}
        /\ server \notin 1..(server - 1)
    BY DEF IInv, TypeOK, Advance, Servers
  <2>2. server \notin errors
    BY <2>1 DEF IInv, Progress
  <2>3. errors' \subseteq 1..(server' - 1)
    BY <2>1 DEF IInv, Progress, Advance
  <2>4. acks' > 0 <=> \E s \in 1..(server' - 1) : s \notin errors'
    <3>1. CASE ok
      BY <2>1, <2>2, <3>1 DEF IInv, TypeOK, Advance
    <3>2. CASE ~ok
      <4>1. acks' = acks /\ errors' = errors \cup {server}
        BY <3>2 DEF Advance
      <4> QED
        BY <2>1, <4>1 DEF IInv, Progress
    <3> QED
      BY <3>1, <3>2
  <2>5. ASSUME NEW s \in 1..(server' - 1) PROVE s \in errors' \/ blob' \in store'[s]
    <3>1. CASE s = server
      BY <3>1 DEF Advance
    <3>2. CASE s # server
      <4>1. s \in 1..(server - 1) /\ s \in Servers
        BY <2>1, <3>2 DEF Servers
      <4> QED
        BY <4>1 DEF IInv, Progress, Advance
    <3> QED
      BY <3>1, <3>2
  <2> QED
    BY <2>1, <2>3, <2>4, <2>5 DEF IInv, Progress, Advance
<1> QED
  BY <1>1, <1>2 DEF IInv

(* Every step keeps it.                                                    *)
LEMMA NextIInv == IInv /\ [Next]_vars => IInv'
<1> SUFFICES ASSUME IInv, [Next]_vars PROVE IInv'
  OBVIOUS
<1> USE UploaderAssumption
<1>0. TypeOK /\ Progress
  BY DEF IInv
<1>1. ASSUME NEW b \in Blobs, Begin(b) PROVE IInv'
  <2>1. TypeOK'
    BY <1>0, <1>1 DEF TypeOK, Begin
  <2>2. Progress'
    BY <1>0, <1>1 DEF TypeOK, Begin, Progress, Servers
  <2> QED
    BY <2>1, <2>2 DEF IInv
<1>2. CASE CheckExists
  <2>1. CASE blob \in store[server] /\ Advance(TRUE)
    BY <1>0, <1>2, <2>1, AdvanceIInv DEF CheckExists, TypeOK
  <2>2. CASE /\ pc' = IF blob \in Large THEN "preflight" ELSE "auth"
             /\ UNCHANGED <<server, attempt, header, acks, errors>>
    BY <1>0, <1>2, <2>2 DEF CheckExists, IInv, TypeOK, Progress
  <2> QED
    BY <1>2, <2>1, <2>2 DEF CheckExists
<1>3. CASE Preflight
  <2>1. CASE Advance(FALSE)
    BY <1>0, <1>3, <2>1, AdvanceIInv DEF Preflight, TypeOK, Progress
  <2>2. CASE pc' = "auth" /\ UNCHANGED <<server, attempt, header, acks, errors>>
    BY <1>0, <1>3, <2>2 DEF Preflight, IInv, TypeOK, Progress
  <2> QED
    BY <1>3, <2>1, <2>2 DEF Preflight
<1>4. CASE AuthHeader
  BY <1>0, <1>4 DEF AuthHeader, IInv, TypeOK, Progress
<1>5. CASE MintToken
  <2>1. PICK d \in SignDelays :
          /\ now' = now + d
          /\ \/ /\ token' = {now + Ttl} /\ header' = {now + Ttl} /\ pc' = "put"
                /\ UNCHANGED <<server, attempt, acks, errors>>
             \/ Advance(FALSE) /\ UNCHANGED token
    BY <1>5 DEF MintToken
  <2>2. now' \in Nat /\ now + Ttl \in Tokens
    BY <1>0, <2>1 DEF TypeOK, Tokens
  <2>3. pc = "mint" /\ UNCHANGED <<store, uploads, blob, outcome>>
    BY <1>5 DEF MintToken
  <2>4. CASE Advance(FALSE) /\ UNCHANGED token
    BY <1>0, <2>2, <2>3, <2>4, AdvanceIInv DEF TypeOK, Progress
  <2>5. CASE /\ token' = {now + Ttl} /\ header' = {now + Ttl} /\ pc' = "put"
             /\ UNCHANGED <<server, attempt, acks, errors>>
    BY <1>0, <2>2, <2>3, <2>5 DEF IInv, TypeOK, Progress
  <2> QED
    BY <2>1, <2>4, <2>5
<1>6. CASE PutUpload
  <2>1. /\ now' \in Nat /\ pc = "put" /\ server \in Servers /\ blob \in Blobs
        /\ UNCHANGED <<uploads, blob, outcome>>
    BY <1>0, <1>6 DEF TypeOK, Progress, PutUpload, Retry401
  <2>2. CASE /\ token' = {} /\ attempt' = 2 /\ pc' = "auth"
             /\ UNCHANGED <<store, server, header, acks, errors>>
    BY <1>0, <2>1, <2>2 DEF IInv, TypeOK, Progress
  <2>3. CASE Advance(FALSE) /\ UNCHANGED store /\ token' = token
    BY <1>0, <2>1, <2>3, AdvanceIInv DEF TypeOK
  <2>4. CASE /\ store' = [store EXCEPT ![server] = @ \cup {blob}]
             /\ \E answered \in BOOLEAN : Advance(answered)
             /\ UNCHANGED token
    <3>1. store' \in [Servers -> SUBSET Blobs]
      BY <1>0, <2>1, <2>4 DEF TypeOK
    <3>2. /\ \A s \in Servers : store[s] \subseteq store'[s]
          /\ blob \in store'[server]
      BY <1>0, <2>1, <2>4 DEF TypeOK
    <3> QED
      BY <1>0, <2>1, <2>4, <3>1, <3>2, AdvanceIInv DEF TypeOK
  <2> QED
    BY <1>6, <2>2, <2>3, <2>4 DEF PutUpload, Retry401
<1>7. CASE Return
  BY <1>0, <1>7 DEF Return, IInv, TypeOK, Progress
<1>8. CASE UNCHANGED vars
  BY <1>0, <1>8 DEF vars, IInv, TypeOK, Progress
<1> QED
  BY <1>1, <1>2, <1>3, <1>4, <1>5, <1>6, <1>7, <1>8 DEF Next, Run

(* The invariant holds throughout.                                         *)
THEOREM Invariant == Spec => []IInv
BY InitIInv, NextIInv, PTL DEF Spec

(* The variables have their types: no upload has more than two attempts at *)
(* a server, whatever the server answers.                                  *)
THEOREM TypeCorrect == Spec => []TypeOK
<1>1. IInv => TypeOK
  BY DEF IInv
<1> QED
  BY <1>1, Invariant, PTL

(* An upload that returns has stored the blob at every server for which it *)
(* pushed no error, and fails only with an error for each of them.         *)
THEOREM AllServersTried == Spec => EveryServerTried
<1>1. IInv /\ [Next]_vars =>
        [pc # "idle" /\ pc' = "idle" =>
           /\ \A s \in Servers : blob \in store[s] \/ s \in errors
           /\ outcome' = "err" <=> errors = Servers]_vars
  <2> SUFFICES ASSUME IInv, [Next]_vars, pc # "idle", pc' = "idle"
               PROVE  /\ \A s \in Servers : blob \in store[s] \/ s \in errors
                      /\ outcome' = "err" <=> errors = Servers
    OBVIOUS
  <2>1. Return
    BY DEF Next, Run, Begin, CheckExists, Preflight, AuthHeader, MintToken, PutUpload,
       Retry401, Advance, vars
  <2>2. server = NumServers + 1 /\ (outcome' = "err" <=> ~(acks > 0))
    BY <2>1 DEF Return
  <2>3. 1..(server - 1) = Servers
    BY <2>2, UploaderAssumption DEF Servers
  <2> QED
    BY <2>2, <2>3 DEF IInv, Progress
<1> QED
  BY <1>1, Invariant, PTL DEF Spec, EveryServerTried

(* The uploader implements what the publish pipeline assumes of an upload  *)
(* (BlobUpload): it only ever stores the blob it was given, and returns Ok *)
(* only when a server has it.                                              *)
THEOREM ImplementsPromise == Spec => UploadPromise
<1>1. Init => Promise!Init
  BY DEF Init, Promise!Init
<1>2. IInv /\ [Next]_vars => [Promise!Next]_<<store, blob, outcome>>
  <2> SUFFICES ASSUME IInv, [Next]_vars
               PROVE  Promise!Next \/ UNCHANGED <<store, blob, outcome>>
    OBVIOUS
  <2>1. ASSUME NEW b \in Blobs, Begin(b) PROVE Promise!Next
    BY <2>1 DEF IInv, Progress, Begin, Promise!Next, Promise!Begin
  <2>2. CASE CheckExists \/ Preflight \/ AuthHeader \/ MintToken
    BY <2>2 DEF CheckExists, Preflight, AuthHeader, MintToken
  <2>3. CASE PutUpload
    <3>1. pc = "put" /\ blob # NoBlob /\ server \in Servers
      BY <2>3 DEF PutUpload, Retry401, IInv, Progress
    <3>2. CASE store' = [store EXCEPT ![server] = @ \cup {blob}]
      BY <2>3, <3>1, <3>2 DEF PutUpload, Retry401, Promise!Next, Promise!Accept
    <3>3. CASE UNCHANGED store
      BY <2>3, <3>3 DEF PutUpload, Retry401
    <3> QED
      BY <2>3, <3>2, <3>3 DEF PutUpload, Retry401
  <2>4. CASE Return
    <3>1. pc = "next" /\ blob # NoBlob /\ blob' = NoBlob /\ UNCHANGED store
      BY <2>4 DEF Return, IInv, Progress
    <3>2. CASE acks > 0
      <4>1. 1..(server - 1) = Servers
        BY <2>4, UploaderAssumption DEF Return, Servers
      <4>2. \E s \in Servers : blob \in store[s]
        BY <3>1, <3>2, <4>1 DEF IInv, Progress
      <4> QED
        BY <2>4, <3>1, <3>2, <4>2 DEF Return, Promise!Next, Promise!Succeed
    <3>3. CASE ~(acks > 0)
      BY <2>4, <3>1, <3>3 DEF Return, Promise!Next, Promise!Fail
    <3> QED
      BY <3>2, <3>3
  <2>5. CASE UNCHANGED vars
    BY <2>5 DEF vars
  <2> QED
    BY <2>1, <2>2, <2>3, <2>4, <2>5 DEF Next, Run
<1> QED
  BY <1>1, <1>2, Invariant, PTL DEF Spec, UploadPromise, Promise!Spec

-----------------------------------------------------------------------------
(* The session token.                                                      *)

(* At most one token is cached.  After a 401 none is, until a new one is   *)
(* minted, and the PUT then carries that one: its life began as long ago as*)
(* signing it took.                                                        *)
TokenInv ==
  /\ \A t \in token, u \in token : t = u
  /\ pc \in {"idle", "next", "preflight"} => attempt = 1
  /\ attempt = 2 /\ pc \in {"auth", "mint"} => token = {}
  /\ attempt = 2 /\ pc = "put" =>
       \A t \in header : \E w \in SignDelays : t = now - w + Ttl

(* Every step keeps it.                                                    *)
LEMMA NextTokenInv == TypeOK /\ TokenInv /\ [Next]_vars => TokenInv'
<1> SUFFICES ASSUME TypeOK, TokenInv, [Next]_vars PROVE TokenInv'
  OBVIOUS
<1>1. ASSUME NEW b \in Blobs, Begin(b) PROVE TokenInv'
  BY <1>1 DEF TokenInv, Begin
<1>2. CASE CheckExists
  BY <1>2 DEF TokenInv, CheckExists, Advance
<1>3. CASE Preflight
  BY <1>3 DEF TokenInv, Preflight, Advance
<1>4. CASE AuthHeader
  <2>1. CASE \E t \in token : Reusable(t)
    BY <1>4, <2>1 DEF TokenInv, TypeOK, AuthHeader
  <2>2. CASE ~\E t \in token : Reusable(t)
    BY <1>4, <2>2 DEF TokenInv, AuthHeader
  <2> QED
    BY <2>1, <2>2
<1>5. CASE MintToken
  <2>1. PICK d \in SignDelays :
          /\ now' = now + d
          /\ \/ token' = {now + Ttl} /\ header' = {now + Ttl} /\ pc' = "put"
             \/ Advance(FALSE) /\ UNCHANGED token
    BY <1>5 DEF MintToken
  <2>2. CASE Advance(FALSE) /\ UNCHANGED token
    BY <2>2 DEF TokenInv, Advance
  <2>3. CASE token' = {now + Ttl} /\ header' = {now + Ttl} /\ pc' = "put"
    <3>1. now + Ttl = now' - d + Ttl
      BY <2>1, UploaderAssumption DEF TypeOK
    <3> QED
      BY <2>3, <3>1 DEF TokenInv
  <2> QED
    BY <2>1, <2>2, <2>3
<1>6. CASE PutUpload
  <2>1. CASE token' = {} /\ pc' = "auth"
    BY <2>1 DEF TokenInv
  <2>2. CASE token' = token /\ pc' = "next" /\ attempt' = 1
    BY <2>2 DEF TokenInv
  <2> QED
    BY <1>6, <2>1, <2>2 DEF PutUpload, Retry401, Advance
<1>7. CASE Return
  <2>1. token' = token /\ pc = "next" /\ pc' = "idle" /\ attempt' = attempt
    BY <1>7 DEF Return
  <2> QED
    BY <2>1 DEF TokenInv
<1>8. CASE UNCHANGED vars
  BY <1>8 DEF vars, TokenInv
<1> QED
  BY <1>1, <1>2, <1>3, <1>4, <1>5, <1>6, <1>7, <1>8 DEF Next, Run

(* It holds throughout.                                                    *)
LEMMA AlwaysTokenInv == Spec => [](TypeOK /\ TokenInv)
<1>1. Init => TokenInv
  BY DEF Init, TokenInv
<1>2. IInv => TypeOK
  BY DEF IInv
<1> QED
  BY <1>1, <1>2, Invariant, NextTokenInv, PTL DEF Spec

(* The PUT after a 401 is refused for the age of its token only where the  *)
(* delays and the clock of the server leave no time to use a new one.      *)
THEOREM RetriesAreAccepted == Spec => []RetryAccepted
<1>1. IInv /\ TokenInv => RetryAccepted
  <2> SUFFICES ASSUME IInv, TokenInv, pc = "put", attempt = 2,
                      NEW t \in header, NEW d \in NetDelays, Expired(t, d)
               PROVE  \E w \in SignDelays : w + d + ServerSkew[server] >= Ttl
    BY DEF RetryAccepted
  <2>1. PICK w \in SignDelays : t = now - w + Ttl
    BY DEF TokenInv
  <2>2. now \in Nat /\ server \in Servers
    BY DEF IInv, TypeOK, Progress
  <2>3. d \in Nat /\ w \in Nat /\ Ttl \in Nat /\ ServerSkew[server] \in Int
    BY <2>2, UploaderAssumption
  <2>4. now + d + ServerSkew[server] >= now - w + Ttl
    BY <2>1 DEF Expired
  <2> QED
    BY <2>2, <2>3, <2>4
<1> QED
  BY <1>1, Invariant, AlwaysTokenInv, PTL

(* Signing is quick enough for a new token to be as good as a reused one.  *)
QuickSigner == \A d \in SignDelays : d + Margin <= Ttl

(* With a quick signer every PUT carries a token with at least             *)
(* REFRESH_MARGIN_SECS of life: what the comment on that constant says.    *)
THEOREM QuickSignerFresh ==
  ASSUME QuickSigner PROVE Spec => []HeaderFresh
<1>1. TypeOK /\ TokenInv /\ HeaderFresh /\ [Next]_vars => HeaderFresh'
  <2> SUFFICES ASSUME TypeOK, TokenInv, HeaderFresh, [Next]_vars PROVE HeaderFresh'
    OBVIOUS
  <2>1. CASE AuthHeader
    <3>1. CASE \E t \in token : Reusable(t)
      <4>1. PICK t \in token : Reusable(t)
        BY <3>1
      <4>2. t - now >= Margin
        BY <4>1, UploaderAssumption DEF Reusable, TypeOK, Tokens
      <4>3. header' \subseteq {t} /\ now' = now
        BY <2>1, <3>1, <4>1 DEF AuthHeader, TokenInv
      <4> QED
        BY <4>2, <4>3 DEF HeaderFresh
    <3>2. CASE ~\E t \in token : Reusable(t)
      BY <2>1, <3>2 DEF AuthHeader, HeaderFresh
    <3> QED
      BY <3>1, <3>2
  <2>2. CASE MintToken
    <3>1. PICK d \in SignDelays :
            /\ now' = now + d
            /\ \/ header' = {now + Ttl}
               \/ Advance(FALSE)
      BY <2>2 DEF MintToken
    <3>2. now \in Nat /\ d \in Nat /\ Ttl \in Nat /\ Margin \in Nat /\ d + Margin <= Ttl
      BY UploaderAssumption DEF TypeOK, QuickSigner
    <3>3. CASE Advance(FALSE)
      BY <3>3 DEF Advance, HeaderFresh
    <3>4. CASE header' = {now + Ttl}
      BY <3>1, <3>2, <3>4 DEF HeaderFresh
    <3> QED
      BY <3>1, <3>3, <3>4
  <2>3. CASE UNCHANGED vars
    BY <2>3 DEF vars, HeaderFresh
  <2>4. CASE ~AuthHeader /\ ~MintToken /\ ~UNCHANGED vars
    <3>1. pc' # "put"
      BY <2>4 DEF Next, Run, Begin, CheckExists, Preflight, PutUpload, Retry401, Return, Advance
    <3> QED
      BY <3>1 DEF HeaderFresh
  <2> QED
    BY <2>1, <2>2, <2>3, <2>4
<1>2. Init => HeaderFresh
  BY DEF Init, HeaderFresh
<1> QED
  BY <1>1, <1>2, AlwaysTokenInv, PTL DEF Spec
=============================================================================
