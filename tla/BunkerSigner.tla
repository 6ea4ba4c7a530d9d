---------------------------- MODULE BunkerSigner ----------------------------
(***************************************************************************)
(* The NIP-46 remote signer (nip46/signer.rs): callers that share one      *)
(* BunkerSigner, the task that dispatches responses, and the signer app    *)
(* behind relays that lose, delay, repeat and reorder what they carry.     *)
(*                                                                         *)
(* started and handshook are OnceCells: one caller at a time is inside the *)
(* initialiser, and one that fails or is cancelled there leaves the cell   *)
(* empty for the next.                                                     *)
(***************************************************************************)
EXTENDS Integers

CONSTANTS
  Callers,   \* the tasks that use the signer
  UserKeys,  \* the identities the signer app may answer with
  MaxCalls   \* bound on the number of calls

ASSUME SignerAssumption == UserKeys # {} /\ MaxCalls \in Nat

(* What a caller asks for.  "sign" stands for sign_event, nip44_encrypt and*)
(* nip44_decrypt, which are alike; only refresh_relays takes no handshake. *)
Calls == {"pubkey", "sign", "relays"}
Methods == Calls \cup {"connect"}

NoCall == "none"
Ids == Nat \ {0}

VARIABLES
  secret,     \* the bunker URL has a secret (not so after pairing)
  userKey,    \* user_pubkey, a set of at most one
  started,    \* the cell of ensure_started
  handshook,  \* the cell of ensure_handshake
  listening,  \* the dispatching task takes notifications
  pending,    \* the ids of the pending requests
  sent,       \* the requests that some relay has taken
  calls,      \* number of calls
  lastId,     \* the ids drawn so far are 1..lastId
  pc,         \* where the call of c is
  op,         \* what c called for
  doing,      \* the method of its round trip
  id,         \* the id of its round trip
  inbox,      \* its oneshot channel, a set of at most one response
  result      \* how its last call ended

shared == <<userKey, started, handshook, listening, pending, sent, lastId>>
vars == <<secret, userKey, started, handshook, listening, pending, sent,
          calls, lastId, pc, op, doing, id, inbox, result>>

Requests == [id : Ids, method : Methods, by : Callers]

(* The values of an answer: the key, an acknowledgement or whatever else   *)
(* was asked for, or an error, a demand for approval, an unusable answer.  *)
Values == UserKeys \cup {"done", "refused"}
Responses == [id : Ids, val : Values]
Results == {"none", "err"} \cup Values

TypeOK ==
  /\ secret \in BOOLEAN
  /\ userKey \in SUBSET UserKeys
  /\ started \in BOOLEAN /\ handshook \in BOOLEAN /\ listening \in BOOLEAN
  /\ pending \in SUBSET Ids
  /\ sent \in SUBSET Requests
  /\ calls \in 0..MaxCalls
  /\ lastId \in Nat
  /\ pc \in [Callers -> {"idle", "handshake", "start", "starting", "send", "await"}]
  /\ op \in [Callers -> Calls \cup {NoCall}]
  /\ doing \in [Callers -> Methods \cup {NoCall}]
  /\ id \in [Callers -> Nat]
  /\ inbox \in [Callers -> SUBSET Responses]
  /\ result \in [Callers -> Results]

-----------------------------------------------------------------------------
(* BunkerSigner::new; or transport_only and paired, with the handshake done*)
(* and perhaps the user key known.                                         *)
Init ==
  /\ secret \in BOOLEAN
  /\ handshook = ~secret
  /\ userKey \in {{}} \cup (IF secret THEN {} ELSE {{k} : k \in UserKeys})
  /\ started = FALSE /\ listening = FALSE
  /\ pending = {} /\ sent = {}
  /\ calls = 0 /\ lastId = 0
  /\ pc = [c \in Callers |-> "idle"]
  /\ op = [c \in Callers |-> NoCall]
  /\ doing = [c \in Callers |-> NoCall]
  /\ id = [c \in Callers |-> 0]
  /\ inbox = [c \in Callers |-> {}]
  /\ result = [c \in Callers |-> "none"]

(* The call of c returns, or is cancelled: what it awaits is dropped, a    *)
(* cell it was initialising is free again, its pending entry stays.        *)
Return(c, res) ==
  /\ pc' = [pc EXCEPT ![c] = "idle"]
  /\ op' = [op EXCEPT ![c] = NoCall]
  /\ doing' = [doing EXCEPT ![c] = NoCall]
  /\ id' = [id EXCEPT ![c] = 0]
  /\ inbox' = [inbox EXCEPT ![c] = {}]
  /\ result' = [result EXCEPT ![c] = res]

Fail(c) == Return(c, "err") /\ UNCHANGED shared

(* c calls for o.  A user key that is known is returned at once.           *)
Begin(c, o) ==
  /\ pc[c] = "idle" /\ calls < MaxCalls
  /\ secret => o # "relays"
  /\ calls' = calls + 1
  /\ \/ /\ o = "pubkey"
        /\ \E k \in userKey : Return(c, k)
     \/ /\ o = "pubkey" => userKey = {}
        /\ op' = [op EXCEPT ![c] = o]
        /\ doing' = [doing EXCEPT ![c] = o]
        /\ pc' = [pc EXCEPT ![c] = IF secret THEN "handshake" ELSE "start"]
        /\ result' = [result EXCEPT ![c] = "none"]
        /\ UNCHANGED <<id, inbox>>
  /\ UNCHANGED <<secret, shared>>

(* Mutant: who finds a handshake under way goes on without its result.     *)
EnsureHandshakeHasty(c) ==
  /\ pc[c] = "handshake"
  /\ doing' = [doing EXCEPT ![c] =
                 IF handshook \/ \E d \in Callers : doing[d] = "connect"
                 THEN @ ELSE "connect"]
  /\ pc' = [pc EXCEPT ![c] = "start"]
  /\ UNCHANGED <<secret, shared, calls, op, id, inbox, result>>

(* ensure_handshake: go on when it was done, wait while another caller is  *)
(* at it, else do it.                                                      *)
EnsureHandshake(c) ==
  /\ pc[c] = "handshake"
  /\ \/ handshook /\ UNCHANGED doing
     \/ /\ ~handshook
        /\ \A d \in Callers : doing[d] # "connect"
        /\ doing' = [doing EXCEPT ![c] = "connect"]
  /\ pc' = [pc EXCEPT ![c] = "start"]
  /\ UNCHANGED <<secret, shared, calls, op, id, inbox, result>>

(* ensure_started: the first caller connects and subscribes.               *)
EnterStart(c) ==
  /\ pc[c] = "start" /\ ~started
  /\ \A d \in Callers : pc[d] # "starting"
  /\ pc' = [pc EXCEPT ![c] = "starting"]
  /\ UNCHANGED <<secret, shared, calls, op, doing, id, inbox, result>>

Started(c) ==
  /\ pc[c] = "starting"
  /\ \/ /\ started' = TRUE
        /\ pc' = [pc EXCEPT ![c] = "start"]
        /\ UNCHANGED <<userKey, handshook, listening, pending, sent, lastId,
                       op, doing, id, inbox, result>>
     \/ Fail(c)
  /\ UNCHANGED <<secret, calls>>

(* The spawned task comes to run; what arrived before is lost.             *)
Listen ==
  /\ started /\ ~listening
  /\ listening' = TRUE
  /\ UNCHANGED <<secret, userKey, started, handshook, pending, sent, calls,
                 lastId, pc, op, doing, id, inbox, result>>

-----------------------------------------------------------------------------
(* One round trip (rpc, rpc_raw).                                          *)

(* Mutant: the entry is made only after the request is sent.               *)
InsertLater(c) ==
  /\ pc[c] = "start" /\ started
  /\ lastId' = lastId + 1
  /\ id' = [id EXCEPT ![c] = lastId + 1]
  /\ pc' = [pc EXCEPT ![c] = "send"]
  /\ UNCHANGED <<userKey, started, handshook, listening, pending, sent, op,
                 doing, inbox, result, secret, calls>>

(* The request is encrypted and entered in pending under a new id.         *)
Insert(c) ==
  /\ pc[c] = "start" /\ started
  /\ \/ /\ lastId' = lastId + 1
        /\ pending' = pending \cup {lastId + 1}
        /\ id' = [id EXCEPT ![c] = lastId + 1]
        /\ pc' = [pc EXCEPT ![c] = "send"]
        /\ UNCHANGED <<userKey, started, handshook, listening, sent, op,
                       doing, inbox, result>>
     \/ Fail(c)
  /\ UNCHANGED <<secret, calls>>

(* A relay takes the request while send_event waits for the others.        *)
Publish(c) ==
  /\ pc[c] = "send"
  /\ \A r \in sent : r.id # id[c]
  /\ sent' = sent \cup {[id |-> id[c], method |-> doing[c], by |-> c]}
  /\ UNCHANGED <<secret, userKey, started, handshook, listening, pending,
                 calls, lastId, pc, op, doing, id, inbox, result>>

(* send_event returns: some relay took the request, or none is known to.   *)
SendReturns(c) ==
  /\ pc[c] = "send"
  /\ \/ /\ \E r \in sent : r.id = id[c]
        /\ pc' = [pc EXCEPT ![c] = "await"]
        /\ UNCHANGED <<shared, op, doing, id, inbox, result>>
     \/ Fail(c)
  /\ UNCHANGED <<secret, calls>>

(* Mutant: a result that is no public key is taken for one.                *)
AnswersUnparsed(r) == {"refused", "done"} \cup UserKeys

(* The answers the signer may give to a request.                           *)
Answers(r) ==
  {"refused"} \cup (IF r.method = "pubkey" THEN UserKeys ELSE {"done"})

(* Mutant: the response completes whatever its caller is waiting for.      *)
ResponseByCaller(r) ==
  /\ listening /\ r.id \in pending
  /\ pending' = pending \ {r.id}
  /\ \E v \in Answers(r) :
       inbox' = [inbox EXCEPT ![r.by] =
                   IF pc[r.by] \in {"send", "await"}
                   THEN {[id |-> r.id, val |-> v]} ELSE @]
  /\ UNCHANGED <<secret, userKey, started, handshook, listening, sent, calls,
                 lastId, pc, op, doing, id, result>>

(* dispatch_response: a response to r arrives, at any time after the       *)
(* request, any number of times.  It completes the request of its id; when *)
(* nobody waits for that any more, the send into the channel fails.        *)
Response(r) ==
  /\ listening /\ r.id \in pending
  /\ pending' = pending \ {r.id}
  /\ \E v \in Answers(r) :
       inbox' = [c \in Callers |->
                   IF id[c] = r.id THEN {[id |-> r.id, val |-> v]} ELSE inbox[c]]
  /\ UNCHANGED <<secret, userKey, started, handshook, listening, sent, calls,
                 lastId, pc, op, doing, id, result>>

(* The response is there: an error ends the call, an acknowledged connect  *)
(* is followed by what was called for, anything else is the result.        *)
Receive(c) ==
  /\ pc[c] = "await"
  /\ \E m \in inbox[c] :
       \/ m.val = "refused" /\ Fail(c)
       \/ /\ m.val # "refused" /\ doing[c] = "connect"
          /\ handshook' = TRUE
          /\ doing' = [doing EXCEPT ![c] = op[c]]
          /\ id' = [id EXCEPT ![c] = 0]
          /\ inbox' = [inbox EXCEPT ![c] = {}]
          /\ pc' = [pc EXCEPT ![c] = "start"]
          /\ UNCHANGED <<userKey, started, listening, pending, sent, lastId,
                         op, result>>
       \/ /\ m.val # "refused" /\ doing[c] # "connect"
          /\ userKey' = IF doing[c] = "pubkey" /\ userKey = {}
                        THEN {m.val} ELSE userKey
          /\ Return(c, m.val)
          /\ UNCHANGED <<started, handshook, listening, pending, sent, lastId>>
  /\ UNCHANGED <<secret, calls>>

(* Mutant: a handshake is waited for without a time-out.                   *)
TimeoutNotConnect(c) ==
  /\ pc[c] = "await" /\ inbox[c] = {} /\ doing[c] # "connect"
  /\ Fail(c)
  /\ UNCHANGED <<secret, calls>>

(* RPC_TIMEOUT passes; a response that is there goes first.                *)
Timeout(c) ==
  /\ pc[c] = "await" /\ inbox[c] = {}
  /\ Fail(c)
  /\ UNCHANGED <<secret, calls>>

(* The time-outs of pair.rs, 5 s and 20 s, drop the call where it is.      *)
Cancel(c) ==
  /\ ~secret /\ op[c] \in {"pubkey", "relays"}
  /\ Fail(c)
  /\ UNCHANGED <<secret, calls>>

Run(c) ==
  \/ EnsureHandshake(c) \/ EnterStart(c) \/ Started(c)
  \/ Insert(c) \/ Publish(c) \/ SendReturns(c) \/ Receive(c) \/ Timeout(c)

Next ==
  \/ \E c \in Callers : (\E o \in Calls : Begin(c, o)) \/ Run(c) \/ Cancel(c)
  \/ \E r \in sent : Response(r)
  \/ Listen

Spec == Init /\ [][Next]_vars

(* A call goes on when it can; the signer need not answer.                 *)
FairSpec == Spec /\ \A c \in Callers : WF_vars(Run(c))

-----------------------------------------------------------------------------
(* A caller is given the answer to the request it is waiting for: not to   *)
(* one of its own that has timed out, nor to that of another caller.       *)
OwnAnswer ==
  \A c \in Callers : \A m \in inbox[c] :
    /\ m.id = id[c]
    /\ \E r \in sent :
         r.id = m.id /\ r.by = c /\ r.method = doing[c] /\ m.val \in Answers(r)

(* With a secret, nothing but connect leaves before a connect of this      *)
(* process has been acknowledged, whichever callers failed at it.          *)
HandshakeFirst == \A r \in sent : r.method = "connect" \/ handshook

(* A request that is out can be answered: whoever waits for it has its     *)
(* entry in pending, also while send_event has not returned, or has its    *)
(* response.                                                               *)
Answerable ==
  \A c \in Callers :
    pc[c] \in {"send", "await"} => inbox[c] # {} \/ id[c] \in pending

(* Every call returns, whatever is lost and whoever fails at a cell.       *)
CallReturns == \A c \in Callers : pc[c] # "idle" ~> pc[c] = "idle"
=============================================================================
