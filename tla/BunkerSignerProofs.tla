------------------------- MODULE BunkerSignerProofs -------------------------
(***************************************************************************)
(* Safety of the remote signer, for any number of callers and calls.       *)
(***************************************************************************)
EXTENDS BunkerSigner, TLAPS

-----------------------------------------------------------------------------
(* The inductive invariant.                                                *)

(* A round trip has an id; an id was drawn once, for one round trip; and a *)
(* request that is out is the one its caller is at.                        *)
IdsInv ==
  /\ \A c \in Callers : id[c] <= lastId
  /\ \A r \in sent : r.id <= lastId
  /\ \A c \in Callers : pc[c] \in {"send", "await"} <=> id[c] # 0
  /\ \A c, d \in Callers : id[c] = id[d] /\ id[c] # 0 => c = d
  /\ \A c \in Callers, r \in sent : r.id = id[c] => r.by = c /\ r.method = doing[c]
  /\ \A r, q \in sent : r.id = q.id => r = q

(* A response in a channel is the answer to a request that is out.         *)
InboxInv ==
  \A c \in Callers : \A m \in inbox[c] :
    /\ m.id = id[c]
    /\ \E r \in sent : r.id = m.id /\ m.val \in Answers(r)

(* Until the handshake is done, connect is all that round trips are about. *)
HandshakeInv ==
  /\ ~secret => handshook
  /\ \A c \in Callers :
       pc[c] \in {"start", "starting", "send", "await"} =>
         handshook \/ doing[c] = "connect"
  /\ HandshakeFirst

(* A call that has not returned is for something.                          *)
BusyInv ==
  \A c \in Callers : pc[c] # "idle" => op[c] \in Calls /\ doing[c] \in Methods

IInv == TypeOK /\ BusyInv /\ IdsInv /\ InboxInv /\ HandshakeInv /\ Answerable

-----------------------------------------------------------------------------
(* The invariant holds at first.                                           *)
LEMMA InitIInv == Init => IInv
<1> SUFFICES ASSUME Init PROVE IInv
  OBVIOUS
<1>1. TypeOK
  <2>1. userKey \in SUBSET UserKeys
    BY DEF Init
  <2>2. handshook \in BOOLEAN
    BY DEF Init
  <2>3. calls \in 0..MaxCalls
    BY SignerAssumption DEF Init
  <2> QED
    BY <2>1, <2>2, <2>3 DEF Init, TypeOK, Results
<1>2. IdsInv /\ BusyInv
  BY DEF Init, IdsInv, BusyInv
<1>3. InboxInv /\ Answerable
  BY DEF Init, InboxInv, Answerable
<1>4. HandshakeInv
  BY DEF Init, HandshakeInv, HandshakeFirst
<1> QED
  BY <1>1, <1>2, <1>3, <1>4 DEF IInv

(* When a call ends, whatever its result, the others are as they were.     *)
LEMMA ReturnStep ==
  ASSUME IInv, NEW c \in Callers, NEW res \in Results, Return(c, res),
         userKey' \in SUBSET UserKeys, calls' \in 0..MaxCalls,
         UNCHANGED <<secret, started, handshook, listening, pending, sent, lastId>>
  PROVE  IInv'
<1> USE DEF IInv
<1>1. /\ \A d \in Callers \ {c} :
           /\ pc'[d] = pc[d] /\ op'[d] = op[d] /\ doing'[d] = doing[d]
           /\ id'[d] = id[d] /\ inbox'[d] = inbox[d]
      /\ pc'[c] = "idle" /\ id'[c] = 0 /\ inbox'[c] = {}
  BY DEF TypeOK, Return
<1>2. TypeOK'
  BY DEF TypeOK, Return, NoCall
<1>3. lastId \in Nat /\ \A r \in sent : r.id # 0
  BY DEF TypeOK, Requests, Ids
<1>4. IdsInv' /\ BusyInv'
  BY <1>1, <1>3 DEF IdsInv, BusyInv
<1>5. InboxInv'
  BY <1>1 DEF InboxInv, Answers
<1>6. HandshakeInv' /\ Answerable'
  BY <1>1 DEF HandshakeInv, HandshakeFirst, Answerable
<1> QED
  BY <1>2, <1>4, <1>5, <1>6

(* A call fails, is timed out or is cancelled.                             *)
LEMMA FailStep ==
  ASSUME IInv, NEW c \in Callers, Fail(c), UNCHANGED <<secret, calls>>
  PROVE  IInv'
<1>1. "err" \in Results
  BY DEF Results
<1>2. userKey' \in SUBSET UserKeys /\ calls' \in 0..MaxCalls
  BY DEF IInv, TypeOK, Fail, shared
<1> QED
  BY <1>1, <1>2, ReturnStep DEF Fail, shared

(* A call begins, or returns the key that is known.                        *)
LEMMA BeginStep ==
  ASSUME IInv, NEW c \in Callers, NEW o \in Calls, Begin(c, o)
  PROVE  IInv'
<1> USE DEF IInv
<1>1. /\ calls' \in 0..MaxCalls
      /\ UNCHANGED <<secret, userKey, started, handshook, listening, pending,
                     sent, lastId>>
      /\ pc[c] = "idle"
  BY SignerAssumption DEF Begin, shared, TypeOK
<1>2. ASSUME NEW k \in userKey, Return(c, k) PROVE IInv'
  <2>1. k \in Results /\ userKey' \in SUBSET UserKeys
    BY <1>1 DEF TypeOK, Results, Values
  <2> QED
    BY <1>1, <1>2, <2>1, ReturnStep
<1>3. CASE /\ op' = [op EXCEPT ![c] = o]
           /\ doing' = [doing EXCEPT ![c] = o]
           /\ pc' = [pc EXCEPT ![c] = IF secret THEN "handshake" ELSE "start"]
           /\ result' = [result EXCEPT ![c] = "none"]
           /\ UNCHANGED <<id, inbox>>
  <2>1. /\ \A d \in Callers \ {c} : pc'[d] = pc[d] /\ doing'[d] = doing[d]
        /\ pc'[c] = IF secret THEN "handshake" ELSE "start"
        /\ id' = id /\ inbox' = inbox /\ id[c] = 0
    BY <1>1, <1>3 DEF TypeOK, IdsInv
  <2>2. TypeOK'
    BY <1>1, <1>3 DEF TypeOK, Methods, Results
  <2>3. \A r \in sent : r.id # 0
    BY DEF TypeOK, Requests, Ids
  <2>4. IdsInv' /\ BusyInv'
    BY <1>1, <1>3, <2>1, <2>3 DEF IdsInv, BusyInv, TypeOK, Methods
  <2>5. InboxInv'
    BY <1>1, <2>1 DEF InboxInv, Answers
  <2>6. Answerable'
    BY <1>1, <2>1 DEF Answerable
  <2>7. HandshakeInv'
    BY <1>1, <2>1 DEF HandshakeInv, HandshakeFirst, TypeOK
  <2> QED
    BY <2>2, <2>4, <2>5, <2>6, <2>7
<1> QED
  BY <1>2, <1>3 DEF Begin

(* What a step leaves alone when it moves one caller between places where  *)
(* it has no round trip under way.                                         *)
LEMMA MoveStep ==
  ASSUME IInv, NEW c \in Callers, pc[c] \notin {"idle", "send", "await"},
         NEW m \in Methods, NEW q \in {"start", "starting"},
         doing' = [doing EXCEPT ![c] = m], pc' = [pc EXCEPT ![c] = q],
         handshook \/ m = "connect",
         started' \in BOOLEAN,
         UNCHANGED <<secret, userKey, handshook, listening, pending, sent,
                     lastId, calls, op, id, inbox, result>>
  PROVE  IInv'
<1> USE DEF IInv
<1>1. /\ \A d \in Callers \ {c} : pc'[d] = pc[d] /\ doing'[d] = doing[d]
      /\ pc'[c] = q /\ doing'[c] = m /\ id[c] = 0
  BY DEF TypeOK, IdsInv
<1>2. TypeOK'
  BY DEF TypeOK
<1>3. \A r \in sent : r.id # 0
  BY DEF TypeOK, Requests, Ids
<1>4. IdsInv' /\ BusyInv'
  BY <1>1, <1>3 DEF IdsInv, BusyInv
<1>5. InboxInv'
  BY <1>1 DEF InboxInv, Answers
<1>6. Answerable' /\ HandshakeInv'
  BY <1>1 DEF Answerable, HandshakeInv, HandshakeFirst
<1> QED
  BY <1>2, <1>4, <1>5, <1>6

(* The handshake is skipped or entered.                                    *)
LEMMA EnsureHandshakeStep ==
  ASSUME IInv, NEW c \in Callers, EnsureHandshake(c)
  PROVE  IInv'
<1> USE DEF IInv
<1>1. /\ pc[c] = "handshake" /\ pc' = [pc EXCEPT ![c] = "start"]
      /\ UNCHANGED <<secret, userKey, started, handshook, listening, pending,
                     sent, lastId, calls, op, id, inbox, result>>
  BY DEF EnsureHandshake, shared
<1>2. CASE handshook /\ UNCHANGED doing
  <2>1. doing[c] \in Methods /\ doing' = [doing EXCEPT ![c] = doing[c]]
    BY <1>1, <1>2 DEF TypeOK, BusyInv
  <2>2. started' \in BOOLEAN
    BY <1>1 DEF TypeOK
  <2> QED
    BY <1>1, <1>2, <2>1, <2>2, MoveStep
<1>3. CASE doing' = [doing EXCEPT ![c] = "connect"]
  <2>1. "connect" \in Methods /\ started' \in BOOLEAN
    BY <1>1 DEF Methods, TypeOK
  <2> QED
    BY <1>1, <1>3, <2>1, MoveStep
<1> QED
  BY <1>2, <1>3 DEF EnsureHandshake

(* The transport is started, or that fails.                                *)
LEMMA EnterStartStep ==
  ASSUME IInv, NEW c \in Callers, EnterStart(c)
  PROVE  IInv'
<1> USE DEF IInv
<1>1. /\ pc[c] = "start" /\ pc' = [pc EXCEPT ![c] = "starting"]
      /\ UNCHANGED <<secret, userKey, started, handshook, listening, pending,
                     sent, lastId, calls, op, doing, id, inbox, result>>
  BY DEF EnterStart, shared
<1>2. /\ doing[c] \in Methods /\ doing' = [doing EXCEPT ![c] = doing[c]]
      /\ started' \in BOOLEAN
  BY <1>1 DEF TypeOK, BusyInv
<1>3. handshook \/ doing[c] = "connect"
  BY <1>1 DEF HandshakeInv
<1> QED
  BY <1>1, <1>2, <1>3, MoveStep

(* Starting succeeds or fails.                                             *)
LEMMA StartedStep ==
  ASSUME IInv, NEW c \in Callers, Started(c)
  PROVE  IInv'
<1> USE DEF IInv
<1>1. CASE /\ started' = TRUE
           /\ pc' = [pc EXCEPT ![c] = "start"]
           /\ UNCHANGED <<userKey, handshook, listening, pending, sent, lastId,
                          op, doing, id, inbox, result>>
  <2>1. pc[c] = "starting" /\ UNCHANGED <<secret, calls>>
    BY DEF Started
  <2>2. doing[c] \in Methods /\ doing' = [doing EXCEPT ![c] = doing[c]]
    BY <1>1, <2>1 DEF TypeOK, BusyInv
  <2>3. handshook \/ doing[c] = "connect"
    BY <2>1 DEF HandshakeInv
  <2>4. started' \in BOOLEAN
    BY <1>1
  <2> QED
    BY <1>1, <2>1, <2>2, <2>3, <2>4, MoveStep
<1> QED
  BY <1>1, FailStep DEF Started

(* The dispatching task starts to listen.                                  *)
LEMMA ListenStep == IInv /\ Listen => IInv'
<1> SUFFICES ASSUME IInv, Listen PROVE IInv'
  OBVIOUS
<1> USE DEF IInv
<1>1. TypeOK' /\ IdsInv' /\ BusyInv'
  BY DEF Listen, TypeOK, IdsInv, BusyInv
<1>2. InboxInv'
  BY DEF Listen, InboxInv, Answers
<1>3. HandshakeInv' /\ Answerable'
  BY DEF Listen, HandshakeInv, HandshakeFirst, Answerable
<1> QED
  BY <1>1, <1>2, <1>3

(* A request gets a new id, and its entry.                                 *)
LEMMA InsertStep ==
  ASSUME IInv, NEW c \in Callers, Insert(c)
  PROVE  IInv'
<1> USE DEF IInv
<1>1. CASE /\ lastId' = lastId + 1
           /\ pending' = pending \cup {lastId + 1}
           /\ id' = [id EXCEPT ![c] = lastId + 1]
           /\ pc' = [pc EXCEPT ![c] = "send"]
           /\ UNCHANGED <<userKey, started, handshook, listening, sent, op,
                          doing, inbox, result>>
  <2>1. pc[c] = "start" /\ UNCHANGED <<secret, calls>>
    BY DEF Insert
  <2>2. /\ \A d \in Callers \ {c} : pc'[d] = pc[d] /\ id'[d] = id[d]
        /\ pc'[c] = "send" /\ id'[c] = lastId + 1 /\ id[c] = 0
        /\ lastId \in Nat /\ \A d \in Callers : id[d] \in Nat
    BY <1>1, <2>1 DEF TypeOK, IdsInv
  <2>3. \A r \in sent : r.id \in Nat
    BY DEF TypeOK, Requests, Ids
  <2>4. TypeOK'
    BY <1>1, <2>1, <2>2 DEF TypeOK, Ids
  <2>5. IdsInv'
    <3>1. /\ \A d \in Callers : id'[d] <= lastId'
          /\ \A r \in sent : r.id <= lastId'
      BY <1>1, <2>2, <2>3 DEF IdsInv
    <3>2. \A d \in Callers : pc'[d] \in {"send", "await"} <=> id'[d] # 0
      BY <2>2 DEF IdsInv
    <3>3. \A d \in Callers \ {c} : id'[d] # lastId + 1
      BY <2>2 DEF IdsInv
    <3>4. \A r \in sent : r.id # lastId + 1
      BY <2>2, <2>3 DEF IdsInv
    <3> QED
      BY <1>1, <2>2, <3>1, <3>2, <3>3, <3>4 DEF IdsInv
  <2>6. InboxInv'
    <3>1. inbox[c] = {}
      <4>1. \A m \in inbox[c] : \E r \in sent : r.id = id[c]
        BY DEF InboxInv
      <4>2. \A r \in sent : r.id # 0
        BY DEF TypeOK, Requests, Ids
      <4> QED
        BY <2>2, <4>1, <4>2
    <3> QED
      BY <1>1, <2>2, <3>1 DEF InboxInv, Answers
  <2>7. Answerable' /\ BusyInv'
    BY <1>1, <2>1, <2>2 DEF Answerable, BusyInv
  <2>8. HandshakeInv'
    BY <1>1, <2>1, <2>2 DEF HandshakeInv, HandshakeFirst
  <2> QED
    BY <2>4, <2>5, <2>6, <2>7, <2>8
<1> QED
  BY <1>1, FailStep DEF Insert

(* A relay takes a request.                                                *)
LEMMA PublishStep ==
  ASSUME IInv, NEW c \in Callers, Publish(c)
  PROVE  IInv'
<1> USE DEF IInv
<1> DEFINE req == [id |-> id[c], method |-> doing[c], by |-> c]
<1>1. /\ pc[c] = "send" /\ sent' = sent \cup {req}
      /\ \A r \in sent : r.id # id[c]
      /\ UNCHANGED <<secret, userKey, started, handshook, listening, pending,
                     calls, lastId, pc, op, doing, id, inbox, result>>
  BY DEF Publish
<1>2. id[c] \in Ids
  BY <1>1 DEF TypeOK, IdsInv, Ids
<1>3. doing[c] \in Methods
  BY <1>1 DEF BusyInv
<1>4. TypeOK'
  BY <1>1, <1>2, <1>3 DEF TypeOK, Requests
<1>5. IdsInv'
  BY <1>1, <1>2 DEF IdsInv, Ids
<1>6. InboxInv'
  BY <1>1 DEF InboxInv, Answers
<1>7. Answerable' /\ BusyInv'
  BY <1>1 DEF Answerable, BusyInv
<1>8. HandshakeInv'
  BY <1>1 DEF HandshakeInv, HandshakeFirst
<1> QED
  BY <1>4, <1>5, <1>6, <1>7, <1>8

(* send_event returns.                                                     *)
LEMMA SendReturnsStep ==
  ASSUME IInv, NEW c \in Callers, SendReturns(c)
  PROVE  IInv'
<1> USE DEF IInv
<1>1. CASE pc' = [pc EXCEPT ![c] = "await"] /\ UNCHANGED <<shared, op, doing, id, inbox, result>>
  <2>1. pc[c] = "send" /\ UNCHANGED <<secret, calls>>
    BY DEF SendReturns
  <2>2. /\ \A d \in Callers \ {c} : pc'[d] = pc[d]
        /\ pc'[c] = "await"
        /\ UNCHANGED <<userKey, started, handshook, listening, pending, sent, lastId>>
    BY <1>1 DEF TypeOK, shared
  <2>3. TypeOK'
    BY <1>1, <2>1, <2>2 DEF TypeOK
  <2>4. IdsInv'
    BY <1>1, <2>1, <2>2 DEF IdsInv
  <2>5. InboxInv'
    BY <1>1, <2>2 DEF InboxInv, Answers
  <2>6. HandshakeInv' /\ Answerable' /\ BusyInv'
    BY <1>1, <2>1, <2>2 DEF HandshakeInv, HandshakeFirst, Answerable, BusyInv
  <2> QED
    BY <2>3, <2>4, <2>5, <2>6
<1> QED
  BY <1>1, FailStep DEF SendReturns

(* A response is dispatched.                                               *)
LEMMA ResponseStep ==
  ASSUME IInv, NEW r \in sent, Response(r)
  PROVE  IInv'
<1> USE DEF IInv
<1>1. PICK v \in Answers(r) :
        inbox' = [c \in Callers |->
                    IF id[c] = r.id THEN {[id |-> r.id, val |-> v]} ELSE inbox[c]]
  BY DEF Response
<1>2. /\ pending' = pending \ {r.id}
      /\ UNCHANGED <<secret, userKey, started, handshook, listening, sent,
                     calls, lastId, pc, op, doing, id, result>>
  BY DEF Response
<1>3. r.id \in Ids /\ v \in Values
  BY DEF TypeOK, Requests, Answers, Values
<1>4. TypeOK'
  BY <1>1, <1>2, <1>3 DEF TypeOK, Responses
<1>5. IdsInv' /\ BusyInv'
  BY <1>2 DEF IdsInv, BusyInv
<1>6. InboxInv'
  BY <1>1, <1>2 DEF InboxInv, Answers
<1>7. Answerable'
  BY <1>1, <1>2 DEF Answerable
<1>8. HandshakeInv'
  BY <1>2 DEF HandshakeInv, HandshakeFirst
<1> QED
  BY <1>4, <1>5, <1>6, <1>7, <1>8

(* A caller takes its response.                                            *)
LEMMA ReceiveStep ==
  ASSUME IInv, NEW c \in Callers, Receive(c)
  PROVE  IInv'
<1> USE DEF IInv
<1>1. pc[c] = "await" /\ UNCHANGED <<secret, calls>>
  BY DEF Receive
<1>2. PICK m \in inbox[c] :
       \/ m.val = "refused" /\ Fail(c)
       \/ /\ m.val # "refused" /\ doing[c] = "connect"
          /\ handshook' = TRUE
          /\ doing' = [doing EXCEPT ![c] = op[c]]
          /\ id' = [id EXCEPT ![c] = 0]
          /\ inbox' = [inbox EXCEPT ![c] = {}]
          /\ pc' = [pc EXCEPT ![c] = "start"]
          /\ UNCHANGED <<userKey, started, listening, pending, sent, lastId,
                         op, result>>
       \/ /\ m.val # "refused" /\ doing[c] # "connect"
          /\ userKey' = IF doing[c] = "pubkey" /\ userKey = {}
                        THEN {m.val} ELSE userKey
          /\ Return(c, m.val)
          /\ UNCHANGED <<started, handshook, listening, pending, sent, lastId>>
  BY DEF Receive
<1>3. m.val \in Values
  BY DEF TypeOK, Responses
<1>4. CASE m.val = "refused" /\ Fail(c)
  BY <1>1, <1>4, FailStep
<1>5. CASE /\ m.val # "refused" /\ doing[c] = "connect"
           /\ handshook' = TRUE
           /\ doing' = [doing EXCEPT ![c] = op[c]]
           /\ id' = [id EXCEPT ![c] = 0]
           /\ inbox' = [inbox EXCEPT ![c] = {}]
           /\ pc' = [pc EXCEPT ![c] = "start"]
           /\ UNCHANGED <<userKey, started, listening, pending, sent, lastId,
                          op, result>>
  <2>1. /\ \A d \in Callers \ {c} :
             /\ pc'[d] = pc[d] /\ doing'[d] = doing[d]
             /\ id'[d] = id[d] /\ inbox'[d] = inbox[d]
        /\ pc'[c] = "start" /\ id'[c] = 0 /\ inbox'[c] = {}
    BY <1>5 DEF TypeOK
  <2>2. op[c] \in Calls /\ op[c] \in Methods
    BY <1>1 DEF BusyInv, Methods
  <2>3. TypeOK'
    BY <1>1, <1>5, <2>2 DEF TypeOK
  <2>4. lastId \in Nat /\ \A r \in sent : r.id # 0
    BY DEF TypeOK, Requests, Ids
  <2>5. IdsInv' /\ BusyInv'
    BY <1>5, <2>1, <2>2, <2>4 DEF IdsInv, BusyInv, TypeOK
  <2>6. InboxInv'
    BY <1>5, <2>1 DEF InboxInv, Answers
  <2>7. HandshakeInv' /\ Answerable'
    BY <1>1, <1>5, <2>1 DEF HandshakeInv, HandshakeFirst, Answerable
  <2> QED
    BY <2>3, <2>5, <2>6, <2>7
<1>6. CASE /\ m.val # "refused" /\ doing[c] # "connect"
           /\ userKey' = IF doing[c] = "pubkey" /\ userKey = {}
                         THEN {m.val} ELSE userKey
           /\ Return(c, m.val)
           /\ UNCHANGED <<started, handshook, listening, pending, sent, lastId>>
  <2>1. ASSUME doing[c] = "pubkey" PROVE m.val \in UserKeys
    <3>1. PICK r \in sent : r.id = m.id /\ m.id = id[c] /\ m.val \in Answers(r)
      BY DEF InboxInv
    <3>2. r.method = "pubkey"
      BY <2>1, <3>1 DEF IdsInv
    <3> QED
      BY <1>6, <3>1, <3>2 DEF Answers
  <2>2. userKey' \in SUBSET UserKeys
    BY <1>6, <2>1 DEF TypeOK
  <2>3. m.val \in Results /\ calls' \in 0..MaxCalls
    BY <1>1, <1>3 DEF Results, TypeOK
  <2> QED
    BY <1>1, <1>6, <2>2, <2>3, ReturnStep
<1> QED
  BY <1>2, <1>4, <1>5, <1>6

-----------------------------------------------------------------------------
(* Every step preserves the invariant.                                     *)
LEMMA NextIInv == IInv /\ [Next]_vars => IInv'
<1> SUFFICES ASSUME IInv, [Next]_vars PROVE IInv'
  OBVIOUS
<1>1. ASSUME NEW c \in Callers, Run(c) PROVE IInv'
  <2>1. ASSUME Timeout(c) PROVE IInv'
    BY <2>1, FailStep DEF Timeout
  <2> QED
    BY <1>1, <2>1, EnsureHandshakeStep, EnterStartStep, StartedStep, InsertStep,
       PublishStep, SendReturnsStep, ReceiveStep DEF Run
<1>2. ASSUME NEW c \in Callers, Cancel(c) PROVE IInv'
  BY <1>2, FailStep DEF Cancel
<1>3. CASE UNCHANGED vars
  <2>1. TypeOK' /\ BusyInv' /\ IdsInv' /\ Answerable'
    BY <1>3 DEF IInv, vars, TypeOK, BusyInv, IdsInv, Answerable
  <2>2. InboxInv' /\ HandshakeInv'
    BY <1>3 DEF IInv, vars, InboxInv, Answers, HandshakeInv, HandshakeFirst
  <2> QED
    BY <2>1, <2>2 DEF IInv
<1> QED
  BY <1>1, <1>2, <1>3, BeginStep, ResponseStep, ListenStep DEF Next

(* The invariant holds in every state.                                     *)
THEOREM Invariance == Spec => []IInv
<1> QED
  BY InitIInv, NextIInv, PTL DEF Spec

(* The variables have their types.                                         *)
THEOREM TypeCorrect == Spec => []TypeOK
<1>1. IInv => TypeOK
  BY DEF IInv
<1> QED
  BY <1>1, Invariance, PTL

(* However many callers share the signer, and whatever is late, repeated or*)
(* out of order, a caller gets the answer to the request it waits for.     *)
THEOREM AnswersAreOwn == Spec => []OwnAnswer
<1>1. IInv => OwnAnswer
  BY DEF IInv, InboxInv, IdsInv, OwnAnswer
<1> QED
  BY <1>1, Invariance, PTL

(* Nothing but connect is sent before a connect is acknowledged.           *)
THEOREM ConnectsFirst == Spec => []HandshakeFirst
<1>1. IInv => HandshakeFirst
  BY DEF IInv, HandshakeInv
<1> QED
  BY <1>1, Invariance, PTL

(* No answer that comes while its caller waits finds no entry.             *)
THEOREM RequestsAnswerable == Spec => []Answerable
<1>1. IInv => Answerable
  BY DEF IInv
<1> QED
  BY <1>1, Invariance, PTL
=============================================================================
