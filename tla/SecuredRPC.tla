----------------------------- MODULE SecuredRPC -----------------------------
(***************************************************************************)
(* The pairing service (ble_secured_rpc_service.go).  Its handlers, called *)
(* one at a time by the GATT server, walk through an SRP exchange; once    *)
(* the client is verified, encrypted requests go to the RPC router.  Each  *)
(* response is encrypted and queued by a goroutine of its own, and sent by *)
(* the goroutine of the client's subscription.  Those goroutines share     *)
(* last_dec_iv, secret_key and rpc_queue with the handlers, without locks: *)
(* a response reads last_dec_iv once to encrypt and once more to pack.     *)
(*                                                                         *)
(* resetState makes a new code, a new SRP session and a new queue: all     *)
(* three are numbered by `session'.                                        *)
(***************************************************************************)
EXTENDS Naturals, Sequences, FiniteSets

CONSTANTS
  QueueSize,    \* RPCQueueSize
  MaxSessions,  \* bound: how often resetState runs
  MaxIV,        \* bound: IVs of requests; MaxIV + 1 stands for FirstResponseIV
  MaxRequests,  \* bound: requests handed to the router
  MaxSubs       \* bound: subscriptions to the notifications

ASSUME SecuredRPCAssumption ==
  /\ QueueSize \in Nat \ {0} /\ MaxSessions \in Nat \ {0}
  /\ MaxIV \in Nat \ {0} /\ MaxRequests \in Nat /\ MaxSubs \in Nat

VARIABLES
  state,        \* "intent", "bytesA", "bytesM" or "verified"
  session,      \* the code and the SRP session in force
  displayed,    \* the code last shown on the display, 0 for none
  secret_key,   \* the session whose key it is, 0 for nil
  last_enc_iv,
  last_dec_iv,  \* counted from FirstResponseIV
  queue,        \* the channels: rpc_queue is queue[session]
  responder,    \* the goroutine of each request
  sealed,       \* key and IV each response was encrypted with
  header,       \* the IV each response carries
  target,       \* the session whose full queue a response waits on, 0 for none
  note,         \* the goroutine of each subscription
  unshown,      \* history: the last DisplayPairingCode did not reach the display
  lapped,       \* history: responses before whose packing another was counted
  executed,     \* history: the requests handed to the router
  notified      \* history: the responses sent to a subscription that was not over

display  == <<displayed, unshown>>
pairVars == <<state, session, display, secret_key>>
ivVars   == <<last_enc_iv, last_dec_iv>>
rpcVars  == <<responder, sealed, header, target, lapped>>
noteVars == <<note, notified>>
vars == <<pairVars, ivVars, queue, rpcVars, noteVars, executed>>

Sessions == 1 .. MaxSessions
FirstResponseIV == MaxIV + 1
Requests == Sessions \X (1 .. MaxIV)
Subs == 1 .. MaxSubs
rpc_queue == queue[session]

(* Types; a queue holds at most QueueSize responses.                       *)
TypeOK ==
  /\ state \in {"intent", "bytesA", "bytesM", "verified"}
  /\ session \in Sessions /\ displayed \in 0 .. MaxSessions
  /\ secret_key \in 0 .. MaxSessions
  /\ last_enc_iv \in 0 .. MaxIV /\ last_dec_iv \in 0 .. Cardinality(Requests)
  /\ queue \in [Sessions -> Seq(Requests)]
  /\ \A s \in Sessions : Len(queue[s]) <= QueueSize
  /\ responder \in [Requests -> {"none", "called", "counted", "encrypted", "packed",
                                 "blocked", "ended"}]
  /\ sealed \in [Requests -> (0 .. MaxSessions) \X Nat]
  /\ header \in [Requests -> Nat] /\ target \in [Requests -> 0 .. MaxSessions]
  /\ note \in [Subs -> [at : {"none", "check", "listening", "ended"},
                        queue : 0 .. MaxSessions, live : BOOLEAN]]
  /\ unshown \in BOOLEAN /\ lapped \subseteq Requests
  /\ executed \in Seq(Requests) /\ notified \subseteq Requests

Init ==
  /\ state = "intent" /\ session = 1 /\ displayed = 0 /\ secret_key = 0
  /\ last_enc_iv = 0 /\ last_dec_iv = 0
  /\ queue = [s \in Sessions |-> <<>>]
  /\ responder = [r \in Requests |-> "none"]
  /\ sealed = [r \in Requests |-> <<0, 0>>]
  /\ header = [r \in Requests |-> 0] /\ target = [r \in Requests |-> 0]
  /\ note = [n \in Subs |-> [at |-> "none", queue |-> 0, live |-> FALSE]]
  /\ unshown = FALSE /\ lapped = {} /\ executed = <<>> /\ notified = {}

-----------------------------------------------------------------------------
(* resetState, and the state the handler leaves behind.                    *)
ResetState(s) ==
  /\ session < MaxSessions
  /\ session' = session + 1
  /\ state' = s
  /\ secret_key' = 0
  /\ last_enc_iv' = 0 /\ last_dec_iv' = 0
  /\ UNCHANGED <<queue, rpcVars, noteVars, executed>>

Others == UNCHANGED <<queue, rpcVars, noteVars, executed>>

(* A handler called in any other state than the one it expects.            *)
OutOfOrder(expected) ==
  /\ state # expected
  /\ ResetState("intent")
  /\ UNCHANGED display

(* Writing a color hint always allows restarting the pairing process.      *)
ColorizeDisplay ==
  /\ IF state # "intent" THEN ResetState("intent")
     ELSE Others /\ UNCHANGED <<state, session, secret_key, ivVars>>
  /\ UNCHANGED display

(* DisplayPairingCode: an RPC that may fail, or time out.                  *)
Shows(code) ==
  \/ displayed' = code /\ unshown' = FALSE
  \/ displayed' = displayed /\ unshown' = (displayed # code)

Offers ==
  IF state # "intent" THEN ResetState("bytesA")
  ELSE Others /\ state' = "bytesA" /\ UNCHANGED <<session, secret_key, ivVars>>

PairIntent_ShowsOldCode == Offers /\ Shows(session)

(* The handler shows the code and does not look at the error.              *)
PairIntent == Offers /\ Shows(session')

PairIntentMalformed ==
  /\ ResetState("intent")
  /\ UNCHANGED display

BytesA ==
  \/ /\ state = "bytesA"
     /\ state' = "bytesM" /\ secret_key' = session
     /\ UNCHANGED <<session, display, ivVars>> /\ Others
  \/ OutOfOrder("bytesA")

(* ComputeKey refuses the client's value: the process exits, and upstart   *)
(* starts it again with a new code, no connection and no goroutines.       *)
BytesAFatal ==
  /\ state = "bytesA" /\ session < MaxSessions
  /\ session' = session + 1 /\ state' = "intent" /\ secret_key' = 0
  /\ displayed' = 0 /\ unshown' = FALSE
  /\ last_enc_iv' = 0 /\ last_dec_iv' = 0
  /\ queue' = [s \in Sessions |-> <<>>]
  /\ responder' = [r \in Requests |->
                     IF responder[r] = "none" THEN "none" ELSE "ended"]
  /\ sealed' = [r \in Requests |-> <<0, 0>>]
  /\ header' = [r \in Requests |-> 0] /\ target' = [r \in Requests |-> 0]
  /\ note' = [n \in Subs |-> IF note[n].at = "none" THEN note[n]
                             ELSE [at |-> "ended", queue |-> 0, live |-> FALSE]]
  /\ lapped' = {} /\ notified' = {}
  /\ UNCHANGED executed

(* Reading the salt or the server's B.                                     *)
ReadSB == OutOfOrder("bytesM")

BytesM_NoReset(proof) ==
  \/ /\ state = "bytesM"
     /\ state' = IF proof = session THEN "verified" ELSE "intent"
     /\ last_enc_iv' = 0 /\ last_dec_iv' = 0
     /\ UNCHANGED <<session, display, secret_key>> /\ Others
  \/ OutOfOrder("bytesM")

(* The authenticator: `proof' is the session whose code and B the client   *)
(* computed it from, 0 for a wrong code or a wrong length.                 *)
BytesM(proof) ==
  \/ /\ state = "bytesM" /\ proof = session
     /\ state' = "verified"
     /\ last_enc_iv' = 0 /\ last_dec_iv' = 0
     /\ UNCHANGED <<session, display, secret_key>> /\ Others
  \/ /\ state = "bytesM" /\ proof # session
     /\ ResetState("intent") /\ UNCHANGED display
  \/ OutOfOrder("bytesM")

ReadHAMK == OutOfOrder("verified")

-----------------------------------------------------------------------------
FreshIV_AllowsEqual(iv) == iv >= last_enc_iv /\ iv < FirstResponseIV /\ iv > 0

FreshIV(iv) == iv > last_enc_iv /\ iv < FirstResponseIV

(* An encrypted request.  The IV counts as used even when the message is   *)
(* too short to decrypt.                                                   *)
Comms(iv) ==
  \/ /\ state = "verified" /\ FreshIV(iv)
     /\ last_enc_iv' = iv
     /\ LET r == <<session, iv>> IN
        \/ /\ Len(executed) < MaxRequests
           /\ responder' = [responder EXCEPT ![r] = "called"]
           /\ executed' = Append(executed, r)
        \/ UNCHANGED <<responder, executed>>
     /\ UNCHANGED <<pairVars, last_dec_iv, queue, sealed, header, target, lapped, noteVars>>
  \/ OutOfOrder("verified")

(* The goroutine of a response: when the router has answered, count up     *)
(* last_dec_iv; encrypt with the key and the IV of that moment; pack with  *)
(* the IV of another moment; send.                                         *)
ResponseMoves(r, at) ==
  /\ responder' = [responder EXCEPT ![r] = at]
  /\ UNCHANGED <<pairVars, last_enc_iv, noteVars, executed>>

ResponseCounts(r) ==
  /\ responder[r] = "called" /\ ResponseMoves(r, "counted")
  /\ last_dec_iv' = last_dec_iv + 1
  /\ lapped' = lapped \cup {s \in Requests : responder[s] = "encrypted"}
  /\ UNCHANGED <<queue, sealed, header, target>>

ResponseSealed(r, iv) ==
  /\ responder[r] = "counted"
  /\ IF secret_key = 0
       THEN ResponseMoves(r, "ended") /\ UNCHANGED sealed
       ELSE /\ ResponseMoves(r, "encrypted")
            /\ sealed' = [sealed EXCEPT ![r] = <<secret_key, iv>>]
  /\ UNCHANGED <<last_dec_iv, queue, header, target, lapped>>

ResponseEncrypts_BeforeCount(r) == ResponseSealed(r, last_dec_iv - 1)

ResponseEncrypts(r) == ResponseSealed(r, last_dec_iv)

ResponsePacks(r) ==
  /\ responder[r] = "encrypted" /\ ResponseMoves(r, "packed")
  /\ header' = [header EXCEPT ![r] = last_dec_iv]
  /\ UNCHANGED <<last_dec_iv, queue, sealed, target, lapped>>

Enqueues(r, q) ==
  /\ queue' = [queue EXCEPT ![q] = Append(@, r)]
  /\ ResponseMoves(r, "ended")
  /\ UNCHANGED <<last_dec_iv, sealed, header, target, lapped>>

ResponseSent_Unbounded(r) == responder[r] = "packed" /\ Enqueues(r, session)

(* Sending to rpc_queue: who finds it full waits on that very queue.       *)
ResponseSent(r) ==
  \/ responder[r] = "packed" /\ Len(rpc_queue) < QueueSize /\ Enqueues(r, session)
  \/ responder[r] = "blocked" /\ Len(queue[target[r]]) < QueueSize /\ Enqueues(r, target[r])

ResponseBlocks(r) ==
  /\ responder[r] = "packed" /\ Len(rpc_queue) = QueueSize
  /\ ResponseMoves(r, "blocked")
  /\ target' = [target EXCEPT ![r] = session]
  /\ UNCHANGED <<last_dec_iv, queue, sealed, header, lapped>>

-----------------------------------------------------------------------------
(* The goroutine of a subscription: until the subscription is over, wait   *)
(* for a response in the queue that is rpc_queue when the wait begins.     *)
NoteMoves(n, at, q, live) ==
  note' = [note EXCEPT ![n] = [at |-> at, queue |-> q, live |-> live]]

Subscribes(n) ==
  /\ note[n].at = "none" /\ \A m \in Subs : ~note[m].live /\ (m < n => note[m].at # "none")
  /\ NoteMoves(n, "check", 0, TRUE)
  /\ UNCHANGED <<pairVars, ivVars, queue, rpcVars, executed, notified>>

Unsubscribes(n) ==
  /\ note[n].live
  /\ IF note[n].at = "listening" THEN NoteMoves(n, "listening", note[n].queue, FALSE)
                                 ELSE NoteMoves(n, "ended", 0, FALSE)
  /\ UNCHANGED <<pairVars, ivVars, queue, rpcVars, executed, notified>>

NoteListens(n) ==
  /\ note[n].at = "check"
  /\ NoteMoves(n, "listening", session, TRUE)
  /\ UNCHANGED <<pairVars, ivVars, queue, rpcVars, executed, notified>>

(* What the goroutine takes goes nowhere when its subscription is over.    *)
Delivers(n) ==
  notified' = IF note[n].live THEN notified \cup {Head(queue[note[n].queue])} ELSE notified

NoteSends_Once(n) ==
  /\ note[n].at = "listening" /\ queue[note[n].queue] # <<>>
  /\ queue' = [queue EXCEPT ![note[n].queue] = Tail(@)]
  /\ NoteMoves(n, "ended", 0, note[n].live)
  /\ Delivers(n)
  /\ UNCHANGED <<pairVars, ivVars, rpcVars, executed>>

NoteSends(n) ==
  /\ note[n].at = "listening" /\ queue[note[n].queue] # <<>>
  /\ queue' = [queue EXCEPT ![note[n].queue] = Tail(@)]
  /\ NoteMoves(n, IF note[n].live THEN "check" ELSE "ended", 0, note[n].live)
  /\ Delivers(n)
  /\ UNCHANGED <<pairVars, ivVars, rpcVars, executed>>

-----------------------------------------------------------------------------
Handler ==
  \/ ColorizeDisplay \/ PairIntent \/ PairIntentMalformed
  \/ BytesA \/ BytesAFatal \/ ReadSB \/ (\E p \in 0 .. session : BytesM(p)) \/ ReadHAMK
  \/ \E iv \in 0 .. FirstResponseIV : Comms(iv)

Respond(r) ==
  \/ ResponseCounts(r) \/ ResponseEncrypts(r) \/ ResponsePacks(r)
  \/ ResponseSent(r) \/ ResponseBlocks(r)

Notify(n)  == NoteListens(n) \/ NoteSends(n)

Next ==
  \/ Handler
  \/ \E r \in Requests : Respond(r)
  \/ \E n \in Subs : Subscribes(n) \/ Unsubscribes(n) \/ Notify(n)

(* The goroutines run when they can; the client does nothing unasked.      *)
Fairness ==
  /\ \A r \in Requests : WF_vars(Respond(r))
  /\ \A n \in Subs : WF_vars(Notify(n))

Spec == Init /\ [][Next]_vars
FairSpec == Spec /\ Fairness

-----------------------------------------------------------------------------
(* "Not allowed to re-use IVs": within a session no two requests reach the *)
(* router with the same IV, and their IVs increase.                        *)
RequestsOnce ==
  \A i, j \in DOMAIN executed :
    i < j /\ executed[i][1] = executed[j][1] => executed[i][2] < executed[j][2]

(* The code the user reads off the display is the one the exchange uses,   *)
(* unless the call that was to show it failed: PairIntent goes on all the  *)
(* same, with the code before, if any, still on the display.               *)
CodeOnDisplay == state # "intent" /\ ~unshown => displayed = session

(* Whatever goroutines of responses are under way when a client starts     *)
(* over, a request of the session in force is answered with a message the  *)
(* client can read: sealed with the key of the exchange that verified it,  *)
(* never given up for want of a key, and, unless another response was      *)
(* counted before it was packed, carrying the IV it was sealed with.       *)
AnswersReadable ==
  \A r \in Requests :
    r[1] = session /\ responder[r] \in {"packed", "blocked", "ended"} =>
      sealed[r][1] = session /\ (r \in lapped \/ header[r] = sealed[r][2])

(* "IV needs to be unique": no two responses are encrypted with the same   *)
(* key and the same IV.                                                    *)
ResponseIVsUnique ==
  \A r, s \in Requests :
    r # s /\ sealed[r] # <<0, 0>> => sealed[r] # sealed[s]

(* Each response that waits in rpc_queue is sent to the client that is     *)
(* subscribed, unless the session or the subscription ends first.  Two     *)
(* goroutines cannot do it: one that has been waiting since before the     *)
(* last resetState, whose queue has been replaced, and one of a former     *)
(* subscription on this queue, which takes a response and drops it.        *)
Listener(n) == note[n].live /\ note[n].queue \in {0, session}
Straggler(n) == ~note[n].live /\ note[n].at = "listening" /\ note[n].queue = session

Waits(i) == i \in DOMAIN executed /\ \E k \in DOMAIN rpc_queue : rpc_queue[k] = executed[i]
Sent(i)  == i \in DOMAIN executed /\ executed[i] \in notified

ResponsesNotified ==
  \A i \in 1 .. MaxRequests :
    /\ state = "verified" /\ Waits(i)
    /\ \E n \in Subs : Listener(n)
    /\ ~\E n \in Subs : Straggler(n)
    ~> state # "verified" \/ Sent(i) \/ ~\E n \in Subs : Listener(n)

(* The code in force, what became of it, and the requests served under it. *)
Code == INSTANCE OneTimeCode WITH
  code  <- session,
  phase <- CASE state = "intent"   -> "idle"
             [] state = "verified" -> "accepted"
             [] OTHER              -> "offered",
  last  <- last_enc_iv

(* The service keeps the promise made about one-time codes: offered, then  *)
(* accepted at the first attempt or never used again.                      *)
CodeImplemented == Code!CodeSpec
=============================================================================
