-------------------------- MODULE SecuredRPCProofs --------------------------
(***************************************************************************)
(* What the pairing service guarantees for any number of sessions, IVs,    *)
(* subscriptions and any queue size: the code on the display is the one in *)
(* force, requests are served and answered once, with answers the client   *)
(* can read, the types hold, and the service implements OneTimeCode.       *)
(***************************************************************************)
EXTENDS SecuredRPC, SequenceTheorems, FiniteSetTheorems, TLAPS

(* The types of what the handlers read and write.                          *)
PairTypeOK ==
  /\ state \in {"intent", "bytesA", "bytesM", "verified"}
  /\ session \in Sessions
  /\ last_enc_iv \in Nat
  /\ executed \in Seq(Sessions \X (Nat \ {0}))

(* Why a session starts with a clean count: last_enc_iv moves only once    *)
(* the client is verified, and nothing leaves "verified" but resetState.   *)
IVUnused == state # "verified" => last_enc_iv = 0

(* What was served was served under this code or an older one, and under   *)
(* this one with an IV that counts as used.                                *)
ServedUpToIV ==
  \A i \in DOMAIN executed :
    /\ executed[i][1] <= session
    /\ executed[i][1] = session => executed[i][2] <= last_enc_iv

(* From ComputeKey on the key is the one of the session.                   *)
KeyOfSession == state \in {"bytesM", "verified"} => secret_key = session

(* The inductive invariant.                                                *)
PairInv ==
  PairTypeOK /\ IVUnused /\ CodeOnDisplay /\ KeyOfSession /\ ServedUpToIV /\ RequestsOnce

USE SecuredRPCAssumption DEF Sessions, display, noteVars

(* What every step of the goroutine of a response does.                    *)
LEMMA ResponseStep ==
  ASSUME NEW r, Respond(r)
  PROVE  /\ UNCHANGED <<pairVars, last_enc_iv, noteVars, executed>>
         /\ responder[r] # "none"
         /\ \E at \in {"counted", "encrypted", "packed", "blocked", "ended"} :
              responder' = [responder EXCEPT ![r] = at]
BY DEF Respond, ResponseCounts, ResponseEncrypts, ResponseSealed, ResponsePacks, ResponseSent,
   ResponseBlocks, Enqueues, ResponseMoves

(* What a handler that leaves the goroutines alone does to the invariant:  *)
(* the session stays with its IVs, or a new one starts.                    *)
LEMMA ResetKeepsInv ==
  ASSUME PairInv, NEW s \in {"intent", "bytesA"}, ResetState(s),
         s = "bytesA" => displayed' = session' \/ unshown'
  PROVE  PairInv'
<1>1. PairTypeOK' /\ IVUnused' /\ CodeOnDisplay' /\ KeyOfSession'
  BY DEF PairInv, PairTypeOK, IVUnused, CodeOnDisplay, KeyOfSession, ResetState
<1>2. ServedUpToIV'
  BY DEF PairInv, PairTypeOK, ServedUpToIV, ResetState
<1>3. RequestsOnce'
  BY DEF PairInv, RequestsOnce, ResetState
<1> QED BY <1>1, <1>2, <1>3 DEF PairInv

(* A handler called out of order resets, and so keeps the invariant.       *)
LEMMA OutOfOrderKeepsInv ==
  ASSUME PairInv, NEW s, OutOfOrder(s) PROVE PairInv'
BY ResetKeepsInv DEF OutOfOrder

(* So does every step that changes no more than last_dec_iv, the queues,   *)
(* the goroutines of responses and those of subscriptions.                 *)
LEMMA GoroutineKeepsInv ==
  ASSUME PairInv, UNCHANGED <<pairVars, last_enc_iv, executed>>
  PROVE  PairInv'
BY DEF PairInv, PairTypeOK, IVUnused, CodeOnDisplay, KeyOfSession, ServedUpToIV, RequestsOnce,
       pairVars

(* A request is served with an IV above every one served in its session.   *)
LEMMA CommsKeepsInv ==
  ASSUME PairInv, NEW iv \in 0 .. FirstResponseIV, Comms(iv) PROVE PairInv'
<1>1. CASE OutOfOrder("verified")
  BY <1>1, OutOfOrderKeepsInv
<1>2. CASE ~OutOfOrder("verified")
  <2>1. state = "verified" /\ FreshIV(iv) /\ last_enc_iv' = iv /\ UNCHANGED pairVars
    BY <1>2 DEF Comms
  <2>2. executed' = executed \/ executed' = Append(executed, <<session, iv>>)
    BY <1>2 DEF Comms
  <2>3. iv \in Nat \ {0} /\ iv > last_enc_iv /\ last_enc_iv \in Nat /\ session \in Nat
    BY <2>1 DEF PairInv, PairTypeOK, FreshIV, FirstResponseIV
  <2>4. PairTypeOK'
    <3>1. executed' \in Seq(Sessions \X (Nat \ {0}))
      <4>1. executed \in Seq(Sessions \X (Nat \ {0})) /\ <<session, iv>> \in Sessions \X (Nat \ {0})
        BY <2>3 DEF PairInv, PairTypeOK
      <4>2. Append(executed, <<session, iv>>) \in Seq(Sessions \X (Nat \ {0}))
        BY <4>1, AppendProperties
      <4> QED BY <2>2, <4>1, <4>2, Zenon
    <3> QED BY <3>1, <2>1, <2>3 DEF PairInv, PairTypeOK, pairVars
  <2>5. IVUnused' /\ CodeOnDisplay' /\ KeyOfSession'
    BY <2>1 DEF PairInv, IVUnused, CodeOnDisplay, KeyOfSession, pairVars
  <2>6. ServedUpToIV' /\ RequestsOnce'
    <3>1. CASE executed' = executed
      BY <3>1, <2>1, <2>3 DEF PairInv, PairTypeOK, ServedUpToIV, RequestsOnce, pairVars
    <3>2. CASE executed' = Append(executed, <<session, iv>>)
      <4>1. executed \in Seq(Sessions \X (Nat \ {0}))
        BY DEF PairInv, PairTypeOK
      <4>2. /\ DOMAIN executed' = 1 .. Len(executed) + 1
            /\ DOMAIN executed = 1 .. Len(executed) /\ Len(executed) \in Nat
            /\ \A i \in DOMAIN executed : executed'[i] = executed[i]
            /\ executed'[Len(executed) + 1] = <<session, iv>>
        BY <3>2, <4>1
      <4>3. \A i \in DOMAIN executed :
              executed[i] \in Sessions \X (Nat \ {0})
        BY <4>1
      <4>4. ServedUpToIV'
        BY <4>2, <4>3, <2>1, <2>3 DEF PairInv, ServedUpToIV, pairVars
      <4>5. RequestsOnce'
        <5> SUFFICES ASSUME NEW i \in DOMAIN executed', NEW j \in DOMAIN executed', i < j,
                            executed'[i][1] = executed'[j][1]
                     PROVE  executed'[i][2] < executed'[j][2]
          BY DEF RequestsOnce
        <5>1. i \in DOMAIN executed
          BY <4>2
        <5>2. CASE j \in DOMAIN executed
          BY <4>2, <5>1, <5>2 DEF PairInv, RequestsOnce
        <5>3. CASE j = Len(executed) + 1
          <6>1. executed[i][1] = session
            BY <4>2, <5>1, <5>3
          <6> QED BY <4>2, <4>3, <5>1, <5>3, <6>1, <2>3 DEF PairInv, ServedUpToIV
        <5> QED BY <4>2, <5>2, <5>3
      <4> QED BY <4>4, <4>5
    <3> QED BY <2>2, <3>1, <3>2
  <2> QED BY <2>4, <2>5, <2>6 DEF PairInv
<1> QED BY <1>1, <1>2

(* The invariant holds when the service is registered.                     *)
LEMMA InitKeepsInv == Init => PairInv
<1> SUFFICES ASSUME Init PROVE PairInv
  OBVIOUS
<1>1. executed = <<>> /\ DOMAIN executed = {}
  BY DEF Init
<1> QED BY <1>1 DEF Init, PairInv, PairTypeOK, IVUnused, CodeOnDisplay, KeyOfSession,
                    ServedUpToIV, RequestsOnce

(* Every handler and every goroutine keeps the invariant.                  *)
LEMMA StepKeepsInv == PairInv /\ [Next]_vars => PairInv'
<1> SUFFICES ASSUME PairInv, [Next]_vars PROVE PairInv'
  OBVIOUS
<1> USE DEF Others, Offers, Shows
<1>1. CASE ColorizeDisplay
  BY <1>1, ResetKeepsInv, GoroutineKeepsInv DEF ColorizeDisplay, pairVars, ivVars
<1>2. CASE PairIntent
  <2>1. CASE state # "intent"
    BY <1>2, <2>1, ResetKeepsInv DEF PairIntent
  <2>2. CASE state = "intent"
    BY <1>2, <2>2 DEF PairIntent, PairInv, PairTypeOK, IVUnused, CodeOnDisplay, KeyOfSession,
                      ServedUpToIV, RequestsOnce, ivVars
  <2> QED BY <2>1, <2>2
<1>3. CASE PairIntentMalformed
  BY <1>3, ResetKeepsInv DEF PairIntentMalformed
<1>4. CASE BytesA
  <2>1. CASE OutOfOrder("bytesA")
    BY <2>1, OutOfOrderKeepsInv
  <2>2. CASE ~OutOfOrder("bytesA")
    BY <1>4, <2>2 DEF BytesA, PairInv, PairTypeOK, IVUnused, CodeOnDisplay, KeyOfSession,
                      ServedUpToIV, RequestsOnce, ivVars
  <2> QED BY <2>1, <2>2
<1>5. CASE BytesAFatal
  <2>1. /\ session' = session + 1 /\ session' \in Sessions /\ session \in Nat
        /\ last_enc_iv' = 0 /\ state' = "intent" /\ executed' = executed
    BY <1>5 DEF BytesAFatal, PairInv, PairTypeOK
  <2>2. PairTypeOK' /\ IVUnused' /\ CodeOnDisplay' /\ KeyOfSession' /\ RequestsOnce'
    BY <2>1 DEF PairInv, PairTypeOK, IVUnused, CodeOnDisplay, KeyOfSession, RequestsOnce
  <2>3. ServedUpToIV'
    BY <2>1 DEF PairInv, PairTypeOK, ServedUpToIV
  <2> QED BY <2>2, <2>3 DEF PairInv
<1>6. CASE ReadSB \/ ReadHAMK
  BY <1>6, OutOfOrderKeepsInv DEF ReadSB, ReadHAMK
<1>7. ASSUME NEW p \in 0 .. session, BytesM(p) PROVE PairInv'
  <2>1. CASE OutOfOrder("bytesM")
    BY <2>1, OutOfOrderKeepsInv
  <2>2. CASE ResetState("intent")
    BY <2>2, ResetKeepsInv
  <2>3. CASE ~OutOfOrder("bytesM") /\ ~ResetState("intent")
    <3>1. /\ state = "bytesM" /\ state' = "verified" /\ last_enc_iv' = 0
          /\ UNCHANGED <<session, display, secret_key, executed>>
      BY <1>7, <2>3 DEF BytesM
    <3>2. last_enc_iv = 0
      BY <3>1 DEF PairInv, IVUnused
    <3> QED BY <3>1, <3>2 DEF PairInv, PairTypeOK, IVUnused, CodeOnDisplay, KeyOfSession,
                              ServedUpToIV, RequestsOnce
  <2> QED BY <2>1, <2>2, <2>3
<1>8. ASSUME NEW iv \in 0 .. FirstResponseIV, Comms(iv) PROVE PairInv'
  BY <1>8, CommsKeepsInv
<1>9. ASSUME NEW r \in Requests, Respond(r) PROVE PairInv'
  BY <1>9, GoroutineKeepsInv, ResponseStep
<1>10. ASSUME NEW n \in Subs, Subscribes(n) \/ Unsubscribes(n) \/ Notify(n) PROVE PairInv'
  BY <1>10, GoroutineKeepsInv
     DEF Subscribes, Unsubscribes, Notify, NoteListens, NoteSends, ivVars
<1>11. CASE UNCHANGED vars
  BY <1>11, GoroutineKeepsInv DEF vars, ivVars
<1> QED BY <1>1, <1>2, <1>3, <1>4, <1>5, <1>6, <1>7, <1>8, <1>9, <1>10, <1>11 DEF Next, Handler

(* The invariant, once and for all.                                        *)
LEMMA PairingInvariant == Spec => []PairInv
BY InitKeepsInv, StepKeepsInv, PTL DEF Spec

(* While a pairing is under way the display shows the code that the SRP    *)
(* exchange uses, however often and wherever the client starts again.      *)
THEOREM CodeInForce == Spec => []CodeOnDisplay
<1>1. PairInv => CodeOnDisplay
  BY DEF PairInv
<1> QED BY PairingInvariant, <1>1, PTL

(* No two requests of a session reach the router with the same IV, and     *)
(* they reach it in the order of their IVs.                                *)
THEOREM RequestsServedOnce == Spec => []RequestsOnce
<1>1. PairInv => RequestsOnce
  BY DEF PairInv
<1> QED BY PairingInvariant, <1>1, PTL

(* The state the abstract specification gives to each state of the service.*)
CodePhase ==
  CASE state = "intent"   -> "idle"
    [] state = "verified" -> "accepted"
    [] OTHER              -> "offered"

(* A new session withdraws the old code or offers the new one.             *)
LEMMA ResetImplements ==
  ASSUME PairInv, NEW s \in {"intent", "bytesA"}, ResetState(s),
         s = "bytesA" => state # "intent"
  PROVE  Code!CodeNext
BY DEF PairInv, PairTypeOK, ResetState, Code!CodeNext, Code!Withdraw, Code!Offer

(* A handler called out of order withdraws the code.                       *)
LEMMA OutOfOrderImplements ==
  ASSUME PairInv, NEW s, OutOfOrder(s) PROVE Code!CodeNext
BY ResetImplements DEF OutOfOrder

(* Every step of the service is a step of OneTimeCode or invisible to it.  *)
LEMMA StepImplements == PairInv /\ [Next]_vars => [Code!CodeNext]_(Code!cvars)
<1> SUFFICES ASSUME PairInv, [Next]_vars PROVE [Code!CodeNext]_(Code!cvars)
  OBVIOUS
<1> USE DEF Others, Offers, Shows
<1>1. CASE ColorizeDisplay
  BY <1>1, ResetImplements DEF ColorizeDisplay, ivVars, Code!cvars
<1>2. CASE PairIntent
  <2>1. CASE state # "intent"
    BY <1>2, <2>1, ResetImplements DEF PairIntent
  <2>2. CASE state = "intent"
    BY <1>2, <2>2 DEF PairIntent, PairInv, IVUnused, ivVars, Code!CodeNext, Code!Offer
  <2> QED BY <2>1, <2>2
<1>3. CASE PairIntentMalformed
  BY <1>3, ResetImplements DEF PairIntentMalformed
<1>4. CASE BytesA
  <2>1. CASE OutOfOrder("bytesA")
    BY <2>1, OutOfOrderImplements
  <2>2. CASE ~OutOfOrder("bytesA")
    BY <1>4, <2>2 DEF BytesA, ivVars, Code!cvars
  <2> QED BY <2>1, <2>2
<1>5. CASE BytesAFatal
  BY <1>5 DEF BytesAFatal, Code!CodeNext, Code!Withdraw
<1>6. CASE ReadSB \/ ReadHAMK
  BY <1>6, OutOfOrderImplements DEF ReadSB, ReadHAMK
<1>7. ASSUME NEW p \in 0 .. session, BytesM(p) PROVE Code!CodeNext
  <2>1. CASE OutOfOrder("bytesM")
    BY <2>1, OutOfOrderImplements
  <2>2. CASE ResetState("intent")
    BY <2>2, ResetImplements
  <2>3. CASE ~OutOfOrder("bytesM") /\ ~ResetState("intent")
    <3>1. /\ state = "bytesM" /\ state' = "verified" /\ last_enc_iv' = 0
          /\ session' = session
      BY <1>7, <2>3 DEF BytesM
    <3> QED BY <3>1 DEF PairInv, IVUnused, Code!CodeNext, Code!Accept
  <2> QED BY <2>1, <2>2, <2>3
<1>8. ASSUME NEW iv \in 0 .. FirstResponseIV, Comms(iv) PROVE Code!CodeNext
  <2>1. CASE OutOfOrder("verified")
    BY <2>1, OutOfOrderImplements
  <2>2. CASE ~OutOfOrder("verified")
    BY <1>8, <2>2 DEF Comms, FreshIV, pairVars, Code!CodeNext, Code!Serve
  <2> QED BY <2>1, <2>2
<1>9. ASSUME NEW r \in Requests, Respond(r) PROVE UNCHANGED Code!cvars
  BY <1>9, ResponseStep DEF pairVars, Code!cvars
<1>10. ASSUME NEW n \in Subs, Subscribes(n) \/ Unsubscribes(n) \/ Notify(n)
       PROVE  UNCHANGED Code!cvars
  BY <1>10 DEF Subscribes, Unsubscribes, Notify, NoteListens, NoteSends, pairVars, ivVars,
               Code!cvars
<1>11. CASE UNCHANGED vars
  BY <1>11 DEF vars, pairVars, ivVars, Code!cvars
<1> QED BY <1>1, <1>2, <1>3, <1>4, <1>5, <1>6, <1>7, <1>8, <1>9, <1>10, <1>11 DEF Next, Handler

(* The pairing service implements the promise of one-time codes: a code is *)
(* accepted at the first attempt or replaced, and requests are served only *)
(* under an accepted one, with growing numbers.                            *)
THEOREM SecuredRPCImplementsOneTimeCode == Spec => CodeImplemented
<1>1. Init => Code!CodeInit
  BY DEF Init, Code!CodeInit
<1>2. CodeImplemented <=> Code!CodeInit /\ [][Code!CodeNext]_(Code!cvars)
  BY DEF CodeImplemented, Code!CodeSpec
<1> QED BY <1>1, <1>2, PairingInvariant, StepImplements, PTL DEF Spec

-----------------------------------------------------------------------------
(* The types of all that the handlers share with the goroutines.           *)
SharedTypes ==
  /\ displayed \in 0 .. MaxSessions /\ secret_key \in 0 .. MaxSessions
  /\ last_enc_iv \in 0 .. MaxIV /\ last_dec_iv \in Nat
  /\ unshown \in BOOLEAN /\ executed \in Seq(Requests)

(* The stages of the goroutine of a response, and those after it counted.  *)
Beyond == {"counted", "encrypted", "packed", "blocked", "ended"}
Stages == {"none", "called"} \cup Beyond

USE DEF Stages, Beyond

ResponderTypes ==
  /\ responder \in [Requests -> Stages]
  /\ sealed \in [Requests -> (0 .. MaxSessions) \X Nat]
  /\ header \in [Requests -> Nat] /\ target \in [Requests -> 0 .. MaxSessions]
  /\ \A r \in Requests : responder[r] = "blocked" => target[r] # 0
  /\ lapped \subseteq Requests

QueueTypes ==
  /\ queue \in [Sessions -> Seq(Requests)]
  /\ \A s \in Sessions : Len(queue[s]) <= QueueSize

NoteTypes ==
  /\ note \in [Subs -> [at : {"none", "check", "listening", "ended"},
                        queue : 0 .. MaxSessions, live : BOOLEAN]]
  /\ \A n \in Subs : note[n].at = "listening" => note[n].queue # 0
  /\ notified \subseteq Requests

(* Who has a goroutine was served: under an older code, or under this one  *)
(* with an IV that counts as used.  So no request gets a second goroutine. *)
StartedWhenServed ==
  \A r \in Requests :
    responder[r] # "none" =>
      r[1] < session \/ (r[1] = session /\ r[2] <= last_enc_iv)

(* Every goroutine counts once, so last_dec_iv never passes their number.  *)
Counted == {r \in Requests : responder[r] \in Beyond}
CountedOnce == last_dec_iv <= Cardinality(Counted)

SharedInv ==
  /\ PairInv /\ SharedTypes /\ ResponderTypes /\ QueueTypes /\ NoteTypes
  /\ StartedWhenServed /\ CountedOnce

LEMMA RequestsFinite == IsFiniteSet(Requests) /\ Cardinality(Requests) \in Nat
<1>1. IsFiniteSet(1 .. MaxSessions) /\ IsFiniteSet(1 .. MaxIV)
  BY FS_Interval
<1>2. IsFiniteSet(Requests)
  BY <1>1, FS_Product DEF Requests
<1> QED
  BY <1>2, FS_CardinalityType

LEMMA CountedFinite ==
  /\ IsFiniteSet(Counted) /\ Cardinality(Counted) \in Nat
  /\ Cardinality(Counted) <= Cardinality(Requests)
<1>1. Counted \in SUBSET Requests
  BY DEF Counted
<1> QED
  BY <1>1, RequestsFinite, FS_Subset, FS_CardinalityType

LEMMA SharedTyped == SharedInv => TypeOK
<1> SUFFICES ASSUME SharedInv PROVE TypeOK
  OBVIOUS
<1>1. last_dec_iv \in 0 .. Cardinality(Requests)
  BY CountedFinite, RequestsFinite DEF SharedInv, SharedTypes, CountedOnce
<1> QED
  BY <1>1 DEF SharedInv, PairInv, PairTypeOK, SharedTypes, ResponderTypes, QueueTypes,
     NoteTypes, TypeOK

(* More of them have counted, no less, when none goes back.                *)
LEMMA CountedGrows ==
  ASSUME \A r \in Requests : r \in Counted => r \in Counted'
  PROVE  Cardinality(Counted) <= Cardinality(Counted')
<1>1. IsFiniteSet(Counted')
  <2>1. Counted' \in SUBSET Requests
    BY DEF Counted, Requests
  <2> QED
    BY <2>1, RequestsFinite, FS_Subset
<1>2. Counted \in SUBSET Counted'
  BY DEF Counted
<1> QED
  BY <1>1, <1>2, FS_Subset

(* The handlers walk through the exchange, restart the process or take a   *)
(* request; only the last two touch the goroutines.                        *)
Walks ==
  /\ UNCHANGED <<queue, rpcVars, noteVars, executed>>
  /\ displayed' \in {displayed, session'} /\ (unshown' = unshown \/ unshown' \in BOOLEAN)
  /\ secret_key' \in {0, secret_key, session}
  /\ last_dec_iv' \in {0, last_dec_iv}
  /\ \/ session' = session /\ last_enc_iv' = last_enc_iv /\ state # "verified"
     \/ session' = session + 1 /\ session < MaxSessions /\ last_enc_iv' = 0

Takes(iv) ==
  /\ state = "verified" /\ FreshIV(iv) /\ last_enc_iv' = iv
  /\ \/ /\ responder' = [responder EXCEPT ![<<session, iv>>] = "called"]
        /\ executed' = Append(executed, <<session, iv>>)
     \/ UNCHANGED <<responder, executed>>
  /\ UNCHANGED <<pairVars, last_dec_iv, queue, sealed, header, target, lapped, noteVars>>

LEMMA ResetWalks ==
  ASSUME NEW s, ResetState(s), displayed' \in {displayed, session'},
         unshown' = unshown \/ unshown' \in BOOLEAN
  PROVE  Walks
  BY DEF ResetState, Walks

LEMMA OutOfOrderWalks == ASSUME NEW s, OutOfOrder(s) PROVE Walks
  BY ResetWalks DEF OutOfOrder

LEMMA HandlerKinds ==
  ASSUME PairInv, Handler
  PROVE  Walks \/ BytesAFatal \/ \E iv \in 0 .. FirstResponseIV : Takes(iv)
<1>1. CASE ColorizeDisplay
  BY <1>1, ResetWalks DEF ColorizeDisplay, Others, Walks, ivVars
<1>2. CASE PairIntent
  <2>0. displayed' \in {displayed, session'} /\ unshown' \in BOOLEAN
    BY <1>2 DEF PairIntent, Shows
  <2>1. CASE state # "intent"
    BY <1>2, <2>1, <2>0, ResetWalks DEF PairIntent, Offers
  <2>2. CASE state = "intent"
    BY <1>2, <2>2, <2>0 DEF PairIntent, Offers, Others, Walks, ivVars
  <2> QED
    BY <2>1, <2>2
<1>3. CASE PairIntentMalformed
  BY <1>3, ResetWalks DEF PairIntentMalformed
<1>4. CASE BytesA
  <2>1. CASE OutOfOrder("bytesA")
    BY <2>1, OutOfOrderWalks
  <2>2. CASE ~OutOfOrder("bytesA")
    BY <1>4, <2>2 DEF BytesA, Others, Walks, ivVars
  <2> QED
    BY <2>1, <2>2
<1>5. CASE ReadSB \/ ReadHAMK
  BY <1>5, OutOfOrderWalks DEF ReadSB, ReadHAMK
<1>6. ASSUME NEW p \in 0 .. session, BytesM(p) PROVE Walks
  <2>1. CASE OutOfOrder("bytesM")
    BY <2>1, OutOfOrderWalks
  <2>2. CASE ResetState("intent")
    BY <1>6, <2>1, <2>2, ResetWalks DEF BytesM
  <2>3. CASE ~OutOfOrder("bytesM") /\ ~ResetState("intent")
    <3>1. /\ state = "bytesM" /\ last_enc_iv' = 0 /\ last_dec_iv' = 0
          /\ UNCHANGED <<session, display, secret_key>> /\ Others
      BY <1>6, <2>3 DEF BytesM
    <3>2. last_enc_iv = 0
      BY <3>1 DEF PairInv, IVUnused
    <3> QED
      BY <3>1, <3>2 DEF Others, Walks
  <2> QED
    BY <2>1, <2>2, <2>3
<1>7. ASSUME NEW iv \in 0 .. FirstResponseIV, Comms(iv) PROVE Walks \/ Takes(iv)
  <2>1. CASE OutOfOrder("verified")
    BY <2>1, OutOfOrderWalks
  <2>2. CASE ~OutOfOrder("verified")
    BY <1>7, <2>2 DEF Comms, Takes
  <2> QED
    BY <2>1, <2>2
<1> QED
  BY <1>1, <1>2, <1>3, <1>4, <1>5, <1>6, <1>7 DEF Handler

(* A request that is taken had no goroutine.                               *)
LEMMA TakenIsNew ==
  ASSUME PairInv, StartedWhenServed, ResponderTypes, NEW iv \in 0 .. FirstResponseIV, Takes(iv)
  PROVE  <<session, iv>> \in Requests /\ responder[<<session, iv>>] = "none"
<1>1. iv \in 1 .. MaxIV /\ iv > last_enc_iv /\ session \in Sessions /\ last_enc_iv \in Nat
  BY DEF Takes, FreshIV, FirstResponseIV, PairInv, PairTypeOK
<1>2. <<session, iv>> \in Requests
  BY <1>1 DEF Requests
<1>3. ~(session < session) /\ ~(iv <= last_enc_iv)
  BY <1>1
<1> QED
  BY <1>2, <1>3 DEF StartedWhenServed

(* One lemma per part of the invariant.                                    *)
LEMMA HandlerShared ==
  ASSUME PairInv, SharedTypes, Handler PROVE SharedTypes'
<1>1. session \in Nat /\ 1 <= session /\ session <= MaxSessions
  BY DEF PairInv, PairTypeOK
<1>2. CASE Walks
  BY <1>1, <1>2 DEF Walks, SharedTypes
<1>3. CASE BytesAFatal
  <2>1. executed' = executed /\ unshown' = FALSE
    BY <1>3 DEF BytesAFatal
  <2>2. displayed' = 0 /\ secret_key' = 0 /\ last_enc_iv' = 0 /\ last_dec_iv' = 0
    BY <1>3 DEF BytesAFatal
  <2>3. executed' \in Seq(Requests)
    BY <2>1 DEF SharedTypes
  <2>4. unshown' \in BOOLEAN
    BY <2>1
  <2>5. /\ displayed' \in 0 .. MaxSessions /\ secret_key' \in 0 .. MaxSessions
        /\ last_enc_iv' \in 0 .. MaxIV /\ last_dec_iv' \in Nat
    BY <2>2
  <2> QED
    BY <2>3, <2>4, <2>5, Zenon DEF SharedTypes
<1>4. ASSUME NEW iv \in 0 .. FirstResponseIV, Takes(iv) PROVE SharedTypes'
  <2>1. iv \in 1 .. MaxIV
    BY <1>4 DEF Takes, FreshIV, FirstResponseIV, SharedTypes
  <2>2. <<session, iv>> \in Requests
    BY <1>1, <2>1 DEF Requests
  <2>3. executed \in Seq(Requests) /\ Append(executed, <<session, iv>>) \in Seq(Requests)
    BY <2>2, AppendProperties DEF SharedTypes
  <2>4. executed' \in Seq(Requests)
    BY <1>4, <2>3 DEF Takes
  <2> QED
    BY <1>4, <2>1, <2>4 DEF Takes, SharedTypes, pairVars
<1> QED
  BY <1>2, <1>3, <1>4, HandlerKinds

LEMMA HandlerTypes ==
  ASSUME PairInv, ResponderTypes, QueueTypes, NoteTypes, Handler
  PROVE  ResponderTypes' /\ QueueTypes' /\ NoteTypes'
<1>1. CASE Walks
  BY <1>1 DEF Walks, rpcVars, ResponderTypes, QueueTypes, NoteTypes
<1>2. CASE BytesAFatal
  <2>1. ResponderTypes'
    BY <1>2 DEF BytesAFatal, ResponderTypes
  <2>2. QueueTypes'
    BY <1>2 DEF BytesAFatal, QueueTypes
  <2>3. NoteTypes'
    BY <1>2 DEF BytesAFatal, NoteTypes
  <2> QED
    BY <2>1, <2>2, <2>3
<1>3. ASSUME NEW iv \in 0 .. FirstResponseIV, Takes(iv)
      PROVE  ResponderTypes' /\ QueueTypes' /\ NoteTypes'
  <2>1. UNCHANGED <<queue, sealed, header, target, lapped, note, notified>>
    BY <1>3 DEF Takes
  <2>2. /\ responder' \in [Requests -> Stages]
        /\ \A r \in Requests : responder'[r] = "blocked" => responder[r] = "blocked"
    BY <1>3 DEF Takes, ResponderTypes
  <2> QED
    BY <2>1, <2>2 DEF ResponderTypes, QueueTypes, NoteTypes
<1> QED
  BY <1>1, <1>2, <1>3, HandlerKinds

LEMMA HandlerStarts ==
  ASSUME PairInv, ResponderTypes, StartedWhenServed, CountedOnce, SharedTypes, Handler
  PROVE  StartedWhenServed' /\ CountedOnce'
<1>1. session \in Nat /\ last_enc_iv \in Nat
  BY DEF PairInv, PairTypeOK
<1>2. \A r \in Requests : r[1] \in Nat /\ r[2] \in Nat
  BY DEF Requests
<1>3. Cardinality(Counted) \in Nat /\ Cardinality(Counted') \in Nat
  <2>1. Counted' \in SUBSET Requests
    BY DEF Counted, Requests
  <2> QED
    BY <2>1, CountedFinite, RequestsFinite, FS_Subset, FS_CardinalityType
<1>4. CASE Walks
  <2>1. responder' = responder /\ last_dec_iv' \in {0, last_dec_iv}
    BY <1>4 DEF Walks, rpcVars
  <2>2. \/ session' = session /\ last_enc_iv' = last_enc_iv
        \/ session' = session + 1
    BY <1>4 DEF Walks
  <2>3. StartedWhenServed'
    BY <1>1, <1>2, <2>1, <2>2 DEF StartedWhenServed, Requests
  <2>4. Counted' = Counted
    BY <2>1 DEF Counted, Requests
  <2>5. CountedOnce'
    BY <1>3, <2>1, <2>4 DEF CountedOnce
  <2> QED
    BY <2>3, <2>5
<1>5. CASE BytesAFatal
  <2>1. /\ last_dec_iv' = 0 /\ session' = session + 1
        /\ responder' = [r \in Requests |-> IF responder[r] = "none" THEN "none" ELSE "ended"]
    BY <1>5 DEF BytesAFatal
  <2>2. \A r \in Requests : responder'[r] # "none" => responder[r] # "none"
    BY <2>1 DEF Requests
  <2>3. StartedWhenServed'
    BY <1>1, <1>2, <2>1, <2>2 DEF StartedWhenServed, Requests
  <2>4. CountedOnce'
    BY <1>3, <2>1 DEF CountedOnce
  <2> QED
    BY <2>3, <2>4
<1>6. ASSUME NEW iv \in 0 .. FirstResponseIV, Takes(iv)
      PROVE  StartedWhenServed' /\ CountedOnce'
  <2> DEFINE q == <<session, iv>>
  <2>1. q \in Requests /\ responder[q] = "none" /\ q[1] = session /\ q[2] = iv
    BY <1>6, TakenIsNew
  <2>2. /\ responder' = [responder EXCEPT ![q] = "called"] \/ responder' = responder
        /\ UNCHANGED <<session, last_dec_iv>> /\ last_enc_iv' = iv /\ iv > last_enc_iv
    BY <1>6 DEF Takes, FreshIV, pairVars
  <2> HIDE DEF q
  <2>3. \A r \in Requests : responder'[r] = responder[r] \/ (r = q /\ responder'[r] = "called")
    BY <2>1, <2>2 DEF ResponderTypes
  <2>4. StartedWhenServed'
    <3> SUFFICES ASSUME NEW r \in Requests, responder'[r] # "none"
                 PROVE  r[1] < session' \/ (r[1] = session' /\ r[2] <= last_enc_iv')
      BY DEF StartedWhenServed, Requests
    <3>1. CASE r = q
      BY <2>1, <2>2, <3>1
    <3>2. CASE r # q
      <4>1. r[1] < session \/ (r[1] = session /\ r[2] <= last_enc_iv)
        BY <2>3, <3>2 DEF StartedWhenServed
      <4> QED
        BY <1>1, <1>2, <2>2, <4>1
    <3> QED
      BY <3>1, <3>2
  <2>5. \A r \in Requests : r \in Counted => r \in Counted'
    BY <2>1, <2>3 DEF Counted, Requests
  <2> QED
    BY <1>3, <2>2, <2>4, <2>5, CountedGrows DEF CountedOnce, SharedTypes
<1> QED
  BY <1>4, <1>5, <1>6, HandlerKinds

(* The goroutine of a response counts once, before it encrypts and sends.  *)
LEMMA RespondTypes ==
  ASSUME PairInv, SharedTypes, ResponderTypes, QueueTypes, NoteTypes,
         NEW r \in Requests, Respond(r)
  PROVE  SharedTypes' /\ ResponderTypes' /\ QueueTypes' /\ NoteTypes'
<1>1. SharedTypes' /\ NoteTypes'
  <2>1. last_dec_iv' \in {last_dec_iv, last_dec_iv + 1}
    BY DEF Respond, ResponseCounts, ResponseEncrypts, ResponseSealed, ResponsePacks,
       ResponseSent, ResponseBlocks, Enqueues
  <2> QED
    BY <2>1, ResponseStep DEF pairVars, SharedTypes, NoteTypes
<1>2. responder' \in [Requests -> Stages]
  BY ResponseStep DEF ResponderTypes
<1>3. sealed' \in [Requests -> (0 .. MaxSessions) \X Nat]
  <2>1. <<secret_key, last_dec_iv>> \in (0 .. MaxSessions) \X Nat
    BY DEF SharedTypes
  <2>2. sealed' = sealed \/ sealed' = [sealed EXCEPT ![r] = <<secret_key, last_dec_iv>>]
    BY DEF Respond, ResponseCounts, ResponseEncrypts, ResponseSealed, ResponsePacks,
       ResponseSent, ResponseBlocks, Enqueues
  <2> QED
    BY <2>1, <2>2 DEF ResponderTypes
<1>4. header' \in [Requests -> Nat] /\ target' \in [Requests -> 0 .. MaxSessions]
  <2>1. header' = header \/ header' = [header EXCEPT ![r] = last_dec_iv]
    BY DEF Respond, ResponseCounts, ResponseEncrypts, ResponseSealed, ResponsePacks,
       ResponseSent, ResponseBlocks, Enqueues
  <2>2. target' = target \/ target' = [target EXCEPT ![r] = session]
    BY DEF Respond, ResponseCounts, ResponseEncrypts, ResponseSealed, ResponsePacks,
       ResponseSent, ResponseBlocks, Enqueues
  <2>3. session \in 0 .. MaxSessions /\ last_dec_iv \in Nat
    BY DEF PairInv, PairTypeOK, SharedTypes
  <2> QED
    BY <2>1, <2>2, <2>3 DEF ResponderTypes
<1>5. lapped' \subseteq Requests
  BY DEF Respond, ResponseCounts, ResponseEncrypts, ResponseSealed, ResponsePacks,
     ResponseSent, ResponseBlocks, Enqueues, ResponderTypes
<1>6. QueueTypes'
  <2>1. CASE UNCHANGED queue
    BY <2>1 DEF QueueTypes
  <2>2. ASSUME NEW q \in Sessions, Enqueues(r, q), Len(queue[q]) < QueueSize
        PROVE  QueueTypes'
    <3>1. queue' = [queue EXCEPT ![q] = Append(queue[q], r)]
      BY <2>2 DEF Enqueues
    <3>2. queue[q] \in Seq(Requests)
      BY DEF QueueTypes
    <3>3. /\ Append(queue[q], r) \in Seq(Requests)
          /\ Len(Append(queue[q], r)) <= QueueSize
      BY <2>2, <3>2, AppendProperties
    <3> QED
      BY <3>1, <3>3 DEF QueueTypes
  <2>3. CASE ResponseSent(r)
    <3>1. session \in Sessions
      BY DEF PairInv, PairTypeOK
    <3>2. CASE responder[r] = "packed" /\ Len(rpc_queue) < QueueSize /\ Enqueues(r, session)
      BY <2>2, <3>1, <3>2 DEF rpc_queue
    <3>3. CASE /\ responder[r] = "blocked" /\ Len(queue[target[r]]) < QueueSize
               /\ Enqueues(r, target[r])
      <4>1. target[r] \in Sessions
        BY <3>3 DEF ResponderTypes
      <4> QED
        BY <2>2, <3>3, <4>1
    <3> QED
      BY <2>3, <3>2, <3>3 DEF ResponseSent
  <2> QED
    BY <2>1, <2>3 DEF Respond, ResponseCounts, ResponseEncrypts, ResponseSealed,
       ResponsePacks, ResponseBlocks
<1>7. \A s \in Requests : responder'[s] = "blocked" => target'[s] # 0
  <2>1. \A s \in Requests : s # r => responder'[s] = responder[s] /\ target'[s] = target[s]
    <3>1. target' = target \/ target' = [target EXCEPT ![r] = session]
      BY DEF Respond, ResponseCounts, ResponseEncrypts, ResponseSealed, ResponsePacks,
         ResponseSent, ResponseBlocks, Enqueues
    <3> QED
      BY <3>1, ResponseStep DEF ResponderTypes
  <2>2. CASE ResponseBlocks(r)
    BY <2>1, <2>2 DEF ResponseBlocks, ResponderTypes, PairInv, PairTypeOK
  <2>3. CASE ~ResponseBlocks(r)
    <3>1. responder'[r] # "blocked"
      BY <2>3 DEF Respond, ResponseCounts, ResponseEncrypts, ResponseSealed,
         ResponsePacks, ResponseSent, Enqueues, ResponseMoves, ResponderTypes
    <3> QED
      BY <2>1, <3>1 DEF ResponderTypes
  <2> QED
    BY <2>2, <2>3
<1> QED
  BY <1>1, <1>2, <1>3, <1>4, <1>5, <1>6, <1>7 DEF ResponderTypes

LEMMA RespondCounts ==
  ASSUME SharedTypes, ResponderTypes, StartedWhenServed, CountedOnce,
         NEW r \in Requests, Respond(r)
  PROVE  StartedWhenServed' /\ CountedOnce'
<1>1. UNCHANGED <<session, last_enc_iv>> /\ responder[r] # "none"
  BY ResponseStep DEF pairVars
<1>2. \A s \in Requests : s # r => responder'[s] = responder[s]
  BY ResponseStep DEF ResponderTypes
<1>3. responder'[r] \in Beyond
  BY ResponseStep DEF ResponderTypes
<1>4. StartedWhenServed'
  <2>1. \A s \in Requests : responder'[s] # "none" => responder[s] # "none"
    BY <1>1, <1>2
  <2> QED
    BY <1>1, <2>1 DEF StartedWhenServed, Requests
<1>5. Counted' = Counted \cup {r}
  BY <1>2, <1>3 DEF Counted, Requests
<1>6. /\ Cardinality(Counted) \in Nat /\ IsFiniteSet(Counted)
      /\ Cardinality(Counted') = IF r \in Counted THEN Cardinality(Counted)
                                 ELSE Cardinality(Counted) + 1
  BY <1>5, CountedFinite, FS_AddElement
<1>7. CASE ResponseCounts(r)
  <2>1. r \notin Counted /\ last_dec_iv' = last_dec_iv + 1
    BY <1>7 DEF ResponseCounts, Counted
  <2> QED
    BY <1>4, <1>6, <2>1 DEF CountedOnce, SharedTypes
<1>8. CASE ~ResponseCounts(r)
  <2>1. last_dec_iv' = last_dec_iv
    BY <1>8 DEF Respond, ResponseEncrypts, ResponseSealed, ResponsePacks, ResponseSent,
       ResponseBlocks, Enqueues
  <2> QED
    BY <1>4, <1>6, <2>1 DEF CountedOnce, SharedTypes
<1> QED
  BY <1>7, <1>8

(* The goroutine of a subscription takes a response off a queue, no more.  *)
LEMMA NoteTyped ==
  ASSUME PairInv, QueueTypes, NoteTypes,
         NEW n \in Subs, Subscribes(n) \/ Unsubscribes(n) \/ Notify(n)
  PROVE  QueueTypes' /\ NoteTypes'
<1>1. NoteTypes'
  <2>1. session \in 0 .. MaxSessions /\ session # 0
    BY DEF PairInv, PairTypeOK
  <2>2. /\ note[n].at \in {"none", "check", "listening", "ended"}
        /\ note[n].queue \in 0 .. MaxSessions /\ note[n].live \in BOOLEAN
        /\ note[n].at = "listening" => note[n].queue # 0
    BY DEF NoteTypes
  <2>3. \E at \in {"none", "check", "listening", "ended"}, q \in 0 .. MaxSessions,
          live \in BOOLEAN : NoteMoves(n, at, q, live) /\ (at = "listening" => q # 0)
    <3>1. CASE Subscribes(n)
      <4>1. NoteMoves(n, "check", 0, TRUE)
        BY <3>1 DEF Subscribes
      <4>2. "check" \in {"none", "check", "listening", "ended"} /\ 0 \in 0 .. MaxSessions
        OBVIOUS
      <4> QED
        BY <4>1, <4>2
    <3>2. CASE Unsubscribes(n)
      <4>1. "ended" \in {"none", "check", "listening", "ended"} /\ 0 \in 0 .. MaxSessions
        OBVIOUS
      <4>2. \/ NoteMoves(n, "listening", note[n].queue, FALSE) /\ note[n].at = "listening"
            \/ NoteMoves(n, "ended", 0, FALSE)
        BY <3>2 DEF Unsubscribes
      <4>3. CASE NoteMoves(n, "listening", note[n].queue, FALSE) /\ note[n].at = "listening"
        BY <2>2, <4>3
      <4>4. CASE NoteMoves(n, "ended", 0, FALSE)
        BY <4>1, <4>4
      <4> QED
        BY <4>2, <4>3, <4>4
    <3>3. CASE NoteListens(n)
      <4>1. NoteMoves(n, "listening", session, TRUE) \/ NoteMoves(n, "ended", 0, FALSE)
        BY <3>3 DEF NoteListens
      <4>2. 0 \in 0 .. MaxSessions
        OBVIOUS
      <4>3. CASE NoteMoves(n, "listening", session, TRUE)
        BY <2>1, <4>3
      <4>4. CASE NoteMoves(n, "ended", 0, FALSE)
        BY <4>2, <4>4
      <4> QED
        BY <4>1, <4>3, <4>4
    <3>4. CASE NoteSends(n)
      <4>1. \/ NoteMoves(n, "check", 0, note[n].live)
            \/ NoteMoves(n, "ended", 0, note[n].live)
        BY <3>4 DEF NoteSends
      <4>2. 0 \in 0 .. MaxSessions /\ "check" \in {"none", "check", "listening", "ended"}
                                  /\ "ended" \in {"none", "check", "listening", "ended"}
        OBVIOUS
      <4> QED
        BY <2>2, <4>1, <4>2
    <3> QED
      BY <3>1, <3>2, <3>3, <3>4 DEF Notify
  <2> QED
    <3>1. /\ note' \in [Subs -> [at : {"none", "check", "listening", "ended"},
                                 queue : 0 .. MaxSessions, live : BOOLEAN]]
          /\ \A m \in Subs : note'[m].at = "listening" => note'[m].queue # 0
      <4>1. PICK at \in {"none", "check", "listening", "ended"}, q \in 0 .. MaxSessions,
                 live \in BOOLEAN : NoteMoves(n, at, q, live) /\ (at = "listening" => q # 0)
        BY <2>3
      <4>2. note' = [note EXCEPT ![n] = [at |-> at, queue |-> q, live |-> live]]
        BY <4>1 DEF NoteMoves
      <4>3. [at |-> at, queue |-> q, live |-> live]
              \in [at : {"none", "check", "listening", "ended"}, queue : 0 .. MaxSessions,
                   live : BOOLEAN]
        OBVIOUS
      <4>4. \A m \in Subs : m # n => note'[m] = note[m]
        BY <4>2 DEF NoteTypes
      <4>5. note'[n].at = at /\ note'[n].queue = q
        BY <4>2 DEF NoteTypes
      <4>6. \A m \in Subs : note'[m].at = "listening" => note'[m].queue # 0
        BY <4>1, <4>4, <4>5 DEF NoteTypes
      <4> QED
        BY <4>2, <4>3, <4>6 DEF NoteTypes
    <3>2. CASE notified' = notified
      BY <3>1, <3>2 DEF NoteTypes
    <3>3. CASE NoteSends(n)
      <4>1. note[n].queue \in Sessions
        BY <3>3 DEF NoteSends, NoteTypes
      <4>2. queue[note[n].queue] \in Seq(Requests) /\ queue[note[n].queue] # <<>>
        BY <3>3, <4>1 DEF NoteSends, QueueTypes
      <4>3. Head(queue[note[n].queue]) \in Requests
        BY <4>2
      <4> QED
        BY <3>1, <3>3, <4>3 DEF NoteSends, Delivers, NoteTypes
    <3> QED
      BY <3>2, <3>3 DEF Subscribes, Unsubscribes, Notify, NoteListens
<1>2. CASE UNCHANGED queue
  BY <1>1, <1>2 DEF QueueTypes
<1>3. CASE NoteSends(n)
  <2> DEFINE k == note[n].queue
  <2>1. queue' = [queue EXCEPT ![k] = Tail(queue[k])] /\ queue[k] # <<>>
    BY <1>3 DEF NoteSends
  <2> HIDE DEF k
  <2>2. ASSUME NEW s \in Sessions
        PROVE  queue'[s] = queue[s] \/ (queue'[s] = Tail(queue[s]) /\ queue[s] # <<>>)
    BY <2>1 DEF QueueTypes
  <2>3. ASSUME NEW s \in Sessions PROVE queue'[s] \in Seq(Requests) /\ Len(queue'[s]) <= QueueSize
    <3>1. queue[s] \in Seq(Requests) /\ Len(queue[s]) <= QueueSize
      BY DEF QueueTypes
    <3>2. queue[s] # <<>> => Tail(queue[s]) \in Seq(Requests) /\ Len(Tail(queue[s])) <= QueueSize
      BY <3>1
    <3> QED
      BY <2>2, <3>1, <3>2
  <2>4. queue' = [s \in Sessions |-> queue'[s]]
    BY <2>1 DEF QueueTypes
  <2> QED
    BY <1>1, <2>3, <2>4 DEF QueueTypes
<1> QED
  BY <1>2, <1>3 DEF Subscribes, Unsubscribes, Notify, NoteListens

LEMMA InitShared == Init => SharedInv
<1> SUFFICES ASSUME Init PROVE SharedInv
  OBVIOUS
<1>1. SharedTypes
  <2>1. executed \in Seq(Requests)
    BY DEF Init
  <2>2. unshown \in BOOLEAN
    BY DEF Init
  <2>3. /\ displayed \in 0 .. MaxSessions /\ secret_key \in 0 .. MaxSessions
        /\ last_enc_iv \in 0 .. MaxIV /\ last_dec_iv \in Nat
    BY DEF Init
  <2> QED
    BY <2>1, <2>2, <2>3, Zenon DEF SharedTypes
<1>4. ResponderTypes /\ StartedWhenServed
  BY DEF Init, ResponderTypes, StartedWhenServed
<1>5. NoteTypes
  BY DEF Init, NoteTypes
<1>2. QueueTypes
  BY DEF Init, QueueTypes
<1>3. CountedOnce
  BY CountedFinite DEF Init, CountedOnce
<1> QED
  BY <1>1, <1>2, <1>3, <1>4, <1>5, InitKeepsInv DEF SharedInv

LEMMA StepKeepsShared == SharedInv /\ [Next]_vars => SharedInv'
<1> SUFFICES ASSUME SharedInv, [Next]_vars PROVE SharedInv'
  OBVIOUS
<1> USE DEF SharedInv
<1>1. PairInv'
  BY StepKeepsInv
<1>2. CASE Handler
  BY <1>1, <1>2, HandlerShared, HandlerTypes, HandlerStarts
<1>3. ASSUME NEW r \in Requests, Respond(r) PROVE SharedInv'
  BY <1>1, <1>3, RespondTypes, RespondCounts
<1>4. CASE UNCHANGED <<pairVars, ivVars, rpcVars, executed>> /\ QueueTypes' /\ NoteTypes'
  <2>1. SharedTypes' /\ ResponderTypes'
    BY <1>4 DEF pairVars, ivVars, rpcVars, SharedTypes, ResponderTypes
  <2>2. StartedWhenServed'
    BY <1>4 DEF pairVars, ivVars, rpcVars, StartedWhenServed, Requests
  <2>3. Counted' = Counted
    BY <1>4 DEF rpcVars, Counted, Requests
  <2>4. CountedOnce'
    BY <1>4, <2>3 DEF ivVars, CountedOnce
  <2> QED
    BY <1>1, <1>4, <2>1, <2>2, <2>4
<1>5. ASSUME NEW n \in Subs, Subscribes(n) \/ Unsubscribes(n) \/ Notify(n)
      PROVE  UNCHANGED <<pairVars, ivVars, rpcVars, executed>> /\ QueueTypes' /\ NoteTypes'
  <2>1. QueueTypes' /\ NoteTypes'
    BY <1>5, NoteTyped
  <2> QED
    BY <1>5, <2>1 DEF Subscribes, Unsubscribes, Notify, NoteListens, NoteSends
<1>6. CASE UNCHANGED vars
  BY <1>4, <1>6 DEF vars, QueueTypes, NoteTypes
<1> QED
  BY <1>2, <1>3, <1>4, <1>5, <1>6 DEF Next

LEMMA SharedInvariant == Spec => []SharedInv
BY InitShared, StepKeepsShared, PTL DEF Spec

(* Every variable keeps its type: what the goroutines share without a lock *)
(* with the handlers, rpc_queue within its size (:46) and last_dec_iv,     *)
(* which counts no more responses than there are requests (:247), too.     *)
THEOREM TypesCorrect == Spec => []TypeOK
BY SharedInvariant, SharedTyped, PTL

-----------------------------------------------------------------------------
(* What has become of the answer to a request of the session in force.     *)
Sealed(r) == sealed[r][1] = session
Answer(r) ==
  r[1] = session =>
    /\ responder[r] # "none" => state = "verified"
    /\ responder[r] = "encrypted" =>
         Sealed(r) /\ (r \in lapped \/ sealed[r][2] = last_dec_iv)
    /\ responder[r] \in {"packed", "blocked", "ended"} =>
         Sealed(r) /\ (r \in lapped \/ header[r] = sealed[r][2])

AnswerInv == \A r \in Requests : Answer(r)

(* A request has no answer under a session that has not begun.             *)
LEMMA NoneOfLaterSession ==
  ASSUME SharedInv, NEW r \in Requests, r[1] > session PROVE responder[r] = "none"
<1>1. session \in Nat /\ r[1] \in Nat
  BY DEF SharedInv, PairInv, PairTypeOK, Requests
<1> QED
  BY <1>1 DEF SharedInv, StartedWhenServed

(* The handlers take a request, or start a session without answers.        *)
LEMMA HandlerKeepsAnswer ==
  ASSUME SharedInv, AnswerInv, Handler, NEW r \in Requests PROVE Answer(r)'
<1>1. session \in Nat /\ r[1] \in Nat
  BY DEF SharedInv, PairInv, PairTypeOK, Requests
<1>2. CASE session' = session + 1
  <2>1. CASE r[1] = session + 1
    <3>1. responder[r] = "none"
      BY <1>1, <2>1, NoneOfLaterSession
    <3>2. responder'[r] = "none"
      <4>1. CASE Walks
        BY <3>1, <4>1 DEF Walks, rpcVars
      <4>2. CASE BytesAFatal
        BY <3>1, <4>2 DEF BytesAFatal
      <4>3. ASSUME NEW iv \in 0 .. FirstResponseIV, Takes(iv) PROVE FALSE
        BY <1>1, <1>2, <4>3 DEF Takes, pairVars
      <4> QED
        BY <4>1, <4>2, <4>3, HandlerKinds DEF SharedInv
    <3> QED
      BY <3>2 DEF Answer
  <2> QED
    BY <1>1, <1>2, <2>1 DEF Answer
<1>3. CASE Walks /\ session' = session
  <2>1. state # "verified" /\ UNCHANGED rpcVars
    BY <1>1, <1>3 DEF Walks
  <2>2. r[1] = session => responder[r] = "none"
    BY <2>1 DEF AnswerInv, Answer
  <2> QED
    BY <1>3, <2>1, <2>2 DEF Answer, rpcVars
<1>4. ASSUME NEW iv \in 0 .. FirstResponseIV, Takes(iv) PROVE Answer(r)'
  <2>1. UNCHANGED <<state, session, last_dec_iv, sealed, header, lapped>> /\ state = "verified"
    BY <1>4 DEF Takes, pairVars
  <2>2. responder'[r] \in {responder[r], "called"}
    BY <1>4 DEF Takes, SharedInv, ResponderTypes
  <2> QED
    BY <2>1, <2>2 DEF AnswerInv, Answer, Sealed
<1> QED
  BY <1>2, <1>3, <1>4, HandlerKinds DEF SharedInv, Walks, BytesAFatal

(* A goroutine seals with the key of the session and the count, packs with *)
(* the count, and laps who has sealed when it counts.                      *)
LEMMA ResponseKeepsAnswer ==
  ASSUME SharedInv, AnswerInv, NEW s \in Requests, Respond(s), NEW r \in Requests
  PROVE  Answer(r)'
<1>1. UNCHANGED <<state, session, secret_key>>
  BY ResponseStep DEF pairVars
<1>2. Answer(r)
  BY DEF AnswerInv
<1>3. CASE ResponseCounts(s)
  <2>1. /\ responder'[r] = IF r = s THEN "counted" ELSE responder[r]
        /\ responder[s] = "called" /\ UNCHANGED <<sealed, header>>
        /\ lapped' = lapped \cup {q \in Requests : responder[q] = "encrypted"}
    BY <1>3 DEF ResponseCounts, ResponseMoves, SharedInv, ResponderTypes
  <2> QED
    BY <1>1, <1>2, <2>1 DEF Answer, Sealed
<1>4. CASE ResponseEncrypts(s)
  <2>1. /\ responder[s] = "counted" /\ UNCHANGED <<last_dec_iv, header, lapped>>
        /\ r # s => responder'[r] = responder[r] /\ sealed'[r] = sealed[r]
    BY <1>4 DEF ResponseEncrypts, ResponseSealed, ResponseMoves, SharedInv, ResponderTypes
  <2>2. CASE r # s
    BY <1>1, <1>2, <2>1, <2>2 DEF Answer, Sealed
  <2>3. CASE r = s /\ r[1] = session
    <3>1. state = "verified" /\ secret_key = session /\ session # 0
      BY <1>2, <2>1, <2>3 DEF Answer, SharedInv, PairInv, PairTypeOK, KeyOfSession
    <3>2. responder'[r] = "encrypted" /\ sealed'[r] = <<session, last_dec_iv>>
      BY <1>4, <2>3, <3>1 DEF ResponseEncrypts, ResponseSealed, ResponseMoves, SharedInv,
         ResponderTypes
    <3> QED
      BY <1>1, <2>1, <3>1, <3>2 DEF Answer, Sealed
  <2> QED
    BY <1>1, <2>2, <2>3 DEF Answer
<1>5. CASE ResponsePacks(s)
  <2>1. /\ responder[s] = "encrypted" /\ UNCHANGED <<last_dec_iv, sealed, lapped>>
        /\ responder'[r] = IF r = s THEN "packed" ELSE responder[r]
        /\ header'[r] = IF r = s THEN last_dec_iv ELSE header[r]
    BY <1>5 DEF ResponsePacks, ResponseMoves, SharedInv, ResponderTypes
  <2> QED
    BY <1>1, <1>2, <2>1 DEF Answer, Sealed
<1>6. CASE ResponseSent(s) \/ ResponseBlocks(s)
  <2>1. /\ responder[s] \in {"packed", "blocked"}
        /\ UNCHANGED <<last_dec_iv, sealed, header, lapped>>
        /\ r # s => responder'[r] = responder[r]
        /\ r = s => responder'[r] \in {"blocked", "ended"}
    BY <1>6 DEF ResponseSent, ResponseBlocks, Enqueues, ResponseMoves, SharedInv, ResponderTypes
  <2> QED
    BY <1>1, <1>2, <2>1 DEF Answer, Sealed
<1> QED
  BY <1>3, <1>4, <1>5, <1>6 DEF Respond

LEMMA StepKeepsAnswer == SharedInv /\ AnswerInv /\ [Next]_vars => AnswerInv'
<1> SUFFICES ASSUME SharedInv, AnswerInv, [Next]_vars, NEW r \in Requests PROVE Answer(r)'
  BY DEF AnswerInv, Requests
<1>1. CASE Handler
  BY <1>1, HandlerKeepsAnswer
<1>2. ASSUME NEW s \in Requests, Respond(s) PROVE Answer(r)'
  BY <1>2, ResponseKeepsAnswer
<1>3. CASE UNCHANGED <<pairVars, ivVars, rpcVars>>
  BY <1>3 DEF AnswerInv, Answer, Sealed, pairVars, ivVars, rpcVars
<1>4. ASSUME NEW n \in Subs, Subscribes(n) \/ Unsubscribes(n) \/ Notify(n)
      PROVE  UNCHANGED <<pairVars, ivVars, rpcVars>>
  BY <1>4 DEF Subscribes, Unsubscribes, Notify, NoteListens, NoteSends
<1> QED
  BY <1>1, <1>2, <1>3, <1>4 DEF Next, vars

(* Whoever starts over and whatever goroutines are under way, the answer   *)
(* to a request of the session in force is sealed with its key, never      *)
(* given up, and carries the IV it was sealed with, unless another answer  *)
(* was counted before it was packed (:247-258).                            *)
THEOREM AnswersAreReadable == Spec => []AnswersReadable
<1>1. Init => AnswerInv
  BY DEF Init, AnswerInv, Answer
<1>2. AnswerInv => AnswersReadable
  BY DEF AnswerInv, Answer, Sealed, AnswersReadable
<1> QED
  BY <1>1, <1>2, StepKeepsAnswer, SharedInvariant, PTL DEF Spec

(* No request gets a second goroutine, and so none gets two responses:     *)
(* once one was called the router is not called for it again (:225-247),   *)
(* and no goroutine starts over.                                           *)
THEOREM RespondedOnce ==
  Spec => [][\A r \in Requests :
               responder[r] \notin {"none", "called"} => responder'[r] \notin {"none", "called"}]_vars
<1>1. SharedInv /\ [Next]_vars =>
        [\A r \in Requests :
           responder[r] \notin {"none", "called"} => responder'[r] \notin {"none", "called"}]_vars
  <2> SUFFICES ASSUME SharedInv, [Next]_vars, NEW r \in Requests,
                      responder[r] \notin {"none", "called"}
               PROVE  responder'[r] \notin {"none", "called"}
    OBVIOUS
  <2>1. CASE UNCHANGED responder
    BY <2>1
  <2>2. CASE BytesAFatal
    BY <2>2 DEF BytesAFatal
  <2>3. ASSUME NEW iv \in 0 .. FirstResponseIV, Takes(iv)
        PROVE  responder'[r] \notin {"none", "called"}
    <3>1. responder[<<session, iv>>] = "none"
      BY <2>3, TakenIsNew DEF SharedInv
    <3>2. responder'[r] = responder[r]
      BY <2>3, <3>1 DEF Takes, SharedInv, ResponderTypes
    <3> QED
      BY <3>2
  <2>4. CASE Handler
    BY <2>1, <2>2, <2>3, <2>4, HandlerKinds DEF SharedInv, Walks, rpcVars
  <2>5. ASSUME NEW s \in Requests, Respond(s) PROVE responder'[r] \notin {"none", "called"}
    <3>1. responder'[r] = responder[r] \/ responder'[r] \in Beyond
      BY <2>5, ResponseStep DEF SharedInv, ResponderTypes
    <3> QED
      BY <3>1
  <2>6. ASSUME NEW n \in Subs, Subscribes(n) \/ Unsubscribes(n) \/ Notify(n)
        PROVE  UNCHANGED responder
    BY <2>6 DEF Subscribes, Unsubscribes, Notify, NoteListens, NoteSends, rpcVars
  <2> QED
    BY <2>1, <2>4, <2>5, <2>6 DEF Next, vars, rpcVars
<1> QED
  BY <1>1, SharedInvariant, PTL DEF Spec
=============================================================================
