----------------------- MODULE PairingSupervisorProofs -----------------------
(***************************************************************************)
(* Proofs about PairingSupervisor, for all delays and any number of events.*)
(***************************************************************************)
EXTENDS PairingSupervisor, SequenceTheorems, TLAPS

States == {"disconnected", "connected", "invalid_key"}

(* is_serving_pairer is set by the handler, which is then on its way to    *)
(* start the goroutine that serves; from there on the goroutine, or the    *)
(* server, is what will clear it.                                          *)
FlagHasOwner ==
  is_serving_pairer =>
    \/ handler \in {"control", "icon", "message", "launch"}
    \/ launching
    \/ gatt # "idle"

-----------------------------------------------------------------------------
(* Delays that have not run out are within their bound a period later.     *)
LEMMA PeriodShortens ==
  ASSUME NEW D \in Nat, NEW S, S \subseteq 0 .. D, 0 \notin S
  PROVE  OnePeriod(S) \subseteq 0 .. D
  BY DEF OnePeriod

(* A step of the handler, and a step that changes flags and services only. *)
FlagTypes ==
  /\ is_serving_pairer \in BOOLEAN /\ badWifiMessage \in BOOLEAN
  /\ launching \in BOOLEAN /\ ap \in BOOLEAN /\ gatt \in {"idle", "serving", "closed"}

LEMMA HandlerTypes ==
  ASSUME TypeOK, FlagTypes',
         NEW h \in {"idle", "check", "control", "icon", "message", "launch", "stop", "start"},
         HandlerGoesTo(h)
  PROVE  TypeOK'
<1>1. 0 \in 0 .. RpcDelay
  BY PairingAssumption
<1>2. rpc' \in [{"loop", "handler"} -> 0 .. RpcDelay]
  BY <1>1 DEF HandlerGoesTo, TypeOK
<1>3. handler' = h /\ loop' \in {"startup", "receive", "control", "test", "clear"}
  BY DEF HandlerGoesTo, TypeOK
<1>4. UNCHANGED <<closes, stops, wifi, configured, since, Always_Active, clients, states,
                  wireless_stale, staleLeft, overtaken>>
  BY DEF HandlerGoesTo, delayed, network, config
<1> QED
  BY <1>2, <1>3, <1>4 DEF TypeOK, FlagTypes

LEMMA ServiceTypes ==
  ASSUME TypeOK, FlagTypes', UNCHANGED <<loopVars, handling, delayed, network>>
  PROVE  TypeOK'
  BY DEF TypeOK, FlagTypes, loopVars, handling, delayed, network, config

(* Receiving and emitting keep the channel a sequence of states.           *)
LEMMA ReceivesTypes ==
  ASSUME TypeOK, NEW s \in States, Receives(s)
  PROVE  states' \in Seq(States) /\ Len(states') <= MaxEvents
  BY PairingAssumption DEF Receives, TypeOK, States

LEMMA EmitsTypes ==
  ASSUME TypeOK, NEW s \in States, Emits(s)
  PROVE  states' \in Seq(States) /\ Len(states') <= MaxEvents
  BY PairingAssumption DEF Emits, TypeOK, States

-----------------------------------------------------------------------------
LEMMA InitTypes == Init => TypeOK
<1> SUFFICES ASSUME Init PROVE TypeOK
  OBVIOUS
<1>1. states \in Seq(States) /\ Len(states) <= MaxEvents
  BY PairingAssumption DEF Init, States
<1>2. rpc \in [{"loop", "handler"} -> 0 .. RpcDelay]
  BY PairingAssumption DEF Init
<1>3. /\ staleLeft \in 0 .. StaleDelay /\ since \in 0 .. Settle
      /\ closes \subseteq 0 .. CloseDelay /\ stops \subseteq 0 .. StopDelay
  BY PairingAssumption DEF Init
<1> QED
  BY <1>1, <1>2, <1>3 DEF Init, TypeOK, States

LEMMA NextTypes == TypeOK /\ [Next]_vars => TypeOK'
<1> SUFFICES ASSUME TypeOK, [Next]_vars PROVE TypeOK'
  OBVIOUS
<1> USE DEF handling, flags, delayed, services, network, config, loopVars
<1>1. CASE OnConnected
  <2>1. /\ states' \in Seq(States) /\ Len(states') <= MaxEvents
        /\ UNCHANGED <<handling, delayed, services, network, is_serving_pairer>>
    BY <1>1, ReceivesTypes DEF OnConnected, Connected, Receives, States
  <2>2. staleLeft' \in 0 .. StaleDelay
    BY <1>1, PairingAssumption DEF OnConnected, Connected
  <2>3. /\ wireless_stale' \in {"nil", "running", "fired"}
        /\ loop' \in {"control", "test"} /\ badWifiMessage' \in BOOLEAN
        /\ overtaken' \in {"never", "once", "last"}
    BY <1>1 DEF OnConnected, Connected
  <2> QED
    BY <2>1, <2>2, <2>3 DEF TypeOK, States
<1>2. CASE OnBadState
  <2>1. PICK s \in States : Receives(s)
    BY <1>2 DEF OnBadState, States
  <2>2. /\ states' \in Seq(States) /\ Len(states') <= MaxEvents
        /\ UNCHANGED <<handling, delayed, services, network, is_serving_pairer>>
    BY <2>1, ReceivesTypes DEF Receives
  <2>3. staleLeft' \in 0 .. StaleDelay /\ wireless_stale' \in {"nil", "running", "fired"}
    BY <1>2, PairingAssumption DEF OnBadState, TypeOK
  <2>4. UNCHANGED <<badWifiMessage, loop, overtaken>>
    BY <1>2 DEF OnBadState
  <2> QED
    BY <2>2, <2>3, <2>4 DEF TypeOK, States
<1>3. CASE ControlEnabled \/ TestsServing
  <2>1. rpc' \in [{"loop", "handler"} -> 0 .. RpcDelay]
    BY <1>3, PairingAssumption DEF ControlEnabled, TestsServing, TypeOK
  <2>2. loop' \in {"startup", "receive", "control", "test", "clear"}
    BY <1>3 DEF ControlEnabled, TestsServing
  <2>3. UNCHANGED <<flags, delayed, services, network, states, wireless_stale, staleLeft,
                    handler, overtaken>>
    BY <1>3 DEF ControlEnabled, TestsServing
  <2> QED
    BY <2>1, <2>2, <2>3 DEF TypeOK
<1>3a. CASE ClosesPairing
  <2>1. /\ closes' = closes \cup {CloseDelay}
        /\ stops' = stops \cup {} \/ stops' = stops \cup {StopDelay}
    BY <1>3a DEF ClosesPairing, ClosesAfter, StopIfWanted
  <2>2. CloseDelay \in 0 .. CloseDelay /\ StopDelay \in 0 .. StopDelay
    BY PairingAssumption
  <2>3. closes' \subseteq 0 .. CloseDelay /\ stops' \subseteq 0 .. StopDelay
    BY <2>1, <2>2 DEF TypeOK
  <2>4. /\ loop' = "receive" /\ is_serving_pairer' = FALSE
        /\ UNCHANGED <<handling, services, network, states, wireless_stale, staleLeft,
                       badWifiMessage, overtaken>>
    BY <1>3a DEF ClosesPairing, ClosesAfter
  <2>5. /\ loop' \in {"startup", "receive", "control", "test", "clear"}
        /\ is_serving_pairer' \in BOOLEAN
    BY <2>4
  <2> QED
    BY <2>3, <2>4, <2>5 DEF TypeOK
<1>4. CASE StaleFires
  BY <1>4 DEF StaleFires, TypeOK
<1>5. CASE HandlerChecks
  <2>1. PICK h \in {"idle", "launch", "control"} : HandlerGoesTo(h)
    BY <1>5 DEF HandlerChecks
  <2>2. FlagTypes'
    BY <1>5 DEF HandlerChecks, FlagTypes, TypeOK
  <2> QED
    BY <2>1, <2>2, HandlerTypes
<1>6. CASE HandlerDisplays
  <2>1. PICK h \in {"icon", "message"} : HandlerGoesTo(h)
    BY <1>6 DEF HandlerDisplays
  <2>2. FlagTypes'
    BY <1>6 DEF HandlerDisplays, FlagTypes, TypeOK
  <2> QED
    BY <2>1, <2>2, HandlerTypes
<1>7. CASE HandlerSetsMessage
  <2>1. PICK h \in {"launch"} : HandlerGoesTo(h)
    BY <1>7 DEF HandlerSetsMessage
  <2>2. FlagTypes'
    BY <1>7 DEF HandlerSetsMessage, FlagTypes, TypeOK
  <2> QED
    BY <2>1, <2>2, HandlerTypes
<1>8. CASE HandlerLaunches
  <2>1. PICK h \in {"idle", "stop"} : HandlerGoesTo(h)
    BY <1>8 DEF HandlerLaunches
  <2>2. FlagTypes'
    BY <1>8 DEF HandlerLaunches, FlagTypes, TypeOK
  <2> QED
    BY <2>1, <2>2, HandlerTypes
<1>9. CASE HandlerStartsAP
  <2>1. PICK h \in {"idle", "start"} : HandlerGoesTo(h)
    BY <1>9 DEF HandlerStartsAP
  <2>2. FlagTypes'
    BY <1>9 DEF HandlerStartsAP, FlagTypes, TypeOK
  <2> QED
    BY <2>1, <2>2, HandlerTypes
<1>10. CASE Advertises
  <2>1. UNCHANGED <<loopVars, handling, delayed, network>>
    BY <1>10 DEF Advertises
  <2>2. FlagTypes'
    BY <1>10 DEF Advertises, FlagTypes, TypeOK
  <2> QED
    BY <2>1, <2>2, ServiceTypes
<1>11. CASE AdvertisingFails
  <2>1. UNCHANGED <<loopVars, handling, delayed, network>>
    BY <1>11 DEF AdvertisingFails
  <2>2. FlagTypes'
    BY <1>11 DEF AdvertisingFails, FlagTypes, TypeOK
  <2> QED
    BY <2>1, <2>2, ServiceTypes
<1>12. CASE ServingEnds
  <2>1. UNCHANGED <<loopVars, handling, delayed, network>>
    BY <1>12 DEF ServingEnds
  <2>2. FlagTypes'
    BY <1>12 DEF ServingEnds, FlagTypes, TypeOK
  <2> QED
    BY <2>1, <2>2, ServiceTypes
<1>13. CASE DelayedClose
  BY <1>13 DEF DelayedClose, Close, TypeOK
<1>14. CASE DelayedStop
  <2>1. stops' \subseteq 0 .. StopDelay /\ ap' \in BOOLEAN
    BY <1>14 DEF DelayedStop, TypeOK
  <2>2. UNCHANGED <<loopVars, handling, flags, network, launching, gatt, closes>>
    BY <1>14 DEF DelayedStop
  <2> QED
    BY <2>1, <2>2 DEF TypeOK
<1>15. CASE ClientClosesServer
  BY <1>15 DEF ClientClosesServer, Close, TypeOK
<1>16. CASE LinkUp \/ LinkDown \/ KeyRefused
  <2>1. PICK s \in States : Emits(s)
    BY <1>16 DEF LinkUp, LinkDown, KeyRefused, States
  <2>2. states' \in Seq(States) /\ Len(states') <= MaxEvents
    BY <2>1, EmitsTypes
  <2>3. since' \in 0 .. Settle
    BY <1>16, PairingAssumption DEF LinkUp, LinkDown, KeyRefused, TypeOK
  <2>4. UNCHANGED <<handling, flags, delayed, services, loop, wireless_stale, staleLeft, overtaken>>
    BY <2>1 DEF Emits
  <2>5. wifi' \in {"up", "down"} /\ UNCHANGED <<configured, config>>
    BY <1>16 DEF LinkUp, LinkDown, KeyRefused, TypeOK
  <2> QED
    BY <2>2, <2>3, <2>4, <2>5 DEF TypeOK, States
<1>17. CASE NetworksChange
  BY <1>17 DEF NetworksChange, TypeOK
<1>18. CASE PeriodEnds
  <2>1. closes' \subseteq 0 .. CloseDelay /\ stops' \subseteq 0 .. StopDelay
    BY <1>18, PeriodShortens, PairingAssumption DEF PeriodEnds, GoroutineRuns, TypeOK
  <2>2. staleLeft' \in 0 .. StaleDelay
    BY <1>18, PairingAssumption DEF PeriodEnds, TypeOK
  <2>3. since' \in 0 .. Settle
    BY <1>18, PairingAssumption DEF PeriodEnds, TypeOK
  <2>4. rpc["loop"] \in 0 .. RpcDelay /\ rpc["handler"] \in 0 .. RpcDelay
    BY DEF TypeOK
  <2>5. loop = "control" => rpc["loop"] # RpcDelay
    BY <1>18 DEF PeriodEnds, GoroutineRuns
  <2>6. handler \in {"control", "icon"} => rpc["handler"] # RpcDelay
    BY <1>18 DEF PeriodEnds, GoroutineRuns
  <2>7. (IF loop = "control" THEN rpc["loop"] + 1 ELSE 0) \in 0 .. RpcDelay
    BY <2>4, <2>5, PairingAssumption
  <2>8. (IF handler \in {"control", "icon"} THEN rpc["handler"] + 1 ELSE 0) \in 0 .. RpcDelay
    BY <2>4, <2>6, PairingAssumption
  <2>9. rpc' \in [{"loop", "handler"} -> 0 .. RpcDelay]
    BY <1>18, <2>7, <2>8 DEF PeriodEnds
  <2> QED
    BY <1>18, <2>1, <2>2, <2>3, <2>9 DEF PeriodEnds, TypeOK
<1>19. CASE UNCHANGED vars
  BY <1>19 DEF vars, TypeOK
<1> QED
  BY <1>1, <1>2, <1>3, <1>4, <1>5, <1>6, <1>7, <1>8, <1>9, <1>10, <1>11, <1>12, <1>13, <1>14,
     <1>15, <1>16, <1>17, <1>18, <1>19, <1>3a DEF Next

(* For all delays, any number of waiting events and both configurations,   *)
(* every variable of the main loop stays in its range; above all no RPC    *)
(* and no delayed call outlives its time, on which the timing rests.       *)
THEOREM TypesCorrect == Spec => []TypeOK
  BY InitTypes, NextTypes, PTL DEF Spec

-----------------------------------------------------------------------------
LEMMA NextOwner == FlagHasOwner /\ [Next]_vars => FlagHasOwner'
<1> SUFFICES ASSUME FlagHasOwner, [Next]_vars PROVE FlagHasOwner'
  OBVIOUS
<1> USE DEF FlagHasOwner, handling, flags, delayed, services, network, config, loopVars
<1>1. CASE OnConnected
  BY <1>1 DEF OnConnected, Connected, Receives
<1>2. CASE OnBadState
  <2>1. UNCHANGED <<handler, is_serving_pairer, launching, gatt>>
    BY <1>2 DEF OnBadState, Receives
  <2> QED
    BY <2>1
<1>3. CASE ControlEnabled \/ TestsServing \/ ClosesPairing \/ StaleFires
  BY <1>3 DEF ControlEnabled, TestsServing, ClosesPairing, ClosesAfter, StaleFires
<1>4. CASE HandlerChecks
  BY <1>4 DEF HandlerChecks, HandlerGoesTo
<1>5. CASE HandlerDisplays \/ HandlerSetsMessage
  BY <1>5 DEF HandlerDisplays, HandlerSetsMessage, HandlerGoesTo
<1>6. CASE HandlerLaunches \/ HandlerStartsAP
  BY <1>6 DEF HandlerLaunches, HandlerStartsAP, HandlerGoesTo
<1>7. CASE Advertises \/ AdvertisingFails \/ ServingEnds
  BY <1>7 DEF Advertises, AdvertisingFails, ServingEnds
<1>8. CASE DelayedClose \/ DelayedStop \/ ClientClosesServer
  BY <1>8 DEF DelayedClose, DelayedStop, ClientClosesServer, Close
<1>9. CASE LinkUp \/ LinkDown \/ KeyRefused
  BY <1>9 DEF LinkUp, LinkDown, KeyRefused, Emits
<1>10. CASE NetworksChange \/ PeriodEnds
  BY <1>10 DEF NetworksChange, PeriodEnds
<1>11. CASE UNCHANGED vars
  BY <1>11 DEF vars
<1> QED
  BY <1>1, <1>2, <1>3, <1>4, <1>5, <1>6, <1>7, <1>8, <1>9, <1>10, <1>11 DEF Next

(* Whatever clients, links and delays do, when no goroutine can run and no *)
(* handler is on its way, a set is_serving_pairer means a server that      *)
(* serves: the flag can not lock the BLE service out for good.             *)
THEOREM FlagNeverStuck == Spec => []FlagNotStuck
<1>1. Init => FlagHasOwner
  BY DEF Init, FlagHasOwner
<1>2. TypeOK /\ FlagHasOwner => FlagNotStuck
  BY DEF TypeOK, FlagHasOwner, FlagNotStuck, GoroutineRuns
<1> QED
  BY <1>1, <1>2, NextOwner, TypesCorrect, PTL DEF Spec
=============================================================================
