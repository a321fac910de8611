------------------------- MODULE PairingSupervisor -------------------------
(***************************************************************************)
(* The main loop (main.go): it watches the state of the wireless network   *)
(* and, when the network has been bad for too long, opens the two ways to  *)
(* pair: the BLE service and the ap0 access point.  Once connected it      *)
(* closes both again, after a delay.  The goroutines share                 *)
(* is_serving_pairer, badWifiMessage and the GATT server without a lock.   *)
(*                                                                         *)
(* Time is counted in periods of five seconds.  A period ends only when no *)
(* goroutine can run: all wait for an event, a timer or a display RPC.     *)
(***************************************************************************)
EXTENDS Naturals, Sequences

CONSTANTS
  StaleDelay,     \* WirelessStaleTimeout
  CloseDelay,     \* from Connected to the closing of the BLE server
  StopDelay,      \* from Connected to the stopping of the access point
  RpcDelay,       \* the longest a display RPC may block
  Settle,         \* bound: how long `since' counts
  MaxEvents       \* bound: events waiting in the channel `states'

ASSUME PairingAssumption ==
  /\ StaleDelay \in Nat \ {0} /\ CloseDelay \in Nat \ {0} /\ StopDelay \in Nat \ {0}
  /\ RpcDelay \in Nat /\ 2 * RpcDelay <= StaleDelay
  /\ CloseDelay < StaleDelay /\ StopDelay < StaleDelay
  /\ Settle \in Nat /\ Settle >= 5 * RpcDelay + StaleDelay
  /\ MaxEvents \in Nat \ {0}

VARIABLES
  Always_Active,   \* Wireless_Host.Always_Active of the configuration
  clients,         \* clients may close the BLE server (RPC, HTTP, Disconnect), advertising may fail
  states,          \* the channel of wifi states the loop reads
  loop,            \* the main goroutine: "startup", "receive", or in Connected at "control"
                   \* (EnableControl), "test" or "clear" (of is_serving_pairer)
  wireless_stale,  \* the timer: "nil", "running", or "fired"
  staleLeft,       \* the periods left to a running timer
  handler,         \* where handleBadWireless is; "idle" when nobody runs it
  rpc,             \* periods each of the two goroutines has spent in its RPC
  is_serving_pairer,
  badWifiMessage,
  launching,       \* a goroutine is about to call AdvertiseAndServe
  gatt,            \* the BLE server: "idle", "serving", "closed" (the call must still return)
  closes,          \* delayed calls of srv.Close: the periods left to each
  stops,           \* delayed calls of StopHostAP: the periods left to each
  ap,              \* hostapd runs on ap0
  wifi,            \* the link of wlan0, as wpa_supplicant sees it
  configured,      \* a network is enabled in wpa_supplicant
  since,           \* history: periods since the link last changed, up to Settle
  overtaken        \* history: whether Connected was received while handleBadWireless was
                   \* running: "never", "once" or, when it was the last one, "last"

(* What the main loop alone writes; where the handler and the RPCs are;    *)
(* the flags; the delayed calls; the services; what is outside the program.*)
loopVars == <<states, loop, wireless_stale, staleLeft, overtaken>>
handling == <<handler, rpc>>
flags    == <<is_serving_pairer, badWifiMessage>>
delayed  == <<closes, stops>>
services == <<launching, gatt, ap>>
config   == <<Always_Active, clients>>
network  == <<wifi, configured, since, config>>

vars == <<loopVars, handling, flags, delayed, services, network>>

(* Each variable stays in its range; the delayed calls never exceed the    *)
(* delay they were started with.                                           *)
TypeOK ==
  /\ states \in Seq({"disconnected", "connected", "invalid_key"}) /\ Len(states) <= MaxEvents
  /\ loop \in {"startup", "receive", "control", "test", "clear"}
  /\ wireless_stale \in {"nil", "running", "fired"} /\ staleLeft \in 0 .. StaleDelay
  /\ handler \in {"idle", "check", "control", "icon", "message", "launch", "stop", "start"}
  /\ rpc \in [{"loop", "handler"} -> 0 .. RpcDelay]
  /\ is_serving_pairer \in BOOLEAN /\ badWifiMessage \in BOOLEAN /\ launching \in BOOLEAN
  /\ gatt \in {"idle", "serving", "closed"}
  /\ closes \subseteq 0 .. CloseDelay /\ stops \subseteq 0 .. StopDelay
  /\ ap \in BOOLEAN
  /\ wifi \in {"up", "down"} /\ configured \in BOOLEAN /\ since \in 0 .. Settle
  /\ overtaken \in {"never", "once", "last"} /\ Always_Active \in BOOLEAN /\ clients \in BOOLEAN

(* When wifi is not configured, main runs handleBadWireless itself before  *)
(* it enters the loop.                                                     *)
Init ==
  /\ Always_Active \in BOOLEAN /\ clients \in BOOLEAN /\ configured \in BOOLEAN
  /\ states = <<"disconnected">>
  /\ IF configured THEN loop = "receive" /\ handler = "idle"
                   ELSE loop = "startup" /\ handler = "check"
  /\ wireless_stale = "nil" /\ staleLeft = 0
  /\ rpc = [g \in {"loop", "handler"} |-> 0]
  /\ is_serving_pairer = FALSE /\ badWifiMessage = FALSE /\ launching = FALSE
  /\ gatt = "idle" /\ closes = {} /\ stops = {}
  /\ ap = Always_Active
  /\ wifi = "down" /\ since = 0
  /\ overtaken = "never"

-----------------------------------------------------------------------------
(* The loop receives a state.                                              *)
Receives(s) ==
  /\ loop = "receive" /\ states # <<>> /\ Head(states) = s
  /\ states' = Tail(states)
  /\ UNCHANGED <<handling, delayed, services, network, is_serving_pairer>>

(* Connected: forget the timer, then enable control if the handler has     *)
(* left a message; only after that look at is_serving_pairer.              *)
Connected(timer, message) ==
  /\ Receives("connected")
  /\ wireless_stale' = timer /\ staleLeft' = 0
  /\ loop' = IF badWifiMessage /\ ~message THEN "control" ELSE "test"
  /\ badWifiMessage' = message
  /\ overtaken' = IF handler # "idle" THEN "last"
                  ELSE IF overtaken = "never" THEN "never" ELSE "once"

OnConnected_KeepsTimer == Connected(IF wireless_stale = "nil" THEN "nil" ELSE "fired", FALSE)
OnConnected_MessageIfServing == Connected("nil", badWifiMessage /\ ~is_serving_pairer)
OnConnected == Connected("nil", FALSE)

(* EnableControl returns, or times out.                                    *)
ControlEnabled ==
  /\ loop = "control"
  /\ loop' = "test"
  /\ rpc' = [rpc EXCEPT !["loop"] = 0]
  /\ UNCHANGED <<flags, delayed, services, network, states, wireless_stale, staleLeft,
                 handler, overtaken>>

(* The second half of Connected: if the flag is set, clear it, and start   *)
(* the goroutines that will close the BLE server and stop the access point.*)
TestsServing ==
  /\ loop = "test"
  /\ loop' = IF is_serving_pairer THEN "clear" ELSE "receive"
  /\ UNCHANGED <<handling, flags, delayed, services, network, states, wireless_stale, staleLeft,
                 overtaken>>

ClosesAfter(close, stop) ==
  /\ loop = "clear"
  /\ loop' = "receive"
  /\ is_serving_pairer' = FALSE
  /\ closes' = closes \cup close /\ stops' = stops \cup stop
  /\ UNCHANGED <<handling, services, network, states, wireless_stale, staleLeft, badWifiMessage,
                 overtaken>>

StopIfWanted == IF Always_Active THEN {} ELSE {StopDelay}

ClosesPairing_StopsAnyway == ClosesAfter({CloseDelay}, {StopDelay})
ClosesPairing_SleepsTwice == ClosesAfter({CloseDelay + StopDelay}, StopIfWanted)
ClosesPairing_NoClose == ClosesAfter({}, StopIfWanted)
ClosesPairing == ClosesAfter({CloseDelay}, StopIfWanted)

(* Disconnected and InvalidKey: start the timer unless there is one, even  *)
(* one that has fired.                                                     *)
OnBadState ==
  /\ Receives("disconnected") \/ Receives("invalid_key")
  /\ IF wireless_stale = "nil"
       THEN wireless_stale' = "running" /\ staleLeft' = StaleDelay
       ELSE UNCHANGED <<wireless_stale, staleLeft>>
  /\ UNCHANGED <<badWifiMessage, loop, overtaken>>

-----------------------------------------------------------------------------
(* handleBadWireless, in main's goroutine at startup or in the timer's.    *)
StaleFires ==
  /\ wireless_stale = "running" /\ staleLeft = 0 /\ handler = "idle"
  /\ wireless_stale' = "fired" /\ handler' = "check"
  /\ UNCHANGED <<flags, delayed, services, network, states, loop, staleLeft, rpc, overtaken>>

(* Returning from the handler lets main go on to its loop.                 *)
HandlerGoesTo(h) ==
  /\ handler' = h
  /\ loop' = IF h = "idle" /\ loop = "startup" THEN "receive" ELSE loop
  /\ rpc' = [rpc EXCEPT !["handler"] = 0]
  /\ UNCHANGED <<delayed, network, states, wireless_stale, staleLeft, overtaken>>

HandlerChecks ==
  /\ handler = "check"
  /\ is_serving_pairer' = TRUE
  /\ HandlerGoesTo(IF is_serving_pairer THEN "idle"
                   ELSE IF Always_Active THEN "launch" ELSE "control")
  /\ UNCHANGED <<services, badWifiMessage>>

(* DisableControl and DisplayIcon return, or time out.                     *)
HandlerDisplays ==
  /\ \/ handler = "control" /\ HandlerGoesTo("icon")
     \/ handler = "icon" /\ HandlerGoesTo("message")
  /\ UNCHANGED <<flags, services>>

HandlerSetsMessage ==
  /\ handler = "message"
  /\ badWifiMessage' = (badWifiMessage \/ configured)
  /\ HandlerGoesTo("launch")
  /\ UNCHANGED <<services, is_serving_pairer>>

HandlerLaunches ==
  /\ handler = "launch"
  /\ launching' = TRUE
  /\ HandlerGoesTo(IF Always_Active THEN "idle" ELSE "stop")
  /\ UNCHANGED <<flags, gatt, ap>>

(* StartHostAP stops the job and starts it again.                          *)
HandlerStartsAP ==
  /\ \/ handler = "stop" /\ HandlerGoesTo("start") /\ ap' = FALSE
     \/ handler = "start" /\ HandlerGoesTo("idle") /\ ap' = TRUE
  /\ UNCHANGED <<flags, launching, gatt>>

-----------------------------------------------------------------------------
(* The goroutine around AdvertiseAndServe.  The call fails when the server *)
(* serves already; when it returns, the flag is cleared.                   *)
Advertises ==
  /\ launching /\ gatt = "idle"
  /\ launching' = FALSE /\ gatt' = "serving"
  /\ UNCHANGED <<loopVars, handling, flags, delayed, network, ap>>

AdvertisingFails ==
  /\ launching /\ (gatt # "idle" \/ clients)
  /\ launching' = FALSE /\ is_serving_pairer' = FALSE
  /\ UNCHANGED <<loopVars, handling, delayed, network, badWifiMessage, gatt, ap>>

ServingEnds_FlagKept ==
  /\ gatt = "closed"
  /\ gatt' = "idle"
  /\ UNCHANGED <<loopVars, handling, flags, delayed, network, launching, ap>>

ServingEnds ==
  /\ gatt = "closed"
  /\ gatt' = "idle" /\ is_serving_pairer' = FALSE
  /\ UNCHANGED <<loopVars, handling, delayed, network, badWifiMessage, launching, ap>>

Close == gatt' = IF gatt = "serving" THEN "closed" ELSE gatt

DelayedClose ==
  /\ 0 \in closes
  /\ closes' = closes \ {0}
  /\ Close
  /\ UNCHANGED <<loopVars, handling, flags, network, launching, stops, ap>>

DelayedStop ==
  /\ 0 \in stops
  /\ stops' = stops \ {0}
  /\ ap' = FALSE
  /\ UNCHANGED <<loopVars, handling, flags, network, launching, gatt, closes>>

ClientClosesServer ==
  /\ clients /\ gatt = "serving"
  /\ Close
  /\ UNCHANGED <<loopVars, handling, flags, delayed, network, launching, ap>>

-----------------------------------------------------------------------------
(* wpa_supplicant and the clock.                                           *)
Emits(s) ==
  /\ Len(states) < MaxEvents
  /\ states' = Append(states, s)
  /\ UNCHANGED <<handling, flags, delayed, services, loop, wireless_stale, staleLeft, overtaken>>

LinkUp ==
  /\ wifi = "down" /\ configured
  /\ Emits("connected")
  /\ wifi' = "up" /\ since' = 0
  /\ UNCHANGED <<configured, config>>

LinkDown ==
  /\ wifi = "up"
  /\ Emits("disconnected")
  /\ wifi' = "down" /\ since' = 0
  /\ UNCHANGED <<configured, config>>

KeyRefused ==
  /\ wifi = "down" /\ configured
  /\ Emits("invalid_key")
  /\ UNCHANGED network

(* Clients enable a network (SetCredentials) or disable all of them.       *)
NetworksChange ==
  /\ wifi = "down"
  /\ configured' = ~configured
  /\ UNCHANGED <<loopVars, handling, flags, delayed, services, wifi, since, config>>

GoroutineRuns ==
  \/ loop = "receive" /\ states # <<>>
  \/ loop \in {"test", "clear"}
  \/ loop = "control" /\ rpc["loop"] = RpcDelay
  \/ handler \in {"check", "message", "launch", "stop", "start"}
  \/ handler \in {"control", "icon"} /\ rpc["handler"] = RpcDelay
  \/ launching \/ gatt = "closed"
  \/ 0 \in closes \/ 0 \in stops
  \/ wireless_stale = "running" /\ staleLeft = 0

OnePeriod(S) == {n - 1 : n \in S}

PeriodEnds ==
  /\ ~GoroutineRuns
  /\ staleLeft' = IF staleLeft > 0 THEN staleLeft - 1 ELSE 0
  /\ closes' = OnePeriod(closes) /\ stops' = OnePeriod(stops)
  /\ rpc' = [loop    |-> IF loop = "control" THEN rpc["loop"] + 1 ELSE 0,
             handler |-> IF handler \in {"control", "icon"} THEN rpc["handler"] + 1 ELSE 0]
  /\ since' = IF since < Settle THEN since + 1 ELSE since
  /\ UNCHANGED <<flags, services, states, loop, wireless_stale, handler, wifi, configured,
                 config, overtaken>>

Next ==
  \/ OnConnected \/ ControlEnabled \/ TestsServing \/ ClosesPairing \/ OnBadState
  \/ StaleFires \/ HandlerChecks \/ HandlerDisplays \/ HandlerSetsMessage
  \/ HandlerLaunches \/ HandlerStartsAP
  \/ Advertises \/ AdvertisingFails \/ ServingEnds
  \/ DelayedClose \/ DelayedStop \/ ClientClosesServer
  \/ LinkUp \/ LinkDown \/ KeyRefused \/ NetworksChange \/ PeriodEnds

Spec == Init /\ [][Next]_vars

-----------------------------------------------------------------------------
Settled == since = Settle /\ ~GoroutineRuns

(* "Help ensure that the sphere is always connected to some kind of        *)
(* network": when the wireless link has been down for Settle periods, the  *)
(* access point is up, however often the link came and went before; with   *)
(* Always_Active nothing ever stops it.                                    *)
AccessPointWhenNeeded ==
  Always_Active \/ (Settled /\ wifi = "down") => ap

(* It is so, unless Connected has been handled between the two ends of     *)
(* handleBadWireless and clients close the BLE server as well: neither     *)
(* disturbance alone can leave the sphere without a network.               *)
AccessPointUnlessDisturbed == ~(overtaken # "never" /\ clients) => AccessPointWhenNeeded

(* While the link is down for that long the BLE service is offered too,    *)
(* unless a client closes it.                                              *)
PairingWhenNeeded == ~clients /\ Settled /\ wifi = "down" => gatt = "serving"

(* "By default, it will only be active when needed for pairing": when the  *)
(* link has been up for Settle periods, the access point is down and the   *)
(* BLE service closed, unless Connected has been handled between the two   *)
(* ends of handleBadWireless, or a client closes the BLE server.           *)
PairingOnlyWhenNeeded ==
  overtaken = "never" /\ ~clients /\ Settled /\ wifi = "up" =>
    gatt = "idle" /\ (ap => Always_Active)

(* is_serving_pairer keeps handleBadWireless from opening the BLE service, *)
(* so it is never left set when nobody is about to serve: each way out of  *)
(* AdvertiseAndServe clears it.                                            *)
FlagNotStuck ==
  ~GoroutineRuns /\ handler = "idle" /\ is_serving_pairer => gatt = "serving"

(* "Once paired we need to led-controller to enable control": the call is  *)
(* not left to be made, with badWifiMessage still set, when the link has   *)
(* long been up, whatever clients do, unless the last Connected has        *)
(* overtaken handleBadWireless.                                            *)
MessageCleared == overtaken # "last" /\ Settled /\ wifi = "up" => ~badWifiMessage
=============================================================================
