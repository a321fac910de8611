------------------------------- MODULE StartUp -------------------------------
(***************************************************************************)
(* The start-up of the assistant (main.go, from EnsureBLEIsUp to the main  *)
(* loop) with what runs beside it: the goroutine that brings the BLE       *)
(* interface up, the job hostapd-ap0, and the reset monitor, whose         *)
(* callback starts and stops the heartbeat and reads variables main has    *)
(* not assigned yet.  The process may die at any point; upstart starts it  *)
(* again, and finds the job and the interface as they are.                 *)
(***************************************************************************)
EXTENDS ControlChecker, AccessPoint, EnsureBLE

CONSTANTS
  MaxPresses,    \* bound: times the reset button leaves rest
  MaxCrashes     \* bound: times the process dies

ASSUME StartUpAssumption == MaxPresses \in Nat /\ MaxCrashes \in Nat

VARIABLES
  Always_Active, Enables_Control,  \* of the configuration
  main,              \* where the main goroutine is
  gaveUp,            \* EnsureBLEIsUp has timed out
  callback,          \* the reset callback: "off", "idle" or "called"
  shown,             \* the mode it was last called with: "none", or another
  restartHeartbeat,
  presses, crashes   \* the bounds' counters

mainVars   == <<main, gaveUp>>
buttonVars == <<callback, shown, restartHeartbeat, presses>>
configVars == <<Always_Active, Enables_Control>>
vars == <<heartbeatVars, apVars, bleVars, mainVars, buttonVars, configVars, crashes>>

Places == {"ensure", "stop_ap", "start_ap", "ui", "serve", "heartbeat", "loop"}

(* Types of the three parts and of the start-up.                           *)
TypeOK ==
  /\ HeartbeatTypeOK /\ AccessPointTypeOK /\ EnsureTypeOK
  /\ main \in Places /\ gaveUp \in BOOLEAN
  /\ callback \in {"off", "idle", "called"} /\ shown \in {"none", "mode"}
  /\ restartHeartbeat \in BOOLEAN
  /\ Always_Active \in BOOLEAN /\ Enables_Control \in BOOLEAN
  /\ presses \in 0 .. MaxPresses /\ crashes \in 0 .. MaxCrashes

Init ==
  /\ HeartbeatInit /\ AccessPointInit
  /\ Always_Active \in BOOLEAN /\ Enables_Control \in BOOLEAN
  /\ hci0 \in {"absent", "unready", "up"} /\ poller = "look"
  /\ main = "ensure" /\ gaveUp = FALSE
  /\ callback = "off" /\ shown = "none" /\ restartHeartbeat = FALSE
  /\ presses = 0 /\ crashes = 0

-----------------------------------------------------------------------------
(* main.                                                                   *)
MainGoes(from, to) == main = from /\ main' = to
AfterMain == UNCHANGED <<configVars, crashes>>

(* EnsureBLEIsUp returns or times out, and the reset monitor starts: the    *)
(* first thing it does is to call back with "none".  The answer and the     *)
(* timeout may come at once.                                                *)
EnsureReturns ==
  /\ MainGoes("ensure", "stop_ap")
  /\ gaveUp' \in {poller # "over", TRUE}
  /\ callback' = "called"
  /\ UNCHANGED <<heartbeatVars, apVars, bleVars, shown, restartHeartbeat, presses>>
  /\ AfterMain

(* StopHostAP, or the first half of StartHostAP.                           *)
StopsAP ==
  /\ MainGoes("stop_ap", IF Always_Active THEN "start_ap" ELSE "ui")
  /\ StopJob
  /\ UNCHANGED <<heartbeatVars, bleVars, gaveUp, buttonVars>>
  /\ AfterMain

StartsAP ==
  /\ MainGoes("start_ap", "ui")
  /\ StartJob
  /\ UNCHANGED <<heartbeatVars, bleVars, gaveUp, buttonVars>>
  /\ AfterMain

(* NewPairingUI, the routers, then NewControlChecker: from here on the     *)
(* callback is served.  /sbin/start has returned.                          *)
MakesChecker ==
  /\ MainGoes("ui", "serve") /\ job # "prestart"
  /\ UNCHANGED <<heartbeatVars, apVars, bleVars, gaveUp, buttonVars>>
  /\ AfterMain

(* Without a configured network, main runs handleBadWireless first.        *)
Serves ==
  /\ MainGoes("serve", "heartbeat") /\ job # "prestart"
  /\ UNCHANGED <<heartbeatVars, apVars, bleVars, gaveUp, buttonVars>>
  /\ AfterMain

StartsHeartbeat ==
  /\ MainGoes("heartbeat", "loop")
  /\ IF Enables_Control THEN StartHeartbeat ELSE UNCHANGED heartbeatVars
  /\ UNCHANGED <<apVars, bleVars, gaveUp, buttonVars>>
  /\ AfterMain

(* handleBadWireless and Connected start and stop the access point; when,  *)
(* is the subject of PairingSupervisor.                                    *)
Supervises ==
  /\ main \in {"serve", "loop"} /\ ~Always_Active
  /\ StartJob \/ StopJob
  /\ UNCHANGED <<heartbeatVars, bleVars, mainVars, buttonVars>>
  /\ AfterMain

Main ==
  \/ EnsureReturns \/ StopsAP \/ StartsAP
  \/ MakesChecker \/ Serves \/ StartsHeartbeat

-----------------------------------------------------------------------------
(* The reset monitor.  It calls back with "none" when it comes to rest,    *)
(* and with another mode each time it enters another state that displays.  *)
ButtonEnters(mode) ==
  /\ callback = "idle" /\ callback' = "called"
  /\ mode = "none" => shown = "mode"
  /\ shown' = mode
  /\ IF shown = "none" THEN presses < MaxPresses /\ presses' = presses + 1
     ELSE UNCHANGED presses
  /\ UNCHANGED <<heartbeatVars, apVars, bleVars, mainVars, restartHeartbeat>>
  /\ AfterMain

Served == callback = "called" /\ callback' = "idle"
AfterCallback == UNCHANGED <<apVars, bleVars, mainVars, shown, presses, configVars, crashes>>

(* pairing_ui or controlChecker is nil.                                    *)
CallbackIgnored ==
  /\ Served /\ main \in {"stop_ap", "start_ap", "ui"}
  /\ UNCHANGED <<heartbeatVars, restartHeartbeat>>
  /\ AfterCallback

CallbackServed == Served /\ main \in {"serve", "heartbeat", "loop"}

CallbackNone_Always ==
  /\ CallbackServed /\ shown = "none"
  /\ StartHeartbeat
  /\ UNCHANGED restartHeartbeat
  /\ AfterCallback

(* Back at rest: start the heartbeat again if it was stopped.              *)
CallbackNone ==
  /\ CallbackServed /\ shown = "none"
  /\ IF restartHeartbeat THEN StartHeartbeat ELSE UNCHANGED heartbeatVars
  /\ UNCHANGED restartHeartbeat
  /\ AfterCallback

CallbackMode ==
  /\ CallbackServed /\ shown = "mode"
  /\ StopHeartbeat
  /\ restartHeartbeat' = StopReturns
  /\ AfterCallback

Callback == CallbackIgnored \/ CallbackNone \/ CallbackMode

-----------------------------------------------------------------------------
(* The process dies and upstart starts it again; its own pre-start script  *)
(* takes the BLE interface down and up.                                    *)
Restarts ==
  /\ crashes < MaxCrashes /\ crashes' = crashes + 1
  /\ ticker' = 0 /\ running' = {} /\ ticked' = {} /\ state' = FALSE
  /\ beat' = [g \in Starts |-> "none"]
  /\ main' = "ensure" /\ gaveUp' = FALSE
  /\ callback' = "off" /\ shown' = "none" /\ restartHeartbeat' = FALSE
  /\ poller' = "look"
  /\ hci0' = IF hci0 = "down" THEN "up" ELSE hci0
  /\ UNCHANGED <<apVars, configVars, presses>>

BesideHeartbeat ==
  UNCHANGED <<apVars, bleVars, mainVars, buttonVars, configVars, crashes>>
BesideJob == UNCHANGED <<heartbeatVars, bleVars, mainVars, buttonVars, configVars, crashes>>
BesideBLE == UNCHANGED <<heartbeatVars, apVars, mainVars, buttonVars, configVars, crashes>>

Next ==
  \/ Main \/ Supervises \/ Callback \/ Restarts
  \/ \E mode \in {"none", "mode"} : ButtonEnters(mode)
  \/ \E g \in Starts : (Heartbeat(g) \/ Ticks(g)) /\ BesideHeartbeat
  \/ Job /\ BesideJob
  \/ (Poller \/ DeviceAppears \/ DeviceReady) /\ BesideBLE

(* The goroutines of the heartbeat run when they can, EnableControl returns*)
(* and running tickers tick; nothing else need happen for ControlKept.     *)
Fairness ==
  \A g \in Starts :
    WF_vars(Heartbeat(g) /\ BesideHeartbeat) /\ WF_vars(Ticks(g) /\ BesideHeartbeat)

Spec == Init /\ [][Next]_vars
FairSpec == Spec /\ Fairness

-----------------------------------------------------------------------------
(* At most one heartbeat runs, and it is the one StopHeartbeat can reach.  *)
(* It rests on the order in which the reset monitor calls back:            *)
(* restartHeartbeat stays set after the restart, and StartHeartbeat does   *)
(* not look whether a ticker is running.                                   *)
OneHeartbeat == running \subseteq {ticker}

(* The heartbeat would take the display back from the reset mode: once a   *)
(* callback has stopped it, none runs until the button is at rest again;   *)
(* and at rest it runs if and only if it is configured to, whenever the    *)
(* button was pressed during the start-up.                                 *)
HeartbeatFollowsDisplay ==
  callback = "idle" =>
    /\ shown = "mode" /\ restartHeartbeat => running = {}
    /\ shown = "none" /\ main = "loop" => (running # {} <=> Enables_Control)

(* "Ensure it is in control mode": as long as the button is at rest,       *)
(* EnableControl is called again and again, although goroutines left over  *)
(* from stopped heartbeats share state and may still be in their call.     *)
AtRest == main = "loop" /\ Enables_Control /\ shown = "none" /\ callback = "idle"
ControlKept == AtRest ~> ~AtRest \/ \E g \in Starts : beat[g] = "call"

(* The BLE interface is up when the start-up goes on, unless it has given  *)
(* up waiting, and when the goroutine ends, in any case: it is not left    *)
(* down by a goroutine that outlives its caller.                           *)
InterfaceUp == poller = "over" \/ (main # "ensure" /\ ~gaveUp) => hci0 = "up"
=============================================================================
