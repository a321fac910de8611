--------------------------- MODULE StartUpProofs ---------------------------
(***************************************************************************)
(* The invariants of the start-up, for any number of heartbeats, presses   *)
(* and deaths of the process.                                              *)
(***************************************************************************)
EXTENDS StartUp, TLAPS, SequenceTheorems

-----------------------------------------------------------------------------
(* What a step of the composition is to the access point and to the BLE    *)
(* interface.                                                              *)
LEMMA JobSteps ==
  ASSUME [Next]_vars
  PROVE  StartJob \/ StopJob \/ Job \/ UNCHANGED apVars
BY DEF Next, vars, Main, EnsureReturns, StopsAP, StartsAP, MakesChecker, Serves,
       StartsHeartbeat, Supervises, Callback, CallbackIgnored, CallbackNone,
       CallbackMode, AfterCallback, Restarts, ButtonEnters, BesideHeartbeat, BesideBLE

LEMMA InterfaceSteps ==
  ASSUME [Next]_vars
  PROVE  \/ Poller /\ UNCHANGED <<main, gaveUp>>
         \/ (DeviceAppears \/ DeviceReady) /\ UNCHANGED <<main, gaveUp>>
         \/ UNCHANGED <<bleVars, main, gaveUp>>
         \/ UNCHANGED <<bleVars, gaveUp>> /\ main # "ensure"
         \/ EnsureReturns
         \/ Restarts
BY DEF Next, vars, Main, MainGoes, StopsAP, StartsAP, MakesChecker, Serves,
       StartsHeartbeat, Supervises, Callback, CallbackIgnored, CallbackNone,
       CallbackMode, AfterCallback, ButtonEnters, BesideHeartbeat, BesideJob,
       BesideBLE, mainVars

(* The goroutine ends only when it has seen the interface up, and only it  *)
(* takes the interface down.                                               *)
InterfaceInv ==
  /\ poller = "over" => hci0 = "up"
  /\ main # "ensure" /\ ~gaveUp => poller = "over"

(* For every bound: the interface is up when the start-up goes on without  *)
(* having given up, and when the goroutine of EnsureBLEIsUp ends.          *)
THEOREM InterfaceLeftUp == Spec => []InterfaceUp
<1>1. Init => InterfaceInv
  BY DEF Init, InterfaceInv
<1>2. InterfaceInv /\ [Next]_vars => InterfaceInv'
  <2> SUFFICES ASSUME InterfaceInv, [Next]_vars PROVE InterfaceInv'
    OBVIOUS
  <2> USE DEF InterfaceInv
  <2>1. CASE Poller /\ UNCHANGED <<main, gaveUp>>
    BY <2>1 DEF Poller, Looks, TakesDown, BringsUp, hciconfig
  <2>2. CASE (DeviceAppears \/ DeviceReady) /\ UNCHANGED <<main, gaveUp>>
    BY <2>2 DEF DeviceAppears, DeviceReady
  <2>3. CASE UNCHANGED <<bleVars, main, gaveUp>>
    BY <2>3 DEF bleVars
  <2>4. CASE UNCHANGED <<bleVars, gaveUp>> /\ main # "ensure"
    BY <2>4 DEF bleVars
  <2>5. CASE EnsureReturns
    BY <2>5 DEF EnsureReturns, bleVars
  <2>6. CASE Restarts
    BY <2>6 DEF Restarts
  <2> QED BY <2>1, <2>2, <2>3, <2>4, <2>5, <2>6, InterfaceSteps
<1>3. InterfaceInv => InterfaceUp
  BY DEF InterfaceInv, InterfaceUp
<1> QED BY <1>1, <1>2, <1>3, PTL DEF Spec

-----------------------------------------------------------------------------
(* The complete rules let through what the setup needs and nothing else.  *)
LEMMA RulesConfine ==
  ASSUME NEW s \in Services
  PROVE  (\A i \in DOMAIN Rules : Rules[i] = "drop" => \E j \in 1 .. i : Rules[j] = s)
           <=> s \in Open
<1>1. /\ DOMAIN Rules = 1 .. 6
      /\ Rules[1] = "8888" /\ Rules[2] = "80" /\ Rules[3] = "9001"
      /\ Rules[4] = "22" /\ Rules[5] = "dhcp" /\ Rules[6] = "drop"
  BY DEF Rules
<1>2. CASE s \in Open
  <2>1. PICK j \in 1 .. 5 : Rules[j] = s
    <3>1. 1 \in 1 .. 5 /\ 2 \in 1 .. 5 /\ 3 \in 1 .. 5 /\ 4 \in 1 .. 5 /\ 5 \in 1 .. 5
      OBVIOUS
    <3> QED BY <1>1, <1>2, <3>1 DEF Open
  <2>2. \A i \in DOMAIN Rules : Rules[i] = "drop" => i = 6
    BY <1>1
  <2> QED BY <1>1, <1>2, <2>1, <2>2
<1>3. CASE s = "other"
  <2>1. 6 \in DOMAIN Rules /\ \A j \in 1 .. 6 : Rules[j] # s
    BY <1>1, <1>3
  <2>2. s \notin Open
    BY <1>3 DEF Open
  <2> QED BY <1>1, <2>1, <2>2
<1> QED BY <1>2, <1>3 DEF Services

(* For any number of failures of iptables, respawns of hostapd and deaths  *)
(* of the assistant, the access point that is on is the confined one.      *)
THEOREM AlwaysConfined == Spec => []Confined
<1>1. Init => Confined
  BY DEF Init, AccessPointInit, Confined
<1>2. Confined /\ [Next]_vars => Confined'
  <2> SUFFICES ASSUME Confined, [Next]_vars PROVE Confined'
    OBVIOUS
  <2>1. CASE HookSucceeds
    <3>1. chain' = Complete /\ Full_Network_Access' = Full_Network_Access
      BY <2>1 DEF HookSucceeds
    <3>2. CASE Full_Network_Access
      BY <3>1, <3>2 DEF Confined, Complete, Accepted
    <3>3. CASE ~Full_Network_Access
      BY <3>1, <3>3, RulesConfine DEF Confined, Complete, Accepted
    <3> QED BY <3>2, <3>3
  <2>2. CASE job' # "running"
    BY <2>2 DEF Confined
  <2>3. CASE job' = job /\ UNCHANGED <<chain, Full_Network_Access>>
    BY <2>3 DEF Confined, Accepted
  <2> QED
    BY <2>1, <2>2, <2>3, JobSteps
       DEF StartJob, StopJob, Job, HookFails, HostapdDies, apVars
<1> QED BY <1>1, <1>2, PTL DEF Spec

-----------------------------------------------------------------------------
(* What the hook has set when iptables fails is a chain of rules.          *)
LEMMA PrefixType ==
  ASSUME NEW R, NEW S, NEW n \in 0 .. 5, \A i \in 1 .. n : R[i] \in S
  PROVE  SubSeq(R, 1, n) \in Seq(S)
BY SubSeqProperties, SMT

(* The types of the access point, of the interface and of the counters.    *)
LEMMA JobTypes ==
  ASSUME AccessPointTypeOK, StartJob \/ StopJob \/ Job \/ UNCHANGED apVars
  PROVE  AccessPointTypeOK'
<1> USE DEF AccessPointTypeOK
<1> DEFINE Rule == Open \cup {"drop"}
<1>1. Rules \in Seq(Rule) /\ Len(Rules) = 6
  BY DEF Rules, Open
<1>2. ASSUME NEW n \in 0 .. 5 PROVE SubSeq(Rules, 1, n) \in Seq(Rule)
  <2>1. \A i \in 1 .. n : Rules[i] \in Rule
    <3>1. \A i \in 1 .. n : i \in 1 .. 6
      OBVIOUS
    <3>2. \A i \in 1 .. 6 : Rules[i] \in Rule
      BY DEF Rules, Open
    <3> QED BY <3>1, <3>2, Zenon
  <2> HIDE DEF Rule
  <2> QED BY <1>2, <2>1, PrefixType
<1>3. {SubSeq(Rules, 1, n) : n \in 0 .. Len(Rules) - 1} \subseteq Seq(Rule)
  <2>1. 0 .. Len(Rules) - 1 = 0 .. 5
    BY <1>1
  <2> HIDE DEF Rule
  <2> QED BY <1>2, <2>1, Zenon
<1>4. <<>> \in Seq(Rule)
  OBVIOUS
<1>5. Complete \in Seq(Rule) /\ Broken \subseteq Seq(Rule)
  BY <1>1, <1>3, <1>4 DEF Complete, Broken
<1> QED
  BY <1>5 DEF StartJob, StopJob, Job, HookSucceeds, HookFails, HostapdDies, apVars

(* A goroutine exists only for a start that has happened.                  *)
NotStarted == \A g \in Starts : g > ticker => beat[g] = "none"

HeartbeatTypes == HeartbeatTypeOK /\ NotStarted

LEMMA StartType == ASSUME HeartbeatTypes, StartHeartbeat PROVE HeartbeatTypes'
<1> USE HeartbeatAssumption DEF HeartbeatTypes, HeartbeatTypeOK, NotStarted, Starts
<1>1. ticker + 1 \in Starts /\ beat[ticker + 1] = "none"
  BY DEF StartHeartbeat
<1>2. /\ ticker' \in 0 .. MaxStarts /\ running' \in SUBSET Starts /\ ticked' \in SUBSET Starts
      /\ beat' \in [Starts -> {"none", "wait", "set", "call"}] /\ state' \in BOOLEAN
  BY <1>1 DEF StartHeartbeat
<1>3. state' => \E g \in Starts : beat'[g] = "call"
  BY <1>1 DEF StartHeartbeat
<1>4. \A g \in Starts : g > ticker' => beat'[g] = "none"
  BY <1>1 DEF StartHeartbeat
<1> QED BY <1>2, <1>3, <1>4

LEMMA HeartbeatTypesKept ==
  ASSUME HeartbeatTypes, NEW g \in Starts, Ticks(g) \/ Heartbeat(g)
  PROVE  HeartbeatTypes'
<1> USE HeartbeatAssumption DEF HeartbeatTypes, HeartbeatTypeOK, NotStarted, GoesOn, Starts
<1>1. CASE Ticks(g)
  BY <1>1 DEF Ticks
<1>2. CASE Beats(g)
  BY <1>2 DEF Beats
<1>3. CASE Calls(g)
  BY <1>3 DEF Calls
<1>4. CASE CallReturns(g)
  BY <1>4 DEF CallReturns
<1> QED BY <1>1, <1>2, <1>3, <1>4 DEF Heartbeat

(* What a step of the composition is to the heartbeat.                     *)
LEMMA HeartbeatSteps ==
  ASSUME [Next]_vars
  PROVE  \/ UNCHANGED heartbeatVars
         \/ StartHeartbeat
         \/ StopHeartbeat
         \/ \E g \in Starts : Ticks(g) \/ Heartbeat(g)
         \/ Restarts
BY DEF Next, vars, Main, EnsureReturns, StopsAP, StartsAP, MakesChecker, Serves,
       StartsHeartbeat, Supervises, Callback, CallbackIgnored, CallbackNone,
       CallbackMode, ButtonEnters, BesideJob, BesideBLE

TypeInv == TypeOK /\ NotStarted

LEMMA TypeInvInit == Init => TypeInv
<1>1. ASSUME Init PROVE HeartbeatTypes
  <2>1. beat \in [Starts -> {"none", "wait", "set", "call"}] /\ NotStarted
    BY <1>1 DEF Init, HeartbeatInit, NotStarted
  <2>2. ticker \in 0 .. MaxStarts /\ ~state
    BY <1>1, HeartbeatAssumption DEF Init, HeartbeatInit
  <2>3. running \in SUBSET Starts /\ ticked \in SUBSET Starts /\ state \in BOOLEAN
    BY <1>1 DEF Init, HeartbeatInit
  <2> QED BY <2>1, <2>2, <2>3 DEF HeartbeatTypes, HeartbeatTypeOK
<1>2. Init => AccessPointTypeOK
  BY DEF Init, AccessPointInit, AccessPointTypeOK
<1>3. Init => presses \in 0 .. MaxPresses /\ crashes \in 0 .. MaxCrashes
  BY StartUpAssumption DEF Init
<1> QED
  BY <1>1, <1>2, <1>3 DEF Init, TypeInv, TypeOK, HeartbeatTypes, EnsureTypeOK, Places

LEMMA TypeInvStep == TypeInv /\ [Next]_vars => TypeInv'
<1> SUFFICES ASSUME TypeInv, [Next]_vars PROVE TypeInv'
  OBVIOUS
<1>1. HeartbeatTypes'
  <2> USE DEF TypeInv, TypeOK, HeartbeatTypes
  <2>1. CASE UNCHANGED heartbeatVars
    BY <2>1 DEF heartbeatVars, HeartbeatTypeOK, NotStarted
  <2>2. CASE StartHeartbeat
    BY <2>2, StartType
  <2>3. CASE StopHeartbeat
    BY <2>3 DEF StopHeartbeat, HeartbeatTypeOK, NotStarted
  <2>4. CASE \E g \in Starts : Ticks(g) \/ Heartbeat(g)
    BY <2>4, HeartbeatTypesKept
  <2>5. CASE Restarts
    <3>1. beat' \in [Starts -> {"none", "wait", "set", "call"}] /\ NotStarted'
      BY <2>5 DEF Restarts, NotStarted
    <3>2. ticker' \in 0 .. MaxStarts /\ ~state'
      BY <2>5, HeartbeatAssumption DEF Restarts
    <3>3. running' \in SUBSET Starts /\ ticked' \in SUBSET Starts /\ state' \in BOOLEAN
      BY <2>5 DEF Restarts
    <3> QED BY <3>1, <3>2, <3>3 DEF HeartbeatTypeOK
  <2> QED BY <2>1, <2>2, <2>3, <2>4, <2>5, HeartbeatSteps
<1>2. AccessPointTypeOK'
  BY JobSteps, JobTypes DEF TypeInv, TypeOK
<1>3. EnsureTypeOK'
  BY InterfaceSteps
     DEF TypeInv, TypeOK, EnsureTypeOK, Poller, Looks, TakesDown, BringsUp, hciconfig,
         DeviceAppears, DeviceReady, EnsureReturns, Restarts, bleVars
<1>4. /\ (main \in Places /\ gaveUp \in BOOLEAN)'
      /\ (Always_Active \in BOOLEAN /\ Enables_Control \in BOOLEAN)'
  <2> USE DEF TypeInv, TypeOK, Places, AfterMain, configVars
  <2>1. CASE Main
    BY <2>1 DEF Main, MainGoes, EnsureReturns, StopsAP, StartsAP, MakesChecker, Serves, StartsHeartbeat
  <2>2. CASE ~Main
    BY <2>2 DEF Next, vars, mainVars, Supervises, Callback, CallbackIgnored, CallbackNone,
       CallbackMode, AfterCallback, ButtonEnters, Restarts, BesideHeartbeat, BesideJob, BesideBLE
  <2> QED BY <2>1, <2>2
<1>5. /\ (callback \in {"off", "idle", "called"} /\ shown \in {"none", "mode"})'
      /\ (restartHeartbeat \in BOOLEAN)'
  <2> USE DEF TypeInv, TypeOK
  <2>1. CASE Main
    BY <2>1 DEF Main, EnsureReturns, StopsAP, StartsAP, MakesChecker, Serves, StartsHeartbeat, buttonVars
  <2>2. CASE Callback
    BY <2>2 DEF Callback, CallbackIgnored, CallbackNone, CallbackMode, CallbackServed, Served,
       AfterCallback, StopReturns
  <2>3. CASE \E mode \in {"none", "mode"} : ButtonEnters(mode)
    BY <2>3 DEF ButtonEnters
  <2>4. CASE Restarts
    BY <2>4 DEF Restarts
  <2>5. CASE UNCHANGED buttonVars
    BY <2>5 DEF buttonVars
  <2> QED BY <2>1, <2>2, <2>3, <2>4, <2>5
       DEF Next, vars, Supervises, BesideHeartbeat, BesideJob, BesideBLE
<1>6. (presses \in 0 .. MaxPresses /\ crashes \in 0 .. MaxCrashes)'
  <2> USE StartUpAssumption DEF TypeInv, TypeOK
  <2>1. CASE \E mode \in {"none", "mode"} : ButtonEnters(mode)
    BY <2>1 DEF ButtonEnters, AfterMain
  <2>2. CASE Restarts
    BY <2>2 DEF Restarts
  <2>3. CASE UNCHANGED <<presses, crashes>>
    BY <2>3
  <2> QED BY <2>1, <2>2, <2>3
       DEF Next, vars, buttonVars, Main, EnsureReturns, StopsAP, StartsAP, MakesChecker, Serves,
           StartsHeartbeat, Supervises, Callback, CallbackIgnored, CallbackNone, CallbackMode,
           AfterMain, AfterCallback, BesideHeartbeat, BesideJob, BesideBLE
<1> QED BY <1>1, <1>2, <1>3, <1>4, <1>5, <1>6 DEF TypeInv, TypeOK, HeartbeatTypes

(* For every bound the types hold; in particular state says that a call of *)
(* EnableControl is out only while one is.                                 *)
THEOREM TypesCorrect == Spec => []TypeOK
<1>1. TypeInv => TypeOK
  BY DEF TypeInv
<1> QED BY <1>1, TypeInvInit, TypeInvStep, PTL DEF Spec

-----------------------------------------------------------------------------
(* The heartbeat.  A ticker exists from the end of the start-up on, if     *)
(* Enables_Control; restartHeartbeat is set only when there is one.        *)
TickerFromLoop ==
  /\ main # "loop" => ticker = 0 /\ running = {} /\ ~restartHeartbeat
  /\ main = "loop" => (ticker # 0 <=> Enables_Control)
  /\ restartHeartbeat => ticker # 0

(* Before the first stop the heartbeat runs as configured; after it, it    *)
(* runs when the callback has come to rest, and does not where a callback  *)
(* must find it stopped.                                                   *)
AsConfigured == main = "loop" /\ ~restartHeartbeat => (running # {} <=> Enables_Control)
RunsAtRest == restartHeartbeat /\ shown = "none" /\ callback = "idle" => running # {}
StoppedWhileShown ==
  restartHeartbeat /\ <<shown, callback>> \in {<<"mode", "idle">>, <<"none", "called">>}
    => running = {}

HeartbeatInv ==
  /\ OneHeartbeat /\ TickerFromLoop
  /\ AsConfigured /\ RunsAtRest /\ StoppedWhileShown

(* A callback keeps the invariant (main.go:63-75).                         *)
LEMMA CallbackKeeps ==
  ASSUME TypeInv, HeartbeatInv, Callback PROVE HeartbeatInv'
<1> USE DEF HeartbeatInv, OneHeartbeat, TickerFromLoop, AsConfigured, RunsAtRest,
            StoppedWhileShown, Served, CallbackServed, AfterCallback, mainVars, configVars
<1>1. CASE CallbackIgnored
  BY <1>1 DEF CallbackIgnored, heartbeatVars
<1>2. CASE CallbackNone
  <2>1. CASE restartHeartbeat
    <3>1. StartHeartbeat /\ running = {} /\ main = "loop" /\ Enables_Control
      BY <1>2, <2>1 DEF CallbackNone
    <3>2. running' = {ticker'} /\ ticker' # 0
      BY <3>1, HeartbeatAssumption DEF StartHeartbeat, TypeInv, TypeOK, HeartbeatTypeOK
    <3> QED BY <1>2, <2>1, <3>1, <3>2 DEF CallbackNone
  <2>2. CASE ~restartHeartbeat
    BY <1>2, <2>2 DEF CallbackNone, heartbeatVars
  <2> QED BY <2>1, <2>2
<1>3. CASE CallbackMode
  BY <1>3 DEF CallbackMode, StopHeartbeat, StopReturns
<1> QED BY <1>1, <1>2, <1>3 DEF Callback

(* And so does a step of main (main.go:52-150, 206-216).                   *)
LEMMA MainKeeps ==
  ASSUME TypeInv, HeartbeatInv, Main PROVE HeartbeatInv'
<1> USE DEF HeartbeatInv, OneHeartbeat, TickerFromLoop, AsConfigured, RunsAtRest,
            StoppedWhileShown, MainGoes, AfterMain, buttonVars, configVars
<1>1. CASE StartsHeartbeat
  <2>1. ticker = 0 /\ running = {} /\ ~restartHeartbeat /\ main' = "loop"
    BY <1>1 DEF StartsHeartbeat
  <2>2. CASE Enables_Control
    <3>1. running' = {ticker'} /\ ticker' # 0
      BY <1>1, <2>1, <2>2 DEF StartsHeartbeat, StartHeartbeat
    <3> QED BY <1>1, <2>1, <2>2, <3>1 DEF StartsHeartbeat
  <2>3. CASE ~Enables_Control
    BY <1>1, <2>1, <2>3 DEF StartsHeartbeat, heartbeatVars
  <2> QED BY <2>2, <2>3
<1>2. CASE EnsureReturns
  BY <1>2 DEF EnsureReturns, heartbeatVars
<1>3. CASE StopsAP \/ StartsAP \/ MakesChecker \/ Serves
  BY <1>3 DEF StopsAP, StartsAP, MakesChecker, Serves, heartbeatVars
<1> QED BY <1>1, <1>2, <1>3 DEF Main

LEMMA HeartbeatInvStep == TypeInv /\ HeartbeatInv /\ [Next]_vars => HeartbeatInv'
<1> SUFFICES ASSUME TypeInv, HeartbeatInv, [Next]_vars PROVE HeartbeatInv'
  OBVIOUS
<1> USE DEF HeartbeatInv, OneHeartbeat, TickerFromLoop, AsConfigured, RunsAtRest,
            StoppedWhileShown
<1>1. ASSUME NEW mode \in {"none", "mode"}, ButtonEnters(mode) PROVE HeartbeatInv'
  BY <1>1 DEF ButtonEnters, AfterMain, heartbeatVars, mainVars, configVars
<1>2. CASE Restarts
  BY <1>2 DEF Restarts, configVars
<1>3. ASSUME NEW g \in Starts, Heartbeat(g) \/ Ticks(g), BesideHeartbeat PROVE HeartbeatInv'
  BY <1>3 DEF Heartbeat, Beats, Calls, CallReturns, GoesOn, Ticks, BesideHeartbeat,
              mainVars, buttonVars, configVars
<1>4. CASE UNCHANGED <<heartbeatVars, main, buttonVars, configVars>>
  BY <1>4 DEF heartbeatVars, buttonVars, configVars
<1> QED
  BY <1>1, <1>2, <1>3, <1>4, CallbackKeeps, MainKeeps
     DEF Next, vars, mainVars, Supervises, AfterMain, BesideJob, BesideBLE

LEMMA HeartbeatInvariant == Spec => []HeartbeatInv
<1>1. Init => HeartbeatInv
  BY DEF Init, HeartbeatInit, HeartbeatInv, OneHeartbeat, TickerFromLoop, AsConfigured,
         RunsAtRest, StoppedWhileShown
<1> QED BY <1>1, TypeInvInit, TypeInvStep, HeartbeatInvStep, PTL DEF Spec

(* For every bound, at most one heartbeat runs.                            *)
THEOREM OnlyOneHeartbeat == Spec => []OneHeartbeat
<1>1. HeartbeatInv => OneHeartbeat
  BY DEF HeartbeatInv
<1> QED BY <1>1, HeartbeatInvariant, PTL

(* For every bound, no heartbeat runs behind the display of the button,    *)
(* and at rest it runs as configured.                                      *)
THEOREM DisplayRespected == Spec => []HeartbeatFollowsDisplay
<1>1. HeartbeatInv => HeartbeatFollowsDisplay
  BY DEF HeartbeatInv, TickerFromLoop, AsConfigured, RunsAtRest, StoppedWhileShown,
         HeartbeatFollowsDisplay
<1> QED BY <1>1, HeartbeatInvariant, PTL
=============================================================================
