------------------------- MODULE PairingTimingProofs -------------------------
(***************************************************************************)
(* Proofs that PairingSupervisor does what its timers promise: for all     *)
(* delays, as long as those of closing are shorter than staleness.         *)
(*                                                                         *)
(* The argument follows an event of the link from the moment it is sent.   *)
(* The loop receives it within three display RPCs (two at startup, one of  *)
(* EnableControl), a timer it starts fires one staleness later, and the    *)
(* handler is over after two more RPCs.                                    *)
(***************************************************************************)
EXTENDS PairingSupervisorProofs

-----------------------------------------------------------------------------
(* The channel of states.                                                  *)
ConnectedWaits == \E i \in 1 .. Len(states) : states[i] = "connected"
ConnectedLast == states # <<>> /\ states[Len(states)] = "connected"

(* What is left of the RPCs of a handler, and of those that keep the loop  *)
(* from its channel: the handler's at startup, the present EnableControl,  *)
(* and the one that a message, set or about to be set, will cause.         *)
HandlerLeft ==
  IF handler = "check" THEN 2 * RpcDelay
  ELSE IF handler = "control" THEN 2 * RpcDelay - rpc["handler"]
  ELSE IF handler = "icon" THEN RpcDelay - rpc["handler"]
  ELSE 0

Unsaid == handler \in {"check", "control", "icon", "message"}
OneRpc(b) == IF b THEN RpcDelay ELSE 0

LoopLeft ==
  IF loop = "startup" THEN HandlerLeft + RpcDelay
  ELSE IF loop = "control" THEN RpcDelay - rpc["loop"] + OneRpc(badWifiMessage \/ Unsaid)
  ELSE OneRpc(badWifiMessage) + OneRpc(Unsaid)

(* The loop has an event to receive that matters: one that starts the      *)
(* timer, or one that stops it.                                            *)
Awaited == (wireless_stale = "nil" /\ states # <<>>) \/ ConnectedWaits

-----------------------------------------------------------------------------
(* While the loop cannot receive, there is no timer; while it enables      *)
(* control, no second message is on its way.                               *)
LoopTimer ==
  /\ loop # "receive" => wireless_stale = "nil"
  /\ loop = "startup" => handler # "idle"
  /\ loop = "control" => ~(badWifiMessage /\ Unsaid)

(* The last event, waiting or received, is about the link as it is.        *)
LastEvent ==
  IF states = <<>> THEN wifi = "up" <=> wireless_stale = "nil"
  ELSE wifi = "up" <=> ConnectedLast

QueueOnTime == Awaited => since + LoopLeft <= 3 * RpcDelay
TimerOnTime ==
  wireless_stale = "running" => since + staleLeft <= 3 * RpcDelay + StaleDelay
HandlerOnTime ==
  handler # "idle" => since + HandlerLeft <= 5 * RpcDelay + StaleDelay
(* A timer that has begun to count leaves the loop free to receive, so a   *)
(* Connected that still waits has been sent just now.                      *)
ConnectedIsNew ==
  wireless_stale # "nil" /\ staleLeft < StaleDelay /\ ConnectedWaits => since = 0
DelayedOnTime ==
  /\ \A c \in closes : since + c <= 3 * RpcDelay + CloseDelay
  /\ \A c \in stops : since + c <= 3 * RpcDelay + StopDelay

(* The loop is done with a Connected, and has started the delayed calls,   *)
(* within three RPCs too.                                                  *)
LoopOnTime ==
  /\ loop = "control" => since + (RpcDelay - rpc["loop"]) <= 3 * RpcDelay
  /\ loop \in {"test", "clear"} => since <= 3 * RpcDelay

(* The inductive invariant about time.                                     *)
TimeInv ==
  /\ LoopTimer /\ LastEvent /\ QueueOnTime /\ ConnectedIsNew
  /\ TimerOnTime /\ HandlerOnTime /\ DelayedOnTime /\ LoopOnTime

-----------------------------------------------------------------------------
(* What receiving and sending an event does to the channel.                *)
LEMMA TailStates ==
  ASSUME NEW T, NEW q \in Seq(T), q # <<>>
  PROVE  /\ Len(q) \in Nat /\ Len(q) > 0 /\ Len(Tail(q)) = Len(q) - 1
         /\ Tail(q) = <<>> <=> Len(q) = 1
         /\ \A i \in 1 .. Len(Tail(q)) : Tail(q)[i] = q[i + 1]
         /\ Head(q) = q[1]
<1>1. Len(q) \in Nat /\ Len(q) > 0 /\ Head(q) = q[1]
  BY EmptySeq
<1>2. /\ Tail(q) \in Seq(T) /\ Len(Tail(q)) = Len(q) - 1
      /\ \A i \in 1 .. Len(Tail(q)) : Tail(q)[i] = q[i + 1]
  BY HeadTailProperties
<1>3. Tail(q) = <<>> <=> Len(Tail(q)) = 0
  BY <1>2, EmptySeq
<1> QED
  BY <1>1, <1>2, <1>3

LEMMA AppendStates ==
  ASSUME NEW T, NEW q \in Seq(T), NEW s \in T
  PROVE  /\ Len(q) \in Nat /\ Len(Append(q, s)) = Len(q) + 1 /\ Append(q, s) # <<>>
         /\ Append(q, s)[Len(q) + 1] = s
         /\ \A i \in 1 .. Len(q) : Append(q, s)[i] = q[i]
  OBVIOUS

LEMMA ReceivesEvent ==
  ASSUME TypeOK, NEW s \in States, Receives(s)
  PROVE  /\ loop = "receive" /\ states # <<>>
         /\ s = "connected" => ConnectedWaits
         /\ states' = <<>> => (ConnectedLast <=> s = "connected")
         /\ states' # <<>> => (ConnectedLast' <=> ConnectedLast)
         /\ ConnectedWaits' => ConnectedWaits
<1>1. /\ loop = "receive" /\ states # <<>> /\ Head(states) = s /\ states' = Tail(states)
      /\ states \in Seq(States)
  BY DEF Receives, TypeOK, States
<1>2. /\ Len(states) \in Nat /\ Len(states) > 0 /\ Len(states') = Len(states) - 1
      /\ states' = <<>> <=> Len(states) = 1
      /\ \A i \in 1 .. Len(states') : states'[i] = states[i + 1]
      /\ states[1] = s
  BY ONLY <1>1, TailStates
<1>3. s = "connected" => ConnectedWaits
  BY <1>2 DEF ConnectedWaits
<1>4. states' = <<>> => (ConnectedLast <=> s = "connected")
  BY <1>1, <1>2 DEF ConnectedLast
<1>5. states' # <<>> => (ConnectedLast' <=> ConnectedLast)
  <2> SUFFICES ASSUME states' # <<>> PROVE ConnectedLast' <=> ConnectedLast
    OBVIOUS
  <2>1. states'[Len(states')] = states[Len(states)]
    BY <1>2
  <2> QED
    BY <1>1, <2>1 DEF ConnectedLast
<1>6. ConnectedWaits' => ConnectedWaits
  <2> SUFFICES ASSUME NEW i \in 1 .. Len(states'), states'[i] = "connected"
               PROVE  ConnectedWaits
    BY DEF ConnectedWaits
  <2>1. i + 1 \in 1 .. Len(states) /\ states[i + 1] = "connected"
    BY <1>2
  <2> QED
    BY <2>1 DEF ConnectedWaits
<1> QED
  BY <1>1, <1>3, <1>4, <1>5, <1>6

LEMMA EmitsEvent ==
  ASSUME TypeOK, NEW s \in States, Emits(s)
  PROVE  /\ states' # <<>> /\ (ConnectedLast' <=> s = "connected")
         /\ ConnectedWaits' => ConnectedWaits \/ s = "connected"
<1>1. states' = Append(states, s) /\ states \in Seq(States)
  BY DEF Emits, TypeOK, States
<1>2. /\ Len(states) \in Nat /\ Len(states') = Len(states) + 1 /\ states' # <<>>
      /\ states'[Len(states) + 1] = s
      /\ \A i \in 1 .. Len(states) : states'[i] = states[i]
  BY ONLY <1>1, AppendStates
<1>3. ConnectedLast' <=> s = "connected"
  BY <1>2 DEF ConnectedLast
<1>4. ASSUME NEW i \in 1 .. Len(states'), states'[i] = "connected", s # "connected"
      PROVE  ConnectedWaits
  <2>1. i \in 1 .. Len(states)
    BY <1>2, <1>4
  <2> QED
    BY <1>2, <1>4, <2>1 DEF ConnectedWaits
<1> QED
  BY <1>2, <1>3, <1>4 DEF ConnectedWaits

-----------------------------------------------------------------------------
(* Ranges of the times.                                                    *)
LEMMA TimeTypes ==
  ASSUME TypeOK
  PROVE  /\ since \in Nat /\ staleLeft \in Nat /\ staleLeft <= StaleDelay
         /\ closes \subseteq Nat /\ stops \subseteq Nat
         /\ \A c \in closes : c <= CloseDelay
         /\ \A c \in stops : c <= StopDelay
         /\ rpc["loop"] \in Nat /\ rpc["loop"] <= RpcDelay
         /\ rpc["handler"] \in Nat /\ rpc["handler"] <= RpcDelay
         /\ HandlerLeft \in Nat /\ HandlerLeft <= 2 * RpcDelay
         /\ LoopLeft \in Nat /\ LoopLeft <= 3 * RpcDelay
         /\ RpcDelay \in Nat /\ StaleDelay \in Nat \ {0}
         /\ CloseDelay \in Nat \ {0} /\ StopDelay \in Nat \ {0}
<1>1. /\ RpcDelay \in Nat /\ StaleDelay \in Nat \ {0}
      /\ CloseDelay \in Nat \ {0} /\ StopDelay \in Nat \ {0} /\ Settle \in Nat
  BY PairingAssumption
<1>2. since \in Nat /\ staleLeft \in Nat /\ staleLeft <= StaleDelay
  BY <1>1 DEF TypeOK
<1>3. /\ closes \subseteq Nat /\ stops \subseteq Nat
      /\ \A c \in closes : c <= CloseDelay
      /\ \A c \in stops : c <= StopDelay
  BY <1>1 DEF TypeOK
<1>4. /\ rpc["loop"] \in Nat /\ rpc["loop"] <= RpcDelay
      /\ rpc["handler"] \in Nat /\ rpc["handler"] <= RpcDelay
  BY <1>1 DEF TypeOK
<1>5. HandlerLeft \in Nat /\ HandlerLeft <= 2 * RpcDelay
  BY <1>1, <1>4 DEF HandlerLeft
<1>6. \A b \in BOOLEAN : OneRpc(b) \in Nat /\ OneRpc(b) <= RpcDelay
  BY <1>1 DEF OneRpc
<1>7. OneRpc(badWifiMessage \/ Unsaid) \in Nat /\ OneRpc(badWifiMessage \/ Unsaid) <= RpcDelay
  BY <1>1 DEF OneRpc
<1>8. /\ OneRpc(badWifiMessage) \in Nat /\ OneRpc(badWifiMessage) <= RpcDelay
      /\ OneRpc(Unsaid) \in Nat /\ OneRpc(Unsaid) <= RpcDelay
  BY <1>1 DEF OneRpc
<1>9. LoopLeft \in Nat /\ LoopLeft <= 3 * RpcDelay
  BY <1>1, <1>4, <1>5, <1>7, <1>8 DEF LoopLeft
<1> QED
  BY <1>1, <1>2, <1>3, <1>4, <1>5, <1>9

LEMMA HandlerLeftNatural == TypeOK => HandlerLeft \in Nat
  BY TimeTypes

LEMMA HandlerLeftStaysNatural == TypeOK' => (HandlerLeft \in Nat)'
  BY HandlerLeftNatural, PTL

LEMMA LoopLeftNatural == TypeOK => LoopLeft \in Nat
  BY TimeTypes

LEMMA LoopLeftStaysNatural == TypeOK' => (LoopLeft \in Nat)'
  BY LoopLeftNatural, PTL

(* A step that does not add to what awaits the loop.                       *)
LEMMA QueueStays ==
  ASSUME TypeOK, TypeOK', QueueOnTime,
         Awaited' => Awaited, Awaited' => LoopLeft' <= LoopLeft, since' = since
  PROVE  QueueOnTime'
<1> SUFFICES ASSUME Awaited' PROVE since' + LoopLeft' <= 3 * RpcDelay
  BY DEF QueueOnTime
<1>1. since + LoopLeft <= 3 * RpcDelay
  BY DEF QueueOnTime
<1>2. LoopLeft \in Nat /\ LoopLeft' \in Nat /\ since \in Nat /\ RpcDelay \in Nat
  BY TimeTypes, LoopLeftStaysNatural
<1>3. LoopLeft' <= LoopLeft /\ since' = since
  OBVIOUS
<1>4. \A n, m, l, r \in Nat : n + m <= 3 * r /\ l <= m => n + l <= 3 * r
  OBVIOUS
<1> QED
  BY ONLY <1>1, <1>2, <1>3, <1>4

(* Connected: the loop goes on, or enables control with the RPC that       *)
(* LoopLeft has set aside (main.go:218-237).                               *)
LEMMA ConnectedOnTime ==
  ASSUME TypeOK, TypeOK', TimeInv, OnConnected
  PROVE  TimeInv'
<1>1. /\ Receives("connected") /\ wireless_stale' = "nil" /\ ~badWifiMessage'
      /\ loop' = (IF badWifiMessage THEN "control" ELSE "test")
  BY DEF OnConnected, Connected
<1>2. UNCHANGED <<handler, rpc, since, wifi, closes, stops>>
  BY <1>1 DEF Receives, handling, network, delayed
<1>3. /\ loop = "receive" /\ states # <<>> /\ ConnectedWaits
      /\ states' = <<>> => ConnectedLast
      /\ states' # <<>> => (ConnectedLast' <=> ConnectedLast)
  BY <1>1, ReceivesEvent DEF States
<1>4. since + LoopLeft <= 3 * RpcDelay
  BY <1>3 DEF TimeInv, QueueOnTime, Awaited
<1>5. HandlerLeft' = HandlerLeft /\ (Unsaid' <=> Unsaid)
  BY <1>1, <1>2 DEF HandlerLeft, Unsaid
<1>6. LoopLeft' <= LoopLeft
  <2>1. CASE badWifiMessage
    <3>1. LoopLeft' = RpcDelay - rpc["loop"] + OneRpc(Unsaid)
      BY <1>1, <1>2, <1>5, <2>1 DEF LoopLeft, OneRpc
    <3>2. LoopLeft = RpcDelay + OneRpc(Unsaid)
      BY <1>3, <2>1 DEF LoopLeft, OneRpc
    <3> QED
      BY <3>1, <3>2, TimeTypes DEF OneRpc
  <2>2. CASE ~badWifiMessage
    <3>1. LoopLeft' = 0 + OneRpc(Unsaid)
      BY <1>1, <1>2, <1>5, <2>2 DEF LoopLeft, OneRpc
    <3>2. LoopLeft = 0 + OneRpc(Unsaid)
      BY <1>3, <2>2 DEF LoopLeft, OneRpc
    <3> QED
      BY <3>1, <3>2, TimeTypes DEF OneRpc
  <2> QED
    BY <2>1, <2>2
<1>7. LoopTimer'
  BY <1>1 DEF LoopTimer
<1>8. LastEvent'
  BY <1>1, <1>2, <1>3 DEF TimeInv, LastEvent
<1>9. QueueOnTime'
  <2>1. Awaited
    BY <1>3 DEF Awaited
  <2> QED
    BY <1>2, <1>6, <2>1, QueueStays DEF TimeInv
<1>10. TimerOnTime' /\ HandlerOnTime' /\ ConnectedIsNew'
  BY <1>1, <1>2, <1>5 DEF TimeInv, TimerOnTime, HandlerOnTime, ConnectedIsNew
<1>11. DelayedOnTime'
  BY <1>2 DEF TimeInv, DelayedOnTime
<1>12. LoopOnTime'
  <2>1. since <= 3 * RpcDelay
    BY <1>4, TimeTypes
  <2>2. CASE badWifiMessage
    <3>1. since + RpcDelay <= 3 * RpcDelay
      <4>1. LoopLeft >= RpcDelay
        BY <1>3, <2>2, TimeTypes DEF LoopLeft, OneRpc
      <4> QED
        BY <1>4, <4>1, TimeTypes
    <3> QED
      BY <1>1, <1>2, <2>2, <3>1, TimeTypes DEF LoopOnTime
  <2>3. CASE ~badWifiMessage
    BY <1>1, <1>2, <2>1, <2>3 DEF LoopOnTime
  <2> QED
    BY <2>2, <2>3
<1> QED
  BY <1>7, <1>8, <1>9, <1>10, <1>11, <1>12 DEF TimeInv

(* Disconnected and InvalidKey: a timer that is started now is started     *)
(* within three RPCs of the event (main.go:264-277).                       *)
LEMMA BadStateOnTime ==
  ASSUME TypeOK, TypeOK', TimeInv, OnBadState
  PROVE  TimeInv'
<1>1. PICK s \in States : Receives(s) /\ s # "connected"
  BY DEF OnBadState, States
<1>2. UNCHANGED <<handler, rpc, since, wifi, badWifiMessage, closes, stops, loop>>
  BY <1>1 DEF OnBadState, Receives, handling, network, delayed
<1>3. /\ loop = "receive" /\ states # <<>>
      /\ states' = <<>> => ~ConnectedLast
      /\ states' # <<>> => (ConnectedLast' <=> ConnectedLast)
      /\ ConnectedWaits' => ConnectedWaits
  BY <1>1, ReceivesEvent
<1>4. \/ wireless_stale = "nil" /\ wireless_stale' = "running" /\ staleLeft' = StaleDelay
      \/ wireless_stale # "nil" /\ UNCHANGED <<wireless_stale, staleLeft>>
  BY DEF OnBadState
<1>5. HandlerLeft' = HandlerLeft /\ (Unsaid' <=> Unsaid)
  BY <1>2, <1>4, TimeTypes DEF HandlerLeft, Unsaid
<1>6. LoopLeft' <= LoopLeft
  BY <1>2, <1>3, <1>5, TimeTypes DEF LoopLeft, OneRpc
<1>7. LoopTimer'
  BY <1>2, <1>3 DEF LoopTimer
<1>8. LastEvent'
  BY <1>2, <1>3, <1>4 DEF TimeInv, LastEvent
<1>9. Awaited' => Awaited
  BY <1>3, <1>4 DEF Awaited
<1>10. QueueOnTime'
  BY <1>2, <1>6, <1>9, QueueStays DEF TimeInv
<1>11. TimerOnTime'
  <2>1. CASE wireless_stale = "nil"
    <3>1. since + LoopLeft <= 3 * RpcDelay
      BY <1>3, <2>1 DEF TimeInv, QueueOnTime, Awaited
    <3>2. staleLeft' = StaleDelay /\ since' = since
      BY <1>2, <1>4, <2>1
    <3> QED
      BY <3>1, <3>2, TimeTypes DEF TimerOnTime
  <2>2. CASE wireless_stale # "nil"
    BY <1>2, <1>4, <2>2 DEF TimeInv, TimerOnTime
  <2> QED
    BY <2>1, <2>2
<1>12. HandlerOnTime' /\ DelayedOnTime' /\ LoopOnTime'
  BY <1>2, <1>5 DEF TimeInv, HandlerOnTime, DelayedOnTime, LoopOnTime
<1>13. ConnectedIsNew'
  <2>1. ~(StaleDelay < StaleDelay)
    BY TimeTypes
  <2> QED
    BY <1>2, <1>3, <1>4, <2>1 DEF TimeInv, ConnectedIsNew
<1> QED
  BY <1>7, <1>8, <1>10, <1>11, <1>12, <1>13 DEF TimeInv

(* EnableControl returns.                                                  *)
LEMMA ControlOnTime ==
  ASSUME TypeOK, TypeOK', TimeInv, ControlEnabled
  PROVE  TimeInv'
<1>1. /\ loop = "control" /\ loop' = "test"
      /\ UNCHANGED <<handler, since, wifi, badWifiMessage, closes, stops, states, wireless_stale,
                     staleLeft>>
  BY DEF ControlEnabled, network, flags, delayed
<1>2. rpc'["handler"] = rpc["handler"]
  BY DEF ControlEnabled, TypeOK
<1>3. HandlerLeft' = HandlerLeft /\ (Unsaid' <=> Unsaid)
  BY <1>1, <1>2 DEF HandlerLeft, Unsaid
<1>4. wireless_stale = "nil" /\ ~(badWifiMessage /\ Unsaid)
  BY <1>1 DEF TimeInv, LoopTimer
<1>5. LoopLeft' <= LoopLeft
  <2>1. LoopLeft' = OneRpc(badWifiMessage) + OneRpc(Unsaid)
    BY <1>1, <1>3, <1>4 DEF LoopLeft, OneRpc
  <2>2. LoopLeft = RpcDelay - rpc["loop"] + OneRpc(badWifiMessage \/ Unsaid)
    BY <1>1 DEF LoopLeft
  <2>3. OneRpc(badWifiMessage) + OneRpc(Unsaid) = OneRpc(badWifiMessage \/ Unsaid)
    BY <1>4, TimeTypes DEF OneRpc
  <2> QED
    BY <2>1, <2>2, <2>3, TimeTypes DEF OneRpc
<1>6. LoopTimer' /\ LastEvent'
  BY <1>1 DEF TimeInv, LoopTimer, LastEvent, ConnectedLast
<1>7. QueueOnTime'
  <2>1. Awaited' => Awaited
    BY <1>1 DEF Awaited, ConnectedWaits
  <2> QED
    BY <1>1, <1>5, <2>1, QueueStays DEF TimeInv
<1>8. TimerOnTime' /\ HandlerOnTime' /\ DelayedOnTime' /\ ConnectedIsNew'
  BY <1>1, <1>3, <1>4 DEF TimeInv, TimerOnTime, HandlerOnTime, DelayedOnTime, ConnectedIsNew
<1>9. LoopOnTime'
  <2>1. since + (RpcDelay - rpc["loop"]) <= 3 * RpcDelay
    BY <1>1 DEF TimeInv, LoopOnTime
  <2>2. since <= 3 * RpcDelay
    BY <2>1, TimeTypes
  <2> QED
    BY <1>1, <2>2 DEF LoopOnTime
<1> QED
  BY <1>6, <1>7, <1>8, <1>9 DEF TimeInv

(* The loop looks at the flag (main.go:239), and starts the delayed calls: *)
(* they have the full delay left, counted from now.                        *)
LEMMA ServingOnTime ==
  ASSUME TypeOK, TypeOK', TimeInv, TestsServing \/ ClosesPairing
  PROVE  TimeInv'
<1>1. /\ loop \in {"test", "clear"} /\ loop' \in {"clear", "receive"}
      /\ closes' \subseteq closes \cup {CloseDelay} /\ stops' \subseteq stops \cup {StopDelay}
      /\ UNCHANGED <<handler, rpc, since, wifi, badWifiMessage, states, wireless_stale, staleLeft>>
  BY DEF TestsServing, ClosesPairing, ClosesAfter, StopIfWanted, network, flags, delayed, handling
<1>2. HandlerLeft' = HandlerLeft /\ (Unsaid' <=> Unsaid)
  BY <1>1 DEF HandlerLeft, Unsaid
<1>3. wireless_stale = "nil" /\ since <= 3 * RpcDelay
  BY <1>1 DEF TimeInv, LoopTimer, LoopOnTime
<1>4. LoopLeft' = LoopLeft
  BY <1>1, <1>2 DEF LoopLeft, OneRpc
<1>5. LoopTimer' /\ LastEvent'
  BY <1>1, <1>3 DEF TimeInv, LoopTimer, LastEvent, ConnectedLast
<1>6. QueueOnTime' /\ ConnectedIsNew' /\ TimerOnTime'
  BY <1>1, <1>4 DEF TimeInv, QueueOnTime, Awaited, ConnectedIsNew, ConnectedWaits, TimerOnTime
<1>7. HandlerOnTime' /\ LoopOnTime'
  BY <1>1, <1>2, <1>3 DEF TimeInv, HandlerOnTime, LoopOnTime
<1>8. DelayedOnTime'
  <2>1. \A c \in closes' : since + c <= 3 * RpcDelay + CloseDelay
    BY <1>1, <1>3, TimeTypes DEF TimeInv, DelayedOnTime
  <2>2. \A c \in stops' : since + c <= 3 * RpcDelay + StopDelay
    BY <1>1, <1>3, TimeTypes DEF TimeInv, DelayedOnTime
  <2> QED
    BY <1>1, <2>1, <2>2 DEF DelayedOnTime
<1> QED
  BY <1>5, <1>6, <1>7, <1>8 DEF TimeInv

(* The timer fires: the RPCs of its handler are counted from its start.    *)
LEMMA StaleOnTime ==
  ASSUME TypeOK, TypeOK', TimeInv, StaleFires
  PROVE  TimeInv'
<1>1. /\ wireless_stale = "running" /\ staleLeft = 0 /\ handler = "idle"
      /\ wireless_stale' = "fired" /\ handler' = "check"
      /\ UNCHANGED <<since, wifi, badWifiMessage, closes, stops, states, loop, staleLeft, rpc>>
  BY DEF StaleFires, network, flags, delayed
<1>2. loop = "receive"
  BY <1>1 DEF TimeInv, LoopTimer
<1>3. LoopTimer' /\ LastEvent'
  BY <1>1, <1>2 DEF TimeInv, LoopTimer, LastEvent, ConnectedLast
<1>4. ConnectedIsNew' /\ DelayedOnTime' /\ TimerOnTime' /\ LoopOnTime'
  BY <1>1 DEF TimeInv, ConnectedIsNew, ConnectedWaits, DelayedOnTime, TimerOnTime, LoopOnTime
<1>5. HandlerOnTime'
  <2>1. since + staleLeft <= 3 * RpcDelay + StaleDelay
    BY <1>1 DEF TimeInv, TimerOnTime
  <2>2. HandlerLeft' = 2 * RpcDelay /\ since' = since
    BY <1>1 DEF HandlerLeft
  <2> QED
    BY <1>1, <2>1, <2>2, TimeTypes DEF HandlerOnTime
<1>6. ASSUME Awaited' PROVE since' + LoopLeft' <= 3 * RpcDelay
  <2>1. since' = 0
    BY <1>1, <1>6, TimeTypes DEF TimeInv, ConnectedIsNew, Awaited, ConnectedWaits
  <2>2. LoopLeft' <= 2 * RpcDelay /\ LoopLeft' \in Nat
    BY <1>1, <1>2, TimeTypes DEF LoopLeft, OneRpc
  <2> QED
    BY <2>1, <2>2, TimeTypes
<1> QED
  BY <1>3, <1>4, <1>5, <1>6 DEF TimeInv, QueueOnTime

(* A step of the handler takes no longer than was set aside for it.        *)
LEMMA HandlerStepOnTime ==
  ASSUME TypeOK, TypeOK', TimeInv, handler # "idle", NEW h, HandlerGoesTo(h),
         HandlerLeft' <= HandlerLeft, h = "idle" => HandlerLeft' = 0,
         Unsaid' => Unsaid,
         \/ badWifiMessage' = badWifiMessage
         \/ Unsaid /\ ~Unsaid'
  PROVE  TimeInv'
<1>1. /\ handler' = h /\ loop' = IF h = "idle" /\ loop = "startup" THEN "receive" ELSE loop
      /\ UNCHANGED <<closes, stops, since, wifi, states, wireless_stale, staleLeft>>
  BY DEF HandlerGoesTo, delayed, network
<1>2. rpc'["loop"] = rpc["loop"]
  BY DEF HandlerGoesTo, TypeOK
<1>3. badWifiMessage \in BOOLEAN /\ badWifiMessage' \in BOOLEAN
  BY DEF TypeOK
<1>4. LoopTimer'
  BY <1>1 DEF TimeInv, LoopTimer
<1>5. LastEvent'
  BY <1>1 DEF TimeInv, LastEvent, ConnectedLast
<1>6. ConnectedIsNew' /\ DelayedOnTime' /\ TimerOnTime' /\ LoopOnTime'
  BY <1>1, <1>2 DEF TimeInv, ConnectedIsNew, ConnectedWaits, DelayedOnTime, TimerOnTime, LoopOnTime
<1>7. HandlerOnTime'
  <2>1. since + HandlerLeft <= 5 * RpcDelay + StaleDelay
    BY DEF TimeInv, HandlerOnTime
  <2>2. HandlerLeft' \in Nat /\ HandlerLeft' <= HandlerLeft /\ since' = since
    BY <1>1, HandlerLeftStaysNatural
  <2> QED
    BY <2>1, <2>2, TimeTypes DEF HandlerOnTime
<1>8. LoopLeft' <= LoopLeft
  <2>1. OneRpc(Unsaid') + OneRpc(badWifiMessage') <= OneRpc(Unsaid) + OneRpc(badWifiMessage)
    BY <1>3, TimeTypes DEF OneRpc
  <2>2. OneRpc(badWifiMessage' \/ Unsaid') <= OneRpc(badWifiMessage \/ Unsaid)
    BY <1>3, TimeTypes DEF OneRpc
  <2>3. CASE loop \in {"receive", "test", "clear"}
    <3>1. LoopLeft = OneRpc(badWifiMessage) + OneRpc(Unsaid)
      BY <2>3 DEF LoopLeft
    <3>2. LoopLeft' = OneRpc(badWifiMessage') + OneRpc(Unsaid')
      BY <1>1, <2>3 DEF LoopLeft, OneRpc
    <3> QED
      BY <2>1, <3>1, <3>2, TimeTypes DEF OneRpc
  <2>4. CASE loop = "control"
    <3>1. LoopLeft = RpcDelay - rpc["loop"] + OneRpc(badWifiMessage \/ Unsaid)
      BY <2>4 DEF LoopLeft
    <3>2. LoopLeft' = RpcDelay - rpc["loop"] + OneRpc(badWifiMessage' \/ Unsaid')
      BY <1>1, <1>2, <2>4 DEF LoopLeft, OneRpc
    <3> QED
      BY <2>2, <3>1, <3>2, TimeTypes DEF OneRpc
  <2>5. CASE loop = "startup" /\ h # "idle"
    <3>1. LoopLeft = HandlerLeft + RpcDelay /\ LoopLeft' = HandlerLeft' + RpcDelay
      BY <1>1, <2>5 DEF LoopLeft
    <3> QED
      BY <3>1, TimeTypes, HandlerLeftStaysNatural
  <2>6. CASE loop = "startup" /\ h = "idle"
    <3>1. LoopLeft = HandlerLeft + RpcDelay
      BY <2>6 DEF LoopLeft
    <3>2. LoopLeft' = OneRpc(badWifiMessage') + OneRpc(FALSE)
      BY <1>1, <2>6 DEF LoopLeft, OneRpc, Unsaid
    <3> QED
      BY <3>1, <3>2, TimeTypes DEF OneRpc
  <2> QED
    BY <2>3, <2>4, <2>5, <2>6 DEF TypeOK
<1>9. Awaited' => Awaited
  BY <1>1 DEF Awaited, ConnectedWaits
<1>10. QueueOnTime'
  BY <1>1, <1>8, <1>9, QueueStays DEF TimeInv
<1> QED
  BY <1>4, <1>5, <1>6, <1>7, <1>10 DEF TimeInv

LEMMA HandlerOnItsWay ==
  ASSUME TypeOK, TypeOK', TimeInv,
         \/ HandlerChecks \/ HandlerDisplays \/ HandlerSetsMessage
         \/ HandlerLaunches \/ HandlerStartsAP
  PROVE  TimeInv'
<1>1. CASE HandlerChecks
  <2>1. PICK h \in {"idle", "launch", "control"} : HandlerGoesTo(h)
    BY <1>1 DEF HandlerChecks
  <2>2. handler = "check" /\ handler' = h /\ badWifiMessage' = badWifiMessage
    BY <1>1, <2>1 DEF HandlerChecks, HandlerGoesTo
  <2>3. rpc'["handler"] = 0
    BY <2>1 DEF HandlerGoesTo, TypeOK
  <2>4. HandlerLeft' <= HandlerLeft /\ (h = "idle" => HandlerLeft' = 0)
    BY <2>2, <2>3, TimeTypes DEF HandlerLeft
  <2> QED
    BY <2>1, <2>2, <2>4, HandlerStepOnTime DEF Unsaid
<1>2. CASE HandlerDisplays
  <2>1. PICK h \in {"icon", "message"} :
          /\ HandlerGoesTo(h)
          /\ handler = IF h = "icon" THEN "control" ELSE "icon"
    BY <1>2 DEF HandlerDisplays
  <2>2. handler' = h /\ badWifiMessage' = badWifiMessage
    BY <1>2, <2>1 DEF HandlerDisplays, HandlerGoesTo, flags
  <2>3. rpc'["handler"] = 0
    BY <2>1 DEF HandlerGoesTo, TypeOK
  <2>4. HandlerLeft' <= HandlerLeft /\ h # "idle"
    BY <2>1, <2>2, <2>3, TimeTypes DEF HandlerLeft
  <2> QED
    BY <2>1, <2>2, <2>4, HandlerStepOnTime DEF Unsaid
<1>3. CASE HandlerSetsMessage
  <2>1. HandlerGoesTo("launch") /\ handler = "message" /\ handler' = "launch"
    BY <1>3 DEF HandlerSetsMessage, HandlerGoesTo
  <2>2. HandlerLeft' <= HandlerLeft
    BY <2>1 DEF HandlerLeft
  <2> QED
    BY <2>1, <2>2, HandlerStepOnTime DEF Unsaid
<1>4. CASE HandlerLaunches \/ HandlerStartsAP
  <2>1. PICK h \in {"idle", "stop", "start"} : HandlerGoesTo(h)
    BY <1>4 DEF HandlerLaunches, HandlerStartsAP
  <2>2. /\ handler \in {"launch", "stop", "start"} /\ handler' = h
        /\ badWifiMessage' = badWifiMessage
    BY <1>4, <2>1 DEF HandlerLaunches, HandlerStartsAP, HandlerGoesTo, flags
  <2>3. HandlerLeft' <= HandlerLeft /\ HandlerLeft' = 0
    BY <2>2 DEF HandlerLeft
  <2> QED
    BY <2>1, <2>2, <2>3, HandlerStepOnTime DEF Unsaid
<1> QED
  BY <1>1, <1>2, <1>3, <1>4

(* The services take no part in the timing, but for delayed calls that end. *)
LEMMA ServicesOnTime ==
  ASSUME TypeOK, TypeOK', TimeInv,
         UNCHANGED <<loopVars, handling, badWifiMessage, since, wifi>>,
         closes' \subseteq closes, stops' \subseteq stops
  PROVE  TimeInv'
<1>1. UNCHANGED <<states, loop, wireless_stale, staleLeft, handler, rpc, badWifiMessage, since,
                  wifi>>
  BY DEF loopVars, handling
<1>2. HandlerLeft' = HandlerLeft /\ (Unsaid' <=> Unsaid)
  BY <1>1 DEF HandlerLeft, Unsaid
<1>3. LoopLeft' = LoopLeft
  BY <1>1, <1>2 DEF LoopLeft, OneRpc
<1>4. LoopTimer' /\ LastEvent'
  BY <1>1, <1>2 DEF TimeInv, LoopTimer, LastEvent, ConnectedLast
<1>5. QueueOnTime' /\ ConnectedIsNew' /\ TimerOnTime'
  BY <1>1, <1>3 DEF TimeInv, QueueOnTime, Awaited, ConnectedIsNew, ConnectedWaits, TimerOnTime
<1>6. HandlerOnTime' /\ DelayedOnTime' /\ LoopOnTime'
  BY <1>1, <1>2 DEF TimeInv, HandlerOnTime, DelayedOnTime, LoopOnTime
<1> QED
  BY <1>4, <1>5, <1>6 DEF TimeInv

(* The link changes: time is counted anew, and every bound has the room.   *)
LEMMA LinkChangesOnTime ==
  ASSUME TypeOK, TypeOK', TimeInv, LinkUp \/ LinkDown
  PROVE  TimeInv'
<1>1. PICK s \in {"connected", "disconnected"} :
        Emits(s) /\ since' = 0 /\ (wifi' = "up" <=> s = "connected")
  BY DEF LinkUp, LinkDown
<1>2. UNCHANGED <<handler, rpc, badWifiMessage, closes, stops, loop, wireless_stale, staleLeft>>
  BY <1>1 DEF Emits, handling, flags, delayed
<1>3. states' # <<>> /\ (ConnectedLast' <=> s = "connected")
  BY <1>1, EmitsEvent DEF States
<1>4. HandlerLeft' = HandlerLeft /\ (Unsaid' <=> Unsaid)
  BY <1>2 DEF HandlerLeft, Unsaid
<1>5. LoopLeft' = LoopLeft
  BY <1>2, <1>4 DEF LoopLeft, OneRpc
<1>6. LoopTimer' /\ LastEvent'
  BY <1>1, <1>2, <1>3, <1>4 DEF TimeInv, LoopTimer, LastEvent
<1>7. QueueOnTime' /\ ConnectedIsNew'
  BY <1>1, <1>5, TimeTypes DEF QueueOnTime, ConnectedIsNew
<1>8. TimerOnTime' /\ HandlerOnTime'
  BY <1>1, <1>2, <1>4, TimeTypes DEF TimerOnTime, HandlerOnTime
<1>9. DelayedOnTime'
  <2>1. ASSUME NEW c \in closes PROVE 0 + c <= 3 * RpcDelay + CloseDelay
    BY TimeTypes
  <2>2. ASSUME NEW c \in stops PROVE 0 + c <= 3 * RpcDelay + StopDelay
    BY TimeTypes
  <2> QED
    BY <1>1, <1>2, <2>1, <2>2 DEF DelayedOnTime
<1>10. LoopOnTime'
  BY <1>1, <1>2, TimeTypes DEF LoopOnTime
<1> QED
  BY <1>6, <1>7, <1>8, <1>9, <1>10 DEF TimeInv

(* A refused key is one more bad state; if it is the first to wait, there  *)
(* is a timer already.                                                     *)
LEMMA KeyRefusedOnTime ==
  ASSUME TypeOK, TypeOK', TimeInv, KeyRefused
  PROVE  TimeInv'
<1>1. /\ Emits("invalid_key") /\ wifi = "down"
      /\ UNCHANGED <<handler, rpc, badWifiMessage, closes, stops, loop, wireless_stale, staleLeft,
                     since, wifi>>
  BY DEF KeyRefused, Emits, handling, flags, delayed, network
<1>2. states' # <<>> /\ ~ConnectedLast' /\ (ConnectedWaits' => ConnectedWaits)
  BY <1>1, EmitsEvent DEF States
<1>3. HandlerLeft' = HandlerLeft /\ (Unsaid' <=> Unsaid)
  BY <1>1 DEF HandlerLeft, Unsaid
<1>4. LoopLeft' = LoopLeft
  BY <1>1, <1>3 DEF LoopLeft, OneRpc
<1>5. Awaited' => Awaited
  BY <1>1, <1>2 DEF TimeInv, LastEvent, Awaited
<1>6. LoopTimer' /\ LastEvent'
  BY <1>1, <1>2, <1>3 DEF TimeInv, LoopTimer, LastEvent
<1>7. QueueOnTime' /\ ConnectedIsNew' /\ TimerOnTime'
  BY <1>1, <1>2, <1>4, <1>5 DEF TimeInv, QueueOnTime, ConnectedIsNew, TimerOnTime
<1>8. HandlerOnTime' /\ DelayedOnTime' /\ LoopOnTime'
  BY <1>1, <1>3 DEF TimeInv, HandlerOnTime, DelayedOnTime, LoopOnTime
<1> QED
  BY <1>6, <1>7, <1>8 DEF TimeInv

(* A period ends: everything that bounds `since' has a period less left,   *)
(* for time waits for whatever can run.                                    *)
LEMMA PeriodOnTime ==
  ASSUME TypeOK, TypeOK', TimeInv, PeriodEnds
  PROVE  TimeInv'
<1>1. UNCHANGED <<badWifiMessage, states, loop, wireless_stale, handler, wifi>>
  BY DEF PeriodEnds, flags
<1>2. since' \in Nat /\ since' <= since + 1
  BY TimeTypes DEF PeriodEnds
<1>3. (Unsaid' <=> Unsaid) /\ (ConnectedWaits' <=> ConnectedWaits)
  BY <1>1 DEF Unsaid, ConnectedWaits
<1>4. /\ rpc'["loop"] = IF loop = "control" THEN rpc["loop"] + 1 ELSE 0
      /\ rpc'["handler"] = IF handler \in {"control", "icon"} THEN rpc["handler"] + 1 ELSE 0
  BY DEF PeriodEnds
<1>5. handler # "idle" => handler \in {"control", "icon"}
  BY DEF PeriodEnds, GoroutineRuns, TypeOK
<1>6. handler # "idle" => HandlerLeft' + 1 = HandlerLeft
  BY <1>1, <1>4, <1>5, TimeTypes DEF HandlerLeft
<1>7. LoopTimer' /\ LastEvent'
  BY <1>1, <1>3 DEF TimeInv, LoopTimer, LastEvent, ConnectedLast
<1>8. Awaited' => Awaited
  BY <1>1, <1>3 DEF Awaited
<1>9. QueueOnTime'
  <2> SUFFICES ASSUME Awaited PROVE since' + LoopLeft' <= 3 * RpcDelay
    BY <1>8 DEF QueueOnTime
  <2>1. since + LoopLeft <= 3 * RpcDelay
    BY DEF TimeInv, QueueOnTime
  <2>2. states # <<>>
    BY EmptySeq DEF Awaited, ConnectedWaits
  <2>3. loop \notin {"receive", "test", "clear"}
    BY <2>2 DEF PeriodEnds, GoroutineRuns
  <2>4. LoopLeft' + 1 = LoopLeft
    <3>1. CASE loop = "startup"
      <4>1. LoopLeft = HandlerLeft + RpcDelay /\ LoopLeft' = HandlerLeft' + RpcDelay
        BY <1>1, <3>1 DEF LoopLeft
      <4>2. HandlerLeft' + 1 = HandlerLeft
        BY <1>6, <3>1 DEF TimeInv, LoopTimer
      <4> QED
        BY <4>1, <4>2, TimeTypes, HandlerLeftStaysNatural
    <3>2. CASE loop = "control"
      <4>1. LoopLeft = RpcDelay - rpc["loop"] + OneRpc(badWifiMessage \/ Unsaid)
        BY <3>2 DEF LoopLeft
      <4>2. LoopLeft' = RpcDelay - (rpc["loop"] + 1) + OneRpc(badWifiMessage \/ Unsaid)
        BY <1>1, <1>3, <1>4, <3>2 DEF LoopLeft, OneRpc
      <4> QED
        BY <4>1, <4>2, TimeTypes DEF OneRpc
    <3> QED
      BY <2>3, <3>1, <3>2 DEF TypeOK
  <2>5. LoopLeft' \in Nat
    BY LoopLeftStaysNatural
  <2> QED
    BY <1>2, <2>1, <2>4, <2>5, TimeTypes
<1>10. ConnectedIsNew'
  <2>1. wireless_stale # "nil" => ~ConnectedWaits
    BY EmptySeq DEF PeriodEnds, GoroutineRuns, TimeInv, LoopTimer, ConnectedWaits
  <2> QED
    BY <1>1, <1>3, <2>1 DEF ConnectedIsNew
<1>11. TimerOnTime'
  <2> SUFFICES ASSUME wireless_stale = "running"
               PROVE  since' + staleLeft' <= 3 * RpcDelay + StaleDelay
    BY <1>1 DEF TimerOnTime
  <2>1. since + staleLeft <= 3 * RpcDelay + StaleDelay
    BY DEF TimeInv, TimerOnTime
  <2>2. staleLeft' + 1 = staleLeft /\ staleLeft' \in Nat
    <3>1. staleLeft # 0
      BY DEF PeriodEnds, GoroutineRuns
    <3>2. staleLeft' = IF staleLeft > 0 THEN staleLeft - 1 ELSE 0
      BY DEF PeriodEnds
    <3> QED
      BY <3>1, <3>2, TimeTypes
  <2> QED
    BY <1>2, <2>1, <2>2, TimeTypes
<1>12. HandlerOnTime'
  <2> SUFFICES ASSUME handler # "idle"
               PROVE  since' + HandlerLeft' <= 5 * RpcDelay + StaleDelay
    BY <1>1 DEF HandlerOnTime
  <2>1. since + HandlerLeft <= 5 * RpcDelay + StaleDelay
    BY DEF TimeInv, HandlerOnTime
  <2> QED
    BY <1>2, <1>6, <2>1, TimeTypes, HandlerLeftStaysNatural
<1>13. DelayedOnTime'
  <2>1. ASSUME NEW c \in closes' PROVE since' + c <= 3 * RpcDelay + CloseDelay
    <3>1. PICK d \in closes : c = d - 1
      BY DEF PeriodEnds, OnePeriod
    <3>2. since + d <= 3 * RpcDelay + CloseDelay
      BY <3>1 DEF TimeInv, DelayedOnTime
    <3> QED
      BY <1>2, <3>1, <3>2, TimeTypes
  <2>2. ASSUME NEW c \in stops' PROVE since' + c <= 3 * RpcDelay + StopDelay
    <3>1. PICK d \in stops : c = d - 1
      BY DEF PeriodEnds, OnePeriod
    <3>2. since + d <= 3 * RpcDelay + StopDelay
      BY <3>1 DEF TimeInv, DelayedOnTime
    <3> QED
      BY <1>2, <3>1, <3>2, TimeTypes
  <2> QED
    BY <2>1, <2>2 DEF DelayedOnTime
<1>14. LoopOnTime'
  <2>1. loop \notin {"test", "clear"}
    BY DEF PeriodEnds, GoroutineRuns
  <2>2. CASE loop = "control"
    <3>1. since + (RpcDelay - rpc["loop"]) <= 3 * RpcDelay
      BY <2>2 DEF TimeInv, LoopOnTime
    <3>2. rpc'["loop"] = rpc["loop"] + 1
      BY <1>4, <2>2
    <3>3. since' + (RpcDelay - rpc'["loop"]) <= 3 * RpcDelay
      BY <1>2, <3>1, <3>2, TimeTypes
    <3> QED
      BY <1>1, <2>2, <3>3 DEF LoopOnTime
  <2> QED
    BY <1>1, <2>1, <2>2 DEF LoopOnTime
<1> QED
  BY <1>7, <1>9, <1>10, <1>11, <1>12, <1>13, <1>14 DEF TimeInv

LEMMA InitOnTime == Init => TimeInv
<1> SUFFICES ASSUME Init PROVE TimeInv
  OBVIOUS
<1>1. TypeOK
  BY InitTypes
<1>2. /\ states = <<"disconnected">> /\ wireless_stale = "nil" /\ wifi = "down" /\ since = 0
      /\ closes = {} /\ stops = {} /\ badWifiMessage = FALSE
      /\ \/ loop = "receive" /\ handler = "idle"
         \/ loop = "startup" /\ handler = "check"
  BY DEF Init
<1>3. states # <<>> /\ ~ConnectedLast /\ ~ConnectedWaits
  BY <1>2 DEF ConnectedLast, ConnectedWaits
<1>4. LoopTimer /\ LastEvent
  BY <1>2, <1>3 DEF LoopTimer, LastEvent
<1>5. QueueOnTime /\ HandlerOnTime
  BY <1>1, <1>2, TimeTypes DEF QueueOnTime, HandlerOnTime
<1>6. ConnectedIsNew /\ TimerOnTime /\ DelayedOnTime /\ LoopOnTime
  BY <1>2 DEF ConnectedIsNew, TimerOnTime, DelayedOnTime, LoopOnTime
<1> QED
  BY <1>4, <1>5, <1>6 DEF TimeInv

LEMMA NextOnTime == TypeOK /\ TimeInv /\ [Next]_vars => TimeInv'
<1> SUFFICES ASSUME TypeOK, TimeInv, [Next]_vars PROVE TimeInv'
  OBVIOUS
<1> TypeOK'
  BY NextTypes
<1>1. CASE OnConnected \/ ControlEnabled \/ TestsServing \/ ClosesPairing
  BY <1>1, ConnectedOnTime, ControlOnTime, ServingOnTime
<1>1a. CASE OnBadState \/ StaleFires
  BY <1>1a, BadStateOnTime, StaleOnTime
<1>2. CASE \/ HandlerChecks \/ HandlerDisplays \/ HandlerSetsMessage
           \/ HandlerLaunches \/ HandlerStartsAP
  BY <1>2, HandlerOnItsWay
<1>3. CASE Advertises \/ AdvertisingFails \/ ServingEnds \/ ClientClosesServer
  BY <1>3, ServicesOnTime
  DEF Advertises, AdvertisingFails, ServingEnds, ClientClosesServer, flags, delayed, network
<1>4. CASE DelayedClose \/ DelayedStop
  BY <1>4, ServicesOnTime DEF DelayedClose, DelayedStop, flags, network
<1>5. CASE LinkUp \/ LinkDown \/ KeyRefused
  BY <1>5, LinkChangesOnTime, KeyRefusedOnTime
<1>6. CASE NetworksChange \/ UNCHANGED vars
  BY <1>6, ServicesOnTime DEF NetworksChange, vars, flags, delayed, network
<1>7. CASE PeriodEnds
  BY <1>7, PeriodOnTime
<1> QED
  BY <1>1, <1>1a, <1>2, <1>3, <1>4, <1>5, <1>6, <1>7 DEF Next

-----------------------------------------------------------------------------
(* A timer outlasts the delayed calls: Connected clears the timer before   *)
(* it starts them, and a timer started later runs longer than they wait.   *)
Ripe == wireless_stale = "running" /\ staleLeft = 0

DelayedBeforeTimer ==
  /\ wireless_stale = "running" => \A c \in closes \cup stops : c < staleLeft
  /\ wireless_stale = "fired" => closes = {} /\ stops = {}
  /\ ~clients /\ (Ripe \/ wireless_stale = "fired") => gatt # "closed"

LEMMA InitBeforeTimer == Init => DelayedBeforeTimer
  BY DEF Init, DelayedBeforeTimer, Ripe

LEMMA FewerDelayedCalls ==
  ASSUME DelayedBeforeTimer, UNCHANGED <<wireless_stale, staleLeft, clients>>,
         closes' \subseteq closes, stops' \subseteq stops,
         ~clients /\ (Ripe \/ wireless_stale = "fired") => gatt' = gatt \/ gatt' # "closed"
  PROVE  DelayedBeforeTimer'
<1>1. wireless_stale' = "running" => \A c \in closes' \cup stops' : c < staleLeft'
  BY DEF DelayedBeforeTimer
<1>2. wireless_stale' = "fired" => closes' = {} /\ stops' = {}
  BY DEF DelayedBeforeTimer
<1>3. ~clients' /\ (Ripe' \/ wireless_stale' = "fired") => gatt' # "closed"
  BY DEF DelayedBeforeTimer, Ripe
<1> QED
  BY <1>1, <1>2, <1>3 DEF DelayedBeforeTimer

LEMMA NextBeforeTimer ==
  TypeOK /\ TypeOK' /\ LoopTimer /\ DelayedBeforeTimer /\ [Next]_vars => DelayedBeforeTimer'
<1> SUFFICES ASSUME TypeOK, TypeOK', LoopTimer, DelayedBeforeTimer, [Next]_vars
             PROVE  DelayedBeforeTimer'
  OBVIOUS
<1> USE DEF handling, flags, delayed, services, network, config, loopVars
<1>1. CASE OnConnected
  <2>1. wireless_stale' = "nil"
    BY <1>1 DEF OnConnected, Connected
  <2> QED
    BY <2>1 DEF DelayedBeforeTimer, Ripe
<1>2. CASE OnBadState
  <2>1. UNCHANGED <<closes, stops, gatt, clients>>
    BY <1>2 DEF OnBadState, Receives
  <2>2. CASE wireless_stale # "nil"
    <3>1. UNCHANGED <<wireless_stale, staleLeft>>
      BY <1>2, <2>2 DEF OnBadState
    <3> QED
      BY <2>1, <3>1, FewerDelayedCalls
  <2>3. CASE wireless_stale = "nil"
    <3>1. wireless_stale' = "running" /\ staleLeft' = StaleDelay
      BY <1>2, <2>3 DEF OnBadState
    <3>2. \A c \in closes \cup stops : c < StaleDelay
      BY TimeTypes, PairingAssumption
    <3>3. StaleDelay # 0
      BY PairingAssumption
    <3> QED
      BY <2>1, <3>1, <3>2, <3>3 DEF DelayedBeforeTimer, Ripe
  <2> QED
    BY <2>2, <2>3
<1>3. CASE StaleFires
  <2>1. /\ Ripe /\ wireless_stale' = "fired"
        /\ UNCHANGED <<closes, stops, gatt, clients>>
    BY <1>3 DEF StaleFires, Ripe
  <2>2. ASSUME NEW c \in closes \cup stops PROVE FALSE
    <3>1. c < staleLeft /\ staleLeft = 0
      BY <2>1, <2>2 DEF DelayedBeforeTimer, Ripe
    <3>2. c \in Nat
      BY <2>2, TimeTypes
    <3> QED
      BY <3>1, <3>2
  <2> QED
    BY <2>1, <2>2 DEF DelayedBeforeTimer
<1>3a. CASE ClosesPairing
  <2>1. wireless_stale' = "nil"
    BY <1>3a DEF ClosesPairing, ClosesAfter, LoopTimer
  <2> QED
    BY <2>1 DEF DelayedBeforeTimer, Ripe
<1>4. CASE \/ ControlEnabled \/ TestsServing
           \/ HandlerChecks \/ HandlerDisplays \/ HandlerSetsMessage
  BY <1>4, FewerDelayedCalls
  DEF ControlEnabled, TestsServing, HandlerChecks, HandlerDisplays, HandlerSetsMessage,
      HandlerGoesTo
<1>5. CASE HandlerLaunches \/ HandlerStartsAP
  BY <1>5, FewerDelayedCalls DEF HandlerLaunches, HandlerStartsAP, HandlerGoesTo
<1>6. CASE Advertises \/ AdvertisingFails \/ ServingEnds \/ ClientClosesServer
  BY <1>6, FewerDelayedCalls
  DEF Advertises, AdvertisingFails, ServingEnds, ClientClosesServer
<1>7. CASE DelayedClose
  <2>1. UNCHANGED <<wireless_stale, staleLeft, clients, stops>>
    BY <1>7 DEF DelayedClose
  <2>2. closes' \subseteq closes /\ 0 \in closes
    BY <1>7 DEF DelayedClose
  <2>3. ~Ripe /\ wireless_stale # "fired"
    <3>1. ~(0 < 0)
      OBVIOUS
    <3> QED
      BY <2>2, <3>1 DEF DelayedBeforeTimer, Ripe
  <2> QED
    BY <2>1, <2>2, <2>3, FewerDelayedCalls
<1>8. CASE DelayedStop
  BY <1>8, FewerDelayedCalls DEF DelayedStop
<1>9. CASE LinkUp \/ LinkDown \/ KeyRefused \/ NetworksChange
  BY <1>9, FewerDelayedCalls DEF LinkUp, LinkDown, KeyRefused, NetworksChange, Emits
<1>10. CASE PeriodEnds
  <2>1. UNCHANGED <<wireless_stale, gatt, clients>> /\ gatt # "closed"
    BY <1>10 DEF PeriodEnds, GoroutineRuns
  <2>2. closes' = OnePeriod(closes) /\ stops' = OnePeriod(stops)
    BY <1>10 DEF PeriodEnds
  <2>3. ASSUME wireless_stale = "running", NEW c \in closes' \cup stops' PROVE c < staleLeft'
    <3>1. PICK d \in closes \cup stops : c = d - 1
      BY <2>2, <2>3 DEF OnePeriod
    <3>2. d < staleLeft /\ d \in Nat
      BY <2>3, <3>1, TimeTypes DEF DelayedBeforeTimer
    <3>3. staleLeft' = IF staleLeft > 0 THEN staleLeft - 1 ELSE 0
      BY <1>10 DEF PeriodEnds
    <3> QED
      BY <3>1, <3>2, <3>3, TimeTypes
  <2>4. wireless_stale = "fired" => closes' = {} /\ stops' = {}
    BY <2>2 DEF DelayedBeforeTimer, OnePeriod
  <2> QED
    BY <2>1, <2>3, <2>4 DEF DelayedBeforeTimer
<1>11. CASE UNCHANGED vars
  BY <1>11, FewerDelayedCalls DEF vars
<1> QED
  BY <1>1, <1>2, <1>3, <1>3a, <1>4, <1>5, <1>6, <1>7, <1>8, <1>9, <1>10, <1>11 DEF Next

-----------------------------------------------------------------------------
(* The loop is in the rest of Connected, after the timer is cleared.       *)
Closing == loop \in {"control", "test", "clear"}

(* Once the loop has received the last Connected there is no handler, the  *)
(* message is cleared and so, when the loop is done with it, is the flag;  *)
(* only a handler that this Connected overtook can leave something behind. *)
Quiet ==
  wifi = "up" /\ states = <<>> /\ overtaken # "last" =>
    handler = "idle" /\ ~badWifiMessage /\ (is_serving_pairer => Closing)

LEMMA NextQuiet == LastEvent' /\ TypeOK /\ Quiet /\ [Next]_vars => Quiet'
<1> SUFFICES ASSUME LastEvent', TypeOK, Quiet, [Next]_vars,
                    wifi' = "up", states' = <<>>, overtaken' # "last"
             PROVE  handler' = "idle" /\ ~badWifiMessage' /\ (is_serving_pairer' => Closing')
  BY DEF Quiet
<1> USE DEF handling, flags, delayed, services, network, config, loopVars
<1>0. wireless_stale' = "nil"
  BY DEF LastEvent
<1>1. CASE OnConnected
  BY <1>1 DEF OnConnected, Connected, Receives, Closing
<1>2. CASE OnBadState \/ StaleFires
  BY <1>0, <1>2 DEF OnBadState, StaleFires
<1>3. CASE HandlerChecks \/ HandlerDisplays \/ HandlerSetsMessage
  BY <1>3 DEF HandlerChecks, HandlerDisplays, HandlerSetsMessage, HandlerGoesTo, Quiet
<1>4. CASE HandlerLaunches \/ HandlerStartsAP
  BY <1>4 DEF HandlerLaunches, HandlerStartsAP, HandlerGoesTo, Quiet
<1>5. CASE ControlEnabled \/ TestsServing \/ ClosesPairing
  BY <1>5 DEF ControlEnabled, TestsServing, ClosesPairing, ClosesAfter, Quiet, Closing
<1>6. CASE Advertises \/ AdvertisingFails \/ ServingEnds
  BY <1>6 DEF Advertises, AdvertisingFails, ServingEnds, Quiet, Closing
<1>7. CASE DelayedClose \/ DelayedStop \/ ClientClosesServer
  BY <1>7 DEF DelayedClose, DelayedStop, ClientClosesServer, Quiet, Closing
<1>8. CASE LinkUp \/ LinkDown \/ KeyRefused
  <2>1. PICK s \in States : Emits(s)
    BY <1>8 DEF LinkUp, LinkDown, KeyRefused, States
  <2> QED
    BY <2>1, EmitsEvent
<1>9. CASE NetworksChange \/ PeriodEnds \/ UNCHANGED vars
  BY <1>9 DEF NetworksChange, PeriodEnds, vars, Quiet, Closing
<1> QED
  BY <1>1, <1>2, <1>3, <1>4, <1>5, <1>6, <1>7, <1>8, <1>9 DEF Next

-----------------------------------------------------------------------------
(* Unless Connected has overtaken a handler, none runs until the loop is   *)
(* done with it: there is no timer to start one.                           *)
Alone == overtaken = "never" /\ Closing => handler = "idle"

LEMMA NextAlone == LoopTimer /\ Alone /\ [Next]_vars => Alone'
<1> SUFFICES ASSUME LoopTimer, Alone, [Next]_vars, overtaken' = "never", Closing'
             PROVE  handler' = "idle"
  BY DEF Alone
<1> USE DEF handling, flags, delayed, services, network, config, loopVars
<1>1. CASE OnConnected
  BY <1>1 DEF OnConnected, Connected, Receives
<1>2. CASE OnBadState
  BY <1>2 DEF OnBadState, Receives, Closing
<1>3. CASE StaleFires
  BY <1>3 DEF StaleFires, LoopTimer, Closing
<1>4. CASE ControlEnabled \/ TestsServing \/ ClosesPairing
  BY <1>4 DEF ControlEnabled, TestsServing, ClosesPairing, ClosesAfter, Alone, Closing
<1>5. CASE HandlerChecks \/ HandlerDisplays \/ HandlerSetsMessage
  BY <1>5 DEF HandlerChecks, HandlerDisplays, HandlerSetsMessage, HandlerGoesTo, Alone, Closing
<1>6. CASE HandlerLaunches \/ HandlerStartsAP
  BY <1>6 DEF HandlerLaunches, HandlerStartsAP, HandlerGoesTo, Alone, Closing
<1>7. CASE \/ Advertises \/ AdvertisingFails \/ ServingEnds
           \/ DelayedClose \/ DelayedStop \/ ClientClosesServer
  BY <1>7 DEF Advertises, AdvertisingFails, ServingEnds, DelayedClose, DelayedStop,
     ClientClosesServer, Alone, Closing
<1>8. CASE LinkUp \/ LinkDown \/ KeyRefused
  BY <1>8 DEF LinkUp, LinkDown, KeyRefused, Emits, Alone, Closing
<1>9. CASE NetworksChange \/ PeriodEnds \/ UNCHANGED vars
  BY <1>9 DEF NetworksChange, PeriodEnds, vars, Alone, Closing
<1> QED
  BY <1>1, <1>2, <1>3, <1>4, <1>5, <1>6, <1>7, <1>8, <1>9 DEF Next

(* When Connected never overtakes the handler and no client closes the     *)
(* server, what the handler opened is owned: by the flag, which makes the  *)
(* next Connected close it, or by the delayed calls that close it.         *)
Calm == overtaken = "never" /\ ~clients
Preparing == handler \in {"control", "icon", "message", "launch", "stop", "start"}

ServerOwned == Calm /\ (gatt = "serving" \/ launching) => is_serving_pairer \/ closes # {}
AccessPointOwned == Calm /\ ~Always_Active /\ ap => is_serving_pairer \/ stops # {}
LaunchSucceeds == Calm /\ launching => gatt = "idle" /\ 0 \notin closes
PreparingSetsFlag == Calm /\ Preparing => is_serving_pairer
PreparingAlone ==
  Calm /\ Preparing /\ handler \notin {"stop", "start"} => gatt = "idle" /\ ~launching
HandlerUndelayed ==
  overtaken = "never" /\ handler # "idle" =>
    closes = {} /\ stops = {} /\ (~clients => gatt # "closed")
ClosingUnsets == Calm /\ (closes # {} \/ gatt = "closed") => ~is_serving_pairer

Owned ==
  /\ ServerOwned /\ AccessPointOwned /\ LaunchSucceeds /\ PreparingSetsFlag
  /\ PreparingAlone /\ HandlerUndelayed /\ ClosingUnsets

LEMMA InitOwned == Init => Owned
<1> SUFFICES ASSUME Init PROVE Owned
  OBVIOUS
<1>1. /\ gatt = "idle" /\ launching = FALSE /\ closes = {} /\ stops = {}
      /\ ap = Always_Active /\ handler \in {"idle", "check"}
  BY DEF Init
<1> QED
  BY <1>1 DEF Owned, ServerOwned, AccessPointOwned, LaunchSucceeds, PreparingSetsFlag,
     PreparingAlone, HandlerUndelayed, ClosingUnsets, Preparing

(* What Owned is about.                                                    *)
owners == <<overtaken, clients, Always_Active, is_serving_pairer, handler, closes, stops, gatt,
            launching, ap>>

LEMMA OwnedUnchanged == ASSUME Owned, UNCHANGED owners PROVE Owned'
  BY DEF owners, Owned, ServerOwned, AccessPointOwned, LaunchSucceeds, PreparingSetsFlag,
     PreparingAlone, HandlerUndelayed, ClosingUnsets, Preparing, Calm

(* Receiving Connected closes nothing yet; clearing the flag hands what    *)
(* the flag owned to the delayed calls (main.go:240-257).                  *)
LEMMA ConnectedOwned ==
  ASSUME TypeOK, Owned, OnConnected
  PROVE  Owned'
<1>1. UNCHANGED <<handler, closes, stops, gatt, launching, ap, clients, Always_Active,
                  is_serving_pairer>>
  BY DEF OnConnected, Connected, Receives, delayed, handling, services, network, config
<1>2. overtaken' = "never" => overtaken = "never"
  BY DEF OnConnected, Connected
<1>3. CASE overtaken' = overtaken
  BY <1>1, <1>3, OwnedUnchanged DEF owners
<1>4. CASE overtaken' # "never"
  BY <1>4 DEF Owned, ServerOwned, AccessPointOwned, LaunchSucceeds, PreparingSetsFlag,
     PreparingAlone, HandlerUndelayed, ClosingUnsets, Calm
<1> QED
  BY <1>2, <1>3, <1>4

LEMMA ClosingOwned ==
  ASSUME TypeOK, Alone, Owned, ClosesPairing
  PROVE  Owned'
<1>1. /\ loop = "clear" /\ is_serving_pairer' = FALSE
      /\ closes' = closes \cup {CloseDelay} /\ stops' = stops \cup StopIfWanted
      /\ UNCHANGED <<handler, gatt, launching, ap, clients, Always_Active, overtaken>>
  BY DEF ClosesPairing, ClosesAfter, handling, services, network, config
<1>2. CloseDelay # 0
  BY PairingAssumption
<1>3. overtaken' = "never" => overtaken = "never" /\ handler' = "idle"
  BY <1>1 DEF Alone, Closing
<1>4. ServerOwned'
  BY <1>1 DEF ServerOwned
<1>5. AccessPointOwned'
  BY <1>1 DEF AccessPointOwned, StopIfWanted
<1>6. LaunchSucceeds'
  BY <1>1, <1>2, <1>3 DEF Owned, LaunchSucceeds, Calm
<1>7. PreparingSetsFlag' /\ PreparingAlone' /\ HandlerUndelayed'
  BY <1>3 DEF PreparingSetsFlag, PreparingAlone, HandlerUndelayed, Calm, Preparing
<1>8. ClosingUnsets'
  BY <1>1 DEF ClosingUnsets
<1> QED
  BY <1>4, <1>5, <1>6, <1>7, <1>8 DEF Owned

(* handleBadWireless finds nothing that is left over from the last time.   *)
LEMMA ChecksOwned ==
  ASSUME TypeOK, Owned, HandlerChecks
  PROVE  Owned'
<1>1. /\ handler = "check" /\ is_serving_pairer' = TRUE
      /\ handler' = (IF is_serving_pairer THEN "idle"
                     ELSE IF Always_Active THEN "launch" ELSE "control")
      /\ UNCHANGED <<overtaken, clients, Always_Active, closes, stops, gatt, launching, ap>>
  BY DEF HandlerChecks, HandlerGoesTo, delayed, services, network, config
<1>2. Calm => closes = {} /\ stops = {} /\ gatt # "closed"
  BY <1>1 DEF Owned, HandlerUndelayed, Calm
<1>3. Calm /\ ~is_serving_pairer => gatt = "idle" /\ ~launching
  BY <1>2 DEF Owned, ServerOwned, TypeOK
<1>4. ServerOwned' /\ AccessPointOwned' /\ PreparingSetsFlag'
  BY <1>1 DEF ServerOwned, AccessPointOwned, PreparingSetsFlag
<1>5. LaunchSucceeds'
  BY <1>1 DEF Owned, LaunchSucceeds, Calm
<1>6. PreparingAlone'
  BY <1>1, <1>3 DEF PreparingAlone, Calm, Preparing
<1>7. HandlerUndelayed'
  BY <1>1 DEF Owned, HandlerUndelayed
<1>8. ClosingUnsets'
  BY <1>1, <1>2 DEF ClosingUnsets, Calm
<1> QED
  BY <1>4, <1>5, <1>6, <1>7, <1>8 DEF Owned

LEMMA HandlerOwned ==
  ASSUME TypeOK, Owned,
         HandlerDisplays \/ HandlerSetsMessage \/ HandlerLaunches \/ HandlerStartsAP
  PROVE  Owned'
<1>1. /\ Preparing /\ handler # "idle"
      /\ UNCHANGED <<overtaken, clients, Always_Active, is_serving_pairer, closes, stops, gatt>>
  BY DEF HandlerDisplays, HandlerSetsMessage, HandlerLaunches, HandlerStartsAP, HandlerGoesTo,
     Preparing, flags, delayed, services, network, config
<1>2. Calm => is_serving_pairer
  BY <1>1 DEF Owned, PreparingSetsFlag
<1>3. (closes = {} /\ stops = {} /\ gatt # "closed") \/ ~Calm
  BY <1>1 DEF Owned, HandlerUndelayed, Calm
<1>4. ServerOwned' /\ AccessPointOwned' /\ PreparingSetsFlag'
  BY <1>1, <1>2 DEF ServerOwned, AccessPointOwned, PreparingSetsFlag, Calm
<1>5. launching' = launching \/ handler = "launch"
  BY DEF HandlerDisplays, HandlerSetsMessage, HandlerLaunches, HandlerStartsAP, services
<1>6. LaunchSucceeds'
  BY <1>1, <1>3, <1>5 DEF Owned, LaunchSucceeds, PreparingAlone, Calm
<1>7. ASSUME Preparing', handler' \notin {"stop", "start"}
      PROVE  handler \notin {"stop", "start"} /\ launching' = launching
  <2>1. handler' \in {"control", "icon", "message", "launch"}
    BY <1>7 DEF Preparing
  <2>2. CASE HandlerDisplays \/ HandlerSetsMessage
    BY <2>2 DEF HandlerDisplays, HandlerSetsMessage, services
  <2>3. ~HandlerLaunches /\ ~HandlerStartsAP
    BY <2>1 DEF HandlerLaunches, HandlerStartsAP, HandlerGoesTo
  <2> QED
    BY <2>2, <2>3
<1>8. PreparingAlone'
  BY <1>1, <1>7 DEF Owned, PreparingAlone, Calm
<1>9. HandlerUndelayed' /\ ClosingUnsets'
  BY <1>1 DEF Owned, HandlerUndelayed, ClosingUnsets, Calm
<1> QED
  BY <1>4, <1>6, <1>8, <1>9 DEF Owned

LEMMA ServicesOwned ==
  ASSUME TypeOK, Owned,
         \/ Advertises \/ AdvertisingFails \/ ServingEnds
         \/ DelayedClose \/ DelayedStop \/ ClientClosesServer
  PROVE  Owned'
<1>1. /\ UNCHANGED <<overtaken, clients, Always_Active, handler>>
      /\ closes' \subseteq closes /\ stops' \subseteq stops
      /\ is_serving_pairer' => is_serving_pairer
      /\ launching' => launching
      /\ ap' => ap
  BY DEF Advertises, AdvertisingFails, ServingEnds, DelayedClose, DelayedStop, TypeOK,
     ClientClosesServer, loopVars, handling, flags, delayed, services, network, config
<1>2. HandlerUndelayed'
  BY <1>1 DEF Owned, HandlerUndelayed, Advertises, AdvertisingFails, ServingEnds, DelayedClose,
     DelayedStop, ClientClosesServer
<1>3. CASE Advertises
  <2>1. /\ launching /\ gatt = "idle" /\ ~launching' /\ gatt' = "serving"
        /\ UNCHANGED <<is_serving_pairer, closes, stops, ap>>
    BY <1>3 DEF Advertises, flags, delayed
  <2>2. ServerOwned' /\ LaunchSucceeds' /\ AccessPointOwned'
    BY <1>1, <2>1 DEF Owned, ServerOwned, AccessPointOwned, LaunchSucceeds, Calm
  <2>3. PreparingSetsFlag' /\ PreparingAlone'
    BY <1>1, <2>1 DEF Owned, PreparingSetsFlag, PreparingAlone, Calm, Preparing
  <2>4. ClosingUnsets'
    BY <1>1, <2>1 DEF Owned, ClosingUnsets, Calm
  <2> QED
    BY <1>2, <2>2, <2>3, <2>4 DEF Owned
<1>4. CASE AdvertisingFails
  <2>1. ~Calm'
    BY <1>1, <1>4 DEF AdvertisingFails, Owned, LaunchSucceeds, Calm
  <2> QED
    BY <1>2, <2>1 DEF Owned, ServerOwned, AccessPointOwned, LaunchSucceeds, PreparingSetsFlag,
       PreparingAlone, ClosingUnsets
<1>5. CASE ServingEnds
  <2>1. /\ gatt = "closed" /\ gatt' = "idle" /\ ~is_serving_pairer'
        /\ UNCHANGED <<launching, closes, stops, ap>>
    BY <1>5 DEF ServingEnds, delayed
  <2>2. Calm => ~launching /\ ~is_serving_pairer /\ handler = "idle"
    BY <2>1 DEF Owned, LaunchSucceeds, ClosingUnsets, HandlerUndelayed, Calm
  <2>3. ServerOwned' /\ LaunchSucceeds'
    BY <1>1, <2>1, <2>2 DEF ServerOwned, LaunchSucceeds, Calm
  <2>4. AccessPointOwned'
    BY <1>1, <2>1, <2>2 DEF Owned, AccessPointOwned, Calm
  <2>5. PreparingSetsFlag' /\ PreparingAlone' /\ ClosingUnsets'
    BY <1>1, <2>1, <2>2 DEF PreparingSetsFlag, PreparingAlone, ClosingUnsets, Calm, Preparing
  <2> QED
    BY <1>2, <2>3, <2>4, <2>5 DEF Owned
<1>6. CASE DelayedClose
  <2>1. /\ 0 \in closes /\ gatt' = (IF gatt = "serving" THEN "closed" ELSE gatt)
        /\ UNCHANGED <<is_serving_pairer, launching, stops, ap>>
    BY <1>6 DEF DelayedClose, Close, flags
  <2>2. Calm => ~launching /\ ~is_serving_pairer /\ handler = "idle"
    BY <2>1 DEF Owned, LaunchSucceeds, ClosingUnsets, HandlerUndelayed, Calm
  <2>3. ServerOwned' /\ LaunchSucceeds'
    BY <1>1, <2>1, <2>2 DEF ServerOwned, LaunchSucceeds, Calm
  <2>4. AccessPointOwned'
    BY <1>1, <2>1 DEF Owned, AccessPointOwned, Calm
  <2>5. PreparingSetsFlag' /\ PreparingAlone' /\ ClosingUnsets'
    BY <1>1, <2>1, <2>2 DEF PreparingSetsFlag, PreparingAlone, ClosingUnsets, Calm, Preparing
  <2> QED
    BY <1>2, <2>3, <2>4, <2>5 DEF Owned
<1>7. CASE DelayedStop
  <2>1. ~ap' /\ UNCHANGED <<is_serving_pairer, launching, gatt, closes>>
    BY <1>7 DEF DelayedStop, flags
  <2> QED
    BY <1>1, <1>2, <2>1 DEF Owned, ServerOwned, AccessPointOwned, LaunchSucceeds,
       PreparingSetsFlag, PreparingAlone, ClosingUnsets, Preparing, Calm
<1>8. CASE ClientClosesServer
  <2>1. ~Calm'
    BY <1>1, <1>8 DEF ClientClosesServer, Calm
  <2> QED
    BY <1>2, <2>1 DEF Owned, ServerOwned, AccessPointOwned, LaunchSucceeds, PreparingSetsFlag,
       PreparingAlone, ClosingUnsets
<1> QED
  BY <1>3, <1>4, <1>5, <1>6, <1>7, <1>8

LEMMA PeriodOwned ==
  ASSUME TypeOK, Owned, PeriodEnds
  PROVE  Owned'
<1>1. /\ UNCHANGED <<overtaken, clients, Always_Active, is_serving_pairer, handler, gatt,
                     launching, ap>>
      /\ closes' = OnePeriod(closes) /\ stops' = OnePeriod(stops)
      /\ ~launching
  BY DEF PeriodEnds, GoroutineRuns, flags, services, config
<1>2. (closes' = {} <=> closes = {}) /\ (stops' = {} <=> stops = {})
  BY <1>1 DEF OnePeriod
<1> QED
  BY <1>1, <1>2 DEF Owned, ServerOwned, AccessPointOwned, LaunchSucceeds, PreparingSetsFlag,
     PreparingAlone, HandlerUndelayed, ClosingUnsets, Preparing, Calm

LEMMA NextOwned ==
  TypeOK /\ DelayedBeforeTimer' /\ Alone /\ Owned /\ [Next]_vars => Owned'
<1> SUFFICES ASSUME TypeOK, DelayedBeforeTimer', Alone, Owned, [Next]_vars PROVE Owned'
  OBVIOUS
<1> USE DEF handling, flags, delayed, services, network, config, loopVars
<1>1. CASE OnConnected
  BY <1>1, ConnectedOwned
<1>2. CASE OnBadState
  BY <1>2, OwnedUnchanged DEF OnBadState, Receives, owners, TypeOK
<1>3. CASE ControlEnabled \/ TestsServing
  BY <1>3, OwnedUnchanged DEF ControlEnabled, TestsServing, owners
<1>3a. CASE ClosesPairing
  BY <1>3a, ClosingOwned
<1>4. CASE StaleFires
  <2>1. /\ handler' = "check" /\ wireless_stale' = "fired"
        /\ UNCHANGED <<overtaken, clients, Always_Active, is_serving_pairer, closes, stops, gatt,
                       launching, ap>>
    BY <1>4 DEF StaleFires
  <2>2. closes' = {} /\ stops' = {} /\ (~clients' => gatt' # "closed")
    BY <2>1 DEF DelayedBeforeTimer
  <2> QED
    BY <2>1, <2>2 DEF Owned, ServerOwned, AccessPointOwned, LaunchSucceeds, PreparingSetsFlag,
       PreparingAlone, HandlerUndelayed, ClosingUnsets, Preparing, Calm
<1>5. CASE HandlerChecks
  BY <1>5, ChecksOwned
<1>6. CASE HandlerDisplays \/ HandlerSetsMessage \/ HandlerLaunches \/ HandlerStartsAP
  BY <1>6, HandlerOwned
<1>7. CASE \/ Advertises \/ AdvertisingFails \/ ServingEnds
           \/ DelayedClose \/ DelayedStop \/ ClientClosesServer
  BY <1>7, ServicesOwned
<1>8. CASE LinkUp \/ LinkDown \/ KeyRefused \/ NetworksChange \/ UNCHANGED vars
  BY <1>8, OwnedUnchanged DEF LinkUp, LinkDown, KeyRefused, NetworksChange, Emits, vars, owners
<1>9. CASE PeriodEnds
  BY <1>9, PeriodOwned
<1> QED
  BY <1>1, <1>2, <1>3, <1>3a, <1>4, <1>5, <1>6, <1>7, <1>8, <1>9 DEF Next

-----------------------------------------------------------------------------
(* A handler that the timer has run leaves the server serving, if no       *)
(* client closes it.                                                       *)
ServedWhenFired ==
  ~clients /\ wireless_stale = "fired"
           /\ handler \notin {"check", "control", "icon", "message", "launch"} =>
    launching \/ gatt = "serving"

LEMMA NextServed ==
  /\ TypeOK /\ DelayedBeforeTimer /\ FlagHasOwner /\ ServedWhenFired /\ [Next]_vars
  => ServedWhenFired'
<1> SUFFICES ASSUME TypeOK, DelayedBeforeTimer, FlagHasOwner, ServedWhenFired, [Next]_vars,
                    ~clients', wireless_stale' = "fired",
                    handler' \notin {"check", "control", "icon", "message", "launch"}
             PROVE  launching' \/ gatt' = "serving"
  BY DEF ServedWhenFired
<1> USE DEF handling, flags, delayed, services, network, config, loopVars
<1>1. CASE OnConnected
  BY <1>1 DEF OnConnected, Connected
<1>2. CASE OnBadState
  BY <1>2 DEF OnBadState, Receives, ServedWhenFired
<1>3. CASE StaleFires \/ ControlEnabled \/ TestsServing \/ ClosesPairing
  BY <1>3 DEF StaleFires, ControlEnabled, TestsServing, ClosesPairing, ClosesAfter,
     ServedWhenFired
<1>4. CASE HandlerChecks
  <2>1. /\ wireless_stale = "fired" /\ ~clients /\ is_serving_pairer /\ handler = "check"
        /\ UNCHANGED <<launching, gatt>>
    BY <1>4 DEF HandlerChecks, HandlerGoesTo
  <2>2. gatt # "closed"
    BY <2>1 DEF DelayedBeforeTimer
  <2>3. launching \/ gatt # "idle"
    BY <2>1 DEF FlagHasOwner
  <2> QED
    BY <2>1, <2>2, <2>3 DEF TypeOK
<1>5. CASE HandlerDisplays \/ HandlerSetsMessage
  BY <1>5 DEF HandlerDisplays, HandlerSetsMessage, HandlerGoesTo
<1>6. CASE HandlerLaunches \/ HandlerStartsAP
  BY <1>6 DEF HandlerLaunches, HandlerStartsAP, HandlerGoesTo, ServedWhenFired
<1>7. CASE Advertises \/ ServingEnds \/ AdvertisingFails
  <2>1. wireless_stale = "fired" /\ ~clients
    BY <1>7 DEF Advertises, ServingEnds, AdvertisingFails
  <2>2. gatt # "closed"
    BY <2>1 DEF DelayedBeforeTimer
  <2> QED
    BY <1>7, <2>1, <2>2 DEF Advertises, ServingEnds, AdvertisingFails, TypeOK
<1>8. CASE DelayedClose
  <2>1. wireless_stale = "fired" /\ 0 \in closes
    BY <1>8 DEF DelayedClose
  <2> QED
    BY <2>1 DEF DelayedBeforeTimer
<1>9. CASE DelayedStop \/ ClientClosesServer
  BY <1>9 DEF DelayedStop, ClientClosesServer, ServedWhenFired
<1>10. CASE LinkUp \/ LinkDown \/ KeyRefused
  BY <1>10 DEF LinkUp, LinkDown, KeyRefused, Emits, ServedWhenFired
<1>11. CASE NetworksChange \/ PeriodEnds \/ UNCHANGED vars
  BY <1>11 DEF NetworksChange, PeriodEnds, vars, ServedWhenFired
<1> QED
  BY <1>1, <1>2, <1>3, <1>4, <1>5, <1>6, <1>7, <1>8, <1>9, <1>10, <1>11 DEF Next

-----------------------------------------------------------------------------
(* A server that will end: it is closed, or a delayed Close finds it       *)
(* serving.  When it ends it clears the flag.                              *)
Doomed ==
  \/ gatt = "closed"
  \/ gatt = "serving" /\ closes # {}
  \/ gatt = "idle" /\ launching /\ closes # {} /\ 0 \notin closes

(* The flag is set already only when the timer's handler finds it set, as  *)
(* main's runs before anyone sets it; a Connected may have cleared the     *)
(* timer since.                                                            *)
FlagFoundByTimer ==
  handler = "check" /\ is_serving_pairer => wireless_stale = "fired" \/ Closing

(* Such a Connected, with the flag still set or already tested, finds a    *)
(* server that nothing is about to close.                                  *)
CheckUndelayed ==
  ~clients /\ handler = "check" /\ (loop = "clear" \/ (Closing /\ is_serving_pairer)) =>
    closes = {} /\ stops = {} /\ (gatt = "serving" \/ (gatt = "idle" /\ launching))

(* And so a Connected that comes before the handler's check dooms it.      *)
StopDoomsServer ==
  ~clients /\ handler = "check" /\ stops # {} =>
    closes # {} /\ 0 \notin closes /\ (gatt = "serving" \/ (gatt = "idle" /\ launching))

(* While the flag is set the access point is up, or about to be, and stays *)
(* up: without clients unless the server is doomed, and with them unless   *)
(* the handler was overtaken.                                              *)
FlagHoldsUnlessDoomed ==
  ~clients /\ ~Always_Active /\ is_serving_pairer =>
    Doomed \/ (stops = {} /\ (ap \/ Preparing))
FlagHoldsUnlessOvertaken ==
  overtaken = "never" /\ ~Always_Active /\ is_serving_pairer => stops = {} /\ (ap \/ Preparing)

UpWhenFired ==
  ~Always_Active /\ ~(overtaken # "never" /\ clients) /\ wireless_stale = "fired"
                 /\ handler # "check" /\ ~Preparing => ap

UpWhenAlwaysActive ==
  Always_Active =>
    ap /\ stops = {} /\ handler \notin {"control", "icon", "message", "stop", "start"}

Held ==
  /\ FlagFoundByTimer /\ CheckUndelayed /\ StopDoomsServer
  /\ FlagHoldsUnlessDoomed /\ FlagHoldsUnlessOvertaken /\ UpWhenFired /\ UpWhenAlwaysActive

LEMMA InitHeld == Init => Held
<1> SUFFICES ASSUME Init PROVE Held
  OBVIOUS
<1>1. /\ stops = {} /\ ap = Always_Active /\ wireless_stale = "nil"
      /\ handler \in {"idle", "check"} /\ is_serving_pairer = FALSE
      /\ loop \in {"startup", "receive"}
  BY DEF Init
<1> QED
  BY <1>1 DEF Held, FlagFoundByTimer, CheckUndelayed, Closing, StopDoomsServer,
     FlagHoldsUnlessDoomed,
     FlagHoldsUnlessOvertaken, UpWhenFired, UpWhenAlwaysActive

LEMMA HeldUnchanged ==
  ASSUME Held, UNCHANGED <<owners, loop>>, wireless_stale' = "fired" => wireless_stale = "fired",
         handler = "check" => UNCHANGED wireless_stale
  PROVE  Held'
<1>1. FlagFoundByTimer' /\ UpWhenFired' /\ UpWhenAlwaysActive'
  BY DEF Held, owners, FlagFoundByTimer, UpWhenFired, UpWhenAlwaysActive, Preparing, Closing
<1>2. StopDoomsServer' /\ FlagHoldsUnlessOvertaken' /\ CheckUndelayed'
  BY DEF Held, owners, StopDoomsServer, FlagHoldsUnlessOvertaken, CheckUndelayed, Preparing,
     Closing
<1>3. FlagHoldsUnlessDoomed'
  BY DEF Held, owners, FlagHoldsUnlessDoomed, Doomed, Preparing
<1> QED
  BY <1>1, <1>2, <1>3 DEF Held

(* Connected before the check, with the flag set: the one server there can *)
(* be serves or is about to, for the timer has just fired.                 *)
LEMMA ConnectedHeld ==
  ASSUME TypeOK, DelayedBeforeTimer, FlagHasOwner, Held, OnConnected
  PROVE  Held'
<1>1. /\ loop = "receive" /\ loop' \in {"control", "test"} /\ wireless_stale' = "nil"
      /\ overtaken' = "never" => overtaken = "never"
      /\ UNCHANGED <<handler, gatt, launching, ap, clients, Always_Active, closes, stops,
                     is_serving_pairer>>
  BY DEF OnConnected, Connected, Receives, delayed, handling, services, network, config
<1>2. FlagFoundByTimer' /\ UpWhenFired' /\ UpWhenAlwaysActive' /\ StopDoomsServer'
  BY <1>1 DEF Held, FlagFoundByTimer, UpWhenFired, UpWhenAlwaysActive, StopDoomsServer, Closing
<1>3. FlagHoldsUnlessOvertaken' /\ FlagHoldsUnlessDoomed'
  BY <1>1 DEF Held, FlagHoldsUnlessOvertaken, FlagHoldsUnlessDoomed, Doomed, Preparing
<1>4. CheckUndelayed'
  <2> SUFFICES ASSUME ~clients, handler = "check", is_serving_pairer
               PROVE  /\ closes = {} /\ stops = {}
                      /\ gatt = "serving" \/ (gatt = "idle" /\ launching)
    BY <1>1 DEF CheckUndelayed
  <2>1. wireless_stale = "fired"
    BY <1>1 DEF Held, FlagFoundByTimer, Closing
  <2>2. closes = {} /\ stops = {} /\ gatt # "closed"
    BY <2>1 DEF DelayedBeforeTimer
  <2>3. launching \/ gatt # "idle"
    BY DEF FlagHasOwner
  <2> QED
    BY <2>2, <2>3 DEF TypeOK
<1> QED
  BY <1>2, <1>3, <1>4 DEF Held

(* The rest of Connected: the flag is tested, and the server that a check  *)
(* still to come will find is doomed when it is cleared.                   *)
LEMMA RestOfConnectedHeld ==
  ASSUME TypeOK, LoopTimer, Held, ControlEnabled \/ TestsServing \/ ClosesPairing
  PROVE  Held'
<1>1. /\ Closing /\ wireless_stale = "nil"
      /\ UNCHANGED <<handler, gatt, launching, ap, clients, Always_Active, overtaken,
                     wireless_stale>>
  BY DEF ControlEnabled, TestsServing, ClosesPairing, ClosesAfter, LoopTimer, Closing,
     handling, services, network, config
<1>2. UpWhenFired'
  BY <1>1 DEF UpWhenFired
<1>3. CASE ControlEnabled \/ TestsServing
  <2>1. /\ UNCHANGED <<is_serving_pairer, closes, stops>>
        /\ is_serving_pairer => Closing'
        /\ loop' = "clear" => is_serving_pairer
    BY <1>3 DEF ControlEnabled, TestsServing, flags, delayed, Closing
  <2>2. FlagFoundByTimer' /\ UpWhenAlwaysActive' /\ StopDoomsServer'
    BY <1>1, <2>1 DEF Held, FlagFoundByTimer, UpWhenAlwaysActive, StopDoomsServer
  <2>3. FlagHoldsUnlessOvertaken' /\ FlagHoldsUnlessDoomed'
    BY <1>1, <2>1 DEF Held, FlagHoldsUnlessOvertaken, FlagHoldsUnlessDoomed, Doomed, Preparing
  <2>4. CheckUndelayed'
    BY <1>1, <2>1 DEF Held, CheckUndelayed
  <2> QED
    BY <1>2, <2>2, <2>3, <2>4 DEF Held
<1>4. CASE ClosesPairing
  <2>1. /\ loop = "clear" /\ loop' = "receive" /\ is_serving_pairer' = FALSE
        /\ closes' = closes \cup {CloseDelay} /\ stops' = stops \cup StopIfWanted
    BY <1>4 DEF ClosesPairing, ClosesAfter
  <2>2. FlagFoundByTimer' /\ FlagHoldsUnlessDoomed' /\ FlagHoldsUnlessOvertaken'
    BY <2>1 DEF FlagFoundByTimer, FlagHoldsUnlessDoomed, FlagHoldsUnlessOvertaken
  <2>3. UpWhenAlwaysActive' /\ CheckUndelayed'
    BY <1>1, <2>1 DEF Held, UpWhenAlwaysActive, CheckUndelayed, Closing, StopIfWanted
  <2>4. StopDoomsServer'
    <3> SUFFICES ASSUME ~clients, handler = "check"
                 PROVE  /\ closes' # {} /\ 0 \notin closes'
                        /\ gatt = "serving" \/ (gatt = "idle" /\ launching)
      BY <1>1 DEF StopDoomsServer
    <3>1. closes = {} /\ (gatt = "serving" \/ (gatt = "idle" /\ launching))
      BY <2>1 DEF Held, CheckUndelayed
    <3>2. CloseDelay # 0
      BY PairingAssumption
    <3> QED
      BY <2>1, <3>1, <3>2
  <2> QED
    BY <1>2, <2>2, <2>3, <2>4 DEF Held
<1> QED
  BY <1>3, <1>4

(* The check that finds the flag set leaves the access point to the last   *)
(* handler that set it: nothing is delayed, so that is still up.           *)
LEMMA ChecksHeld ==
  ASSUME TypeOK, LoopTimer, DelayedBeforeTimer, Alone, Owned, Held, HandlerChecks
  PROVE  Held'
<1>1. /\ handler = "check" /\ is_serving_pairer' = TRUE
      /\ handler' = (IF is_serving_pairer THEN "idle"
                     ELSE IF Always_Active THEN "launch" ELSE "control")
      /\ UNCHANGED <<overtaken, clients, Always_Active, closes, stops, gatt, launching, ap,
                     wireless_stale>>
  BY DEF HandlerChecks, HandlerGoesTo, delayed, services, network, config
<1>2. handler' # "check" /\ ~Preparing
  BY <1>1 DEF Preparing
<1>3. FlagFoundByTimer' /\ CheckUndelayed' /\ StopDoomsServer'
  BY <1>2 DEF FlagFoundByTimer, CheckUndelayed, StopDoomsServer
<1>4. UpWhenAlwaysActive'
  BY <1>1 DEF Held, UpWhenAlwaysActive
<1>5. CASE is_serving_pairer /\ wireless_stale = "fired"
  <2>1. closes = {} /\ stops = {} /\ (~clients => ~Doomed)
    BY <1>5 DEF DelayedBeforeTimer, Doomed
  <2>2. ~Always_Active /\ ~(overtaken # "never" /\ clients) => ap
    BY <1>2, <1>5, <2>1 DEF Held, FlagHoldsUnlessDoomed, FlagHoldsUnlessOvertaken, TypeOK
  <2>3. FlagHoldsUnlessDoomed' /\ FlagHoldsUnlessOvertaken' /\ UpWhenFired'
    BY <1>1, <2>1, <2>2 DEF FlagHoldsUnlessDoomed, FlagHoldsUnlessOvertaken, UpWhenFired
  <2> QED
    BY <1>3, <1>4, <2>3 DEF Held
<1>5a. CASE is_serving_pairer /\ Closing
  <2>1. wireless_stale = "nil" /\ overtaken # "never"
    BY <1>1, <1>5a DEF LoopTimer, Alone, Closing
  <2>2. ~clients => stops = {} /\ ~Doomed
    BY <1>1, <1>5a DEF Held, CheckUndelayed, Doomed
  <2>3. ~clients /\ ~Always_Active => ap
    BY <1>2, <1>5a, <2>2 DEF Held, FlagHoldsUnlessDoomed
  <2>4. FlagHoldsUnlessDoomed' /\ FlagHoldsUnlessOvertaken' /\ UpWhenFired'
    BY <1>1, <2>1, <2>2, <2>3 DEF FlagHoldsUnlessDoomed, FlagHoldsUnlessOvertaken, UpWhenFired
  <2> QED
    BY <1>3, <1>4, <2>4 DEF Held
<1>6. CASE ~is_serving_pairer /\ ~Always_Active
  <2>1. Preparing'
    BY <1>1, <1>6 DEF Preparing
  <2>2. overtaken = "never" => stops = {}
    BY <1>1 DEF Owned, HandlerUndelayed
  <2>3. ~clients /\ stops # {} => Doomed
    BY <1>1 DEF Held, StopDoomsServer, Doomed
  <2>4. Doomed' <=> Doomed
    BY <1>1 DEF Doomed
  <2>5. FlagHoldsUnlessDoomed' /\ FlagHoldsUnlessOvertaken' /\ UpWhenFired'
    BY <1>1, <2>1, <2>2, <2>3, <2>4
    DEF FlagHoldsUnlessDoomed, FlagHoldsUnlessOvertaken, UpWhenFired
  <2> QED
    BY <1>3, <1>4, <2>5 DEF Held
<1>7. CASE Always_Active
  BY <1>1, <1>3, <1>4, <1>7 DEF Held, FlagHoldsUnlessDoomed, FlagHoldsUnlessOvertaken, UpWhenFired
<1>8. is_serving_pairer => wireless_stale = "fired" \/ Closing
  BY <1>1 DEF Held, FlagFoundByTimer
<1> QED
  BY <1>5, <1>5a, <1>6, <1>7, <1>8 DEF TypeOK

LEMMA HandlerHeld ==
  ASSUME TypeOK, Held,
         HandlerDisplays \/ HandlerSetsMessage \/ HandlerLaunches \/ HandlerStartsAP
  PROVE  Held'
<1>1. /\ Preparing /\ handler' # "check"
      /\ UNCHANGED <<overtaken, clients, Always_Active, is_serving_pairer, closes, stops, gatt,
                     wireless_stale>>
      /\ launching => launching'
  BY DEF HandlerDisplays, HandlerSetsMessage, HandlerLaunches, HandlerStartsAP, HandlerGoesTo,
     Preparing, flags, delayed, services, network, config
<1>2. FlagFoundByTimer' /\ CheckUndelayed' /\ StopDoomsServer'
  BY <1>1 DEF FlagFoundByTimer, CheckUndelayed, StopDoomsServer
<1>3. Doomed => Doomed'
  BY <1>1 DEF Doomed
<1>4. CASE HandlerDisplays \/ HandlerSetsMessage
  <2>1. ap' = ap /\ Preparing' /\ handler \in {"control", "icon", "message"}
    BY <1>4 DEF HandlerDisplays, HandlerSetsMessage, HandlerGoesTo, Preparing, services
  <2>2. UpWhenAlwaysActive' /\ UpWhenFired'
    BY <1>1, <2>1 DEF Held, UpWhenAlwaysActive, UpWhenFired
  <2>3. FlagHoldsUnlessDoomed' /\ FlagHoldsUnlessOvertaken'
    BY <1>1, <1>3, <2>1 DEF Held, FlagHoldsUnlessDoomed, FlagHoldsUnlessOvertaken
  <2> QED
    BY <1>2, <2>2, <2>3 DEF Held
<1>5. CASE HandlerLaunches
  <2>1. ap' = ap /\ handler' = IF Always_Active THEN "idle" ELSE "stop"
    BY <1>5 DEF HandlerLaunches, HandlerGoesTo
  <2>2. ~Always_Active => Preparing'
    BY <2>1 DEF Preparing
  <2>3. UpWhenAlwaysActive' /\ UpWhenFired'
    BY <1>1, <2>1, <2>2 DEF Held, UpWhenAlwaysActive, UpWhenFired
  <2>4. FlagHoldsUnlessDoomed' /\ FlagHoldsUnlessOvertaken'
    BY <1>1, <1>3, <2>2 DEF Held, FlagHoldsUnlessDoomed, FlagHoldsUnlessOvertaken
  <2> QED
    BY <1>2, <2>3, <2>4 DEF Held
<1>6. CASE HandlerStartsAP
  <2>1. handler \in {"stop", "start"} /\ (ap' \/ Preparing')
    BY <1>6 DEF HandlerStartsAP, HandlerGoesTo, Preparing
  <2>2. ~Always_Active
    BY <2>1 DEF Held, UpWhenAlwaysActive
  <2>3. UpWhenAlwaysActive' /\ UpWhenFired'
    BY <1>1, <2>1, <2>2 DEF UpWhenAlwaysActive, UpWhenFired
  <2>4. FlagHoldsUnlessDoomed' /\ FlagHoldsUnlessOvertaken'
    BY <1>1, <1>3, <2>1 DEF Held, FlagHoldsUnlessDoomed, FlagHoldsUnlessOvertaken
  <2> QED
    BY <1>2, <2>3, <2>4 DEF Held
<1> QED
  BY <1>4, <1>5, <1>6

(* Only DelayedStop stops the access point, and then the server is doomed, *)
(* or the handler was overtaken and clients are about.                     *)
LEMMA ServicesHeld ==
  ASSUME TypeOK, DelayedBeforeTimer, Held,
         \/ Advertises \/ AdvertisingFails \/ ServingEnds
         \/ DelayedClose \/ DelayedStop \/ ClientClosesServer
  PROVE  Held'
<1> USE DEF loopVars, handling, flags, delayed, services, network, config
<1>1. /\ UNCHANGED <<overtaken, clients, Always_Active, handler, wireless_stale, loop>>
      /\ Preparing' <=> Preparing
      /\ stops' \subseteq stops
      /\ is_serving_pairer' => is_serving_pairer
  BY DEF Advertises, AdvertisingFails, ServingEnds, DelayedClose, DelayedStop, TypeOK,
     ClientClosesServer, Preparing
<1>2. FlagFoundByTimer'
  BY <1>1 DEF Held, FlagFoundByTimer, Closing
<1>2a. CheckUndelayed'
  <2> SUFFICES ASSUME ~clients, handler = "check",
                      loop = "clear" \/ (Closing /\ is_serving_pairer)
               PROVE  /\ closes' = {} /\ stops' = {}
                      /\ gatt' = "serving" \/ (gatt' = "idle" /\ launching')
    BY <1>1 DEF CheckUndelayed, Closing
  <2>1. closes = {} /\ stops = {} /\ (gatt = "serving" \/ (gatt = "idle" /\ launching))
    BY DEF Held, CheckUndelayed
  <2> QED
    BY <2>1 DEF Advertises, AdvertisingFails, ServingEnds, DelayedClose, DelayedStop,
       ClientClosesServer
<1>3. StopDoomsServer'
  BY <1>1 DEF Held, StopDoomsServer, Advertises, AdvertisingFails, ServingEnds, DelayedClose,
     DelayedStop, ClientClosesServer
<1>4. ~DelayedStop => ap' = ap
  BY DEF Advertises, AdvertisingFails, ServingEnds, DelayedClose, ClientClosesServer
<1>5. DelayedStop => stops # {} /\ UNCHANGED <<is_serving_pairer, gatt, launching, closes>>
  BY DEF DelayedStop
<1>6. UpWhenAlwaysActive'
  BY <1>1, <1>4, <1>5 DEF Held, UpWhenAlwaysActive
<1>7. UpWhenFired'
  BY <1>1, <1>4, <1>5 DEF Held, UpWhenFired, DelayedBeforeTimer
<1>8. FlagHoldsUnlessOvertaken'
  BY <1>1, <1>4, <1>5 DEF Held, FlagHoldsUnlessOvertaken
<1>9. FlagHoldsUnlessDoomed'
  <2> SUFFICES ASSUME ~clients, ~Always_Active, is_serving_pairer'
               PROVE  Doomed' \/ (stops' = {} /\ (ap' \/ Preparing'))
    BY <1>1 DEF FlagHoldsUnlessDoomed
  <2>1. is_serving_pairer /\ (Doomed \/ (stops = {} /\ (ap \/ Preparing)))
    BY <1>1 DEF Held, FlagHoldsUnlessDoomed
  <2>2. ~AdvertisingFails /\ ~ServingEnds /\ ~ClientClosesServer
    BY DEF AdvertisingFails, ServingEnds, ClientClosesServer
  <2>3. Doomed => Doomed'
    BY <2>2 DEF Doomed, Advertises, DelayedClose, Close, DelayedStop
  <2> QED
    BY <1>1, <1>4, <1>5, <2>1, <2>3
<1> QED
  BY <1>2, <1>2a, <1>3, <1>6, <1>7, <1>8, <1>9 DEF Held

LEMMA PeriodHeld ==
  ASSUME TypeOK, Held, PeriodEnds
  PROVE  Held'
<1>1. /\ UNCHANGED <<overtaken, clients, Always_Active, is_serving_pairer, handler, gatt,
                     launching, ap, wireless_stale, loop>>
      /\ closes' = OnePeriod(closes) /\ stops' = OnePeriod(stops)
      /\ ~launching /\ handler # "check"
  BY DEF PeriodEnds, GoroutineRuns, flags, services, config
<1>2. (closes' = {} <=> closes = {}) /\ (stops' = {} <=> stops = {})
  BY <1>1 DEF OnePeriod
<1>3. Doomed => Doomed'
  BY <1>1, <1>2 DEF Doomed
<1>4. FlagFoundByTimer' /\ StopDoomsServer' /\ UpWhenFired' /\ UpWhenAlwaysActive'
  BY <1>1, <1>2 DEF Held, FlagFoundByTimer, StopDoomsServer, UpWhenFired, UpWhenAlwaysActive,
     Preparing
<1>4a. CheckUndelayed'
  BY <1>1 DEF CheckUndelayed
<1>5. FlagHoldsUnlessOvertaken' /\ FlagHoldsUnlessDoomed'
  BY <1>1, <1>2, <1>3 DEF Held, FlagHoldsUnlessOvertaken, FlagHoldsUnlessDoomed, Preparing
<1> QED
  BY <1>4, <1>4a, <1>5 DEF Held

LEMMA NextHeld ==
  /\ TypeOK /\ LoopTimer /\ DelayedBeforeTimer /\ DelayedBeforeTimer' /\ FlagHasOwner
  /\ Alone /\ Owned /\ Held /\ [Next]_vars
  => Held'
<1> SUFFICES ASSUME TypeOK, LoopTimer, DelayedBeforeTimer, DelayedBeforeTimer', FlagHasOwner,
                    Alone, Owned, Held, [Next]_vars
             PROVE  Held'
  OBVIOUS
<1> USE DEF handling, flags, delayed, services, network, config, loopVars
<1>1. CASE OnConnected
  BY <1>1, ConnectedHeld
<1>2. CASE OnBadState
  <2>1. /\ UNCHANGED owners /\ loop' = loop /\ loop = "receive"
        /\ wireless_stale' = IF wireless_stale = "nil" THEN "running" ELSE wireless_stale
    BY <1>2 DEF OnBadState, Receives, owners, TypeOK
  <2>2. FlagFoundByTimer' /\ CheckUndelayed'
    BY <2>1 DEF Held, FlagFoundByTimer, CheckUndelayed, Closing, owners
  <2>3. FlagHoldsUnlessDoomed' /\ StopDoomsServer'
    BY <2>1 DEF Held, FlagHoldsUnlessDoomed, StopDoomsServer, Doomed, Preparing, owners
  <2>4. FlagHoldsUnlessOvertaken' /\ UpWhenFired' /\ UpWhenAlwaysActive'
    BY <2>1 DEF Held, FlagHoldsUnlessOvertaken, UpWhenFired, UpWhenAlwaysActive, Preparing, owners
  <2> QED
    BY <2>2, <2>3, <2>4 DEF Held
<1>3. CASE ControlEnabled \/ TestsServing \/ ClosesPairing
  BY <1>3, RestOfConnectedHeld
<1>4. CASE StaleFires
  <2>1. /\ handler = "idle" /\ handler' = "check" /\ wireless_stale' = "fired"
        /\ UNCHANGED <<overtaken, clients, Always_Active, is_serving_pairer, closes, stops, gatt,
                       launching, ap, loop>>
        /\ ~Closing
    BY <1>4 DEF StaleFires, LoopTimer, Closing
  <2>2. closes' = {} /\ stops' = {}
    BY <2>1 DEF DelayedBeforeTimer
  <2>2a. CheckUndelayed'
    BY <2>1 DEF CheckUndelayed, Closing
  <2>3. FlagFoundByTimer' /\ StopDoomsServer' /\ UpWhenFired' /\ UpWhenAlwaysActive'
    BY <2>1, <2>2 DEF Held, FlagFoundByTimer, StopDoomsServer, UpWhenFired, UpWhenAlwaysActive
  <2>4. FlagHoldsUnlessOvertaken' /\ FlagHoldsUnlessDoomed'
    BY <2>1, <2>2 DEF Held, FlagHoldsUnlessOvertaken, FlagHoldsUnlessDoomed, Doomed, Preparing
  <2> QED
    BY <2>2a, <2>3, <2>4 DEF Held
<1>5. CASE HandlerChecks
  BY <1>5, ChecksHeld
<1>6. CASE HandlerDisplays \/ HandlerSetsMessage \/ HandlerLaunches \/ HandlerStartsAP
  BY <1>6, HandlerHeld
<1>7. CASE \/ Advertises \/ AdvertisingFails \/ ServingEnds
           \/ DelayedClose \/ DelayedStop \/ ClientClosesServer
  BY <1>7, ServicesHeld
<1>8. CASE LinkUp \/ LinkDown \/ KeyRefused \/ NetworksChange \/ UNCHANGED vars
  BY <1>8, HeldUnchanged DEF LinkUp, LinkDown, KeyRefused, NetworksChange, Emits, vars, owners
<1>9. CASE PeriodEnds
  BY <1>9, PeriodHeld
<1> QED
  BY <1>1, <1>2, <1>3, <1>4, <1>5, <1>6, <1>7, <1>8, <1>9 DEF Next

-----------------------------------------------------------------------------
(* Settled: every bound on `since' has run out, so nothing is under way.   *)
Inv ==
  /\ TypeOK /\ FlagHasOwner /\ TimeInv /\ DelayedBeforeTimer /\ Quiet
  /\ Alone /\ Owned /\ ServedWhenFired /\ Held

(* The strengthening is inductive, for all delays.                         *)
LEMMA InvInductive == Spec => []Inv
<1>1. Init => Inv
  <2> SUFFICES ASSUME Init PROVE Inv
    OBVIOUS
  <2>1. FlagHasOwner /\ Quiet /\ Alone /\ ServedWhenFired
    BY DEF Init, FlagHasOwner, Quiet, Alone, Closing, ServedWhenFired
  <2> QED
    BY <2>1, InitTypes, InitOnTime, InitBeforeTimer, InitOwned, InitHeld DEF Inv
<1>2. Inv /\ [Next]_vars => Inv'
  <2> SUFFICES ASSUME Inv, [Next]_vars PROVE Inv'
    OBVIOUS
  <2>1. TypeOK' /\ FlagHasOwner'
    BY NextTypes, NextOwner DEF Inv
  <2>2. TimeInv' /\ DelayedBeforeTimer'
    BY <2>1, NextOnTime, NextBeforeTimer DEF Inv, TimeInv
  <2>3. Quiet' /\ Alone' /\ Owned' /\ ServedWhenFired' /\ Held'
    BY <2>2, NextQuiet, NextAlone, NextOwned, NextServed, NextHeld DEF Inv, TimeInv
  <2> QED
    BY <2>1, <2>2, <2>3 DEF Inv
<1> QED
  BY <1>1, <1>2, PTL DEF Spec

LEMMA SettledIsQuiet ==
  ASSUME Inv, Settled
  PROVE  /\ states = <<>> /\ closes = {} /\ stops = {} /\ handler = "idle" /\ ~Closing
         /\ wifi = "down" => wireless_stale = "fired"
<1>1. since = Settle /\ ~GoroutineRuns /\ TypeOK /\ TimeInv
  BY DEF Inv, Settled
<1>2. /\ RpcDelay \in Nat /\ StaleDelay \in Nat /\ StaleDelay > 0 /\ Settle \in Nat
      /\ CloseDelay \in Nat /\ StopDelay \in Nat
      /\ CloseDelay < StaleDelay /\ StopDelay < StaleDelay
      /\ since >= 5 * RpcDelay + StaleDelay
  BY <1>1, PairingAssumption
<1>3. states = <<>>
  <2> SUFFICES ASSUME states # <<>> PROVE FALSE
    OBVIOUS
  <2>1. loop # "receive"
    BY <1>1 DEF GoroutineRuns
  <2>2. Awaited
    BY <1>1, <2>1 DEF TimeInv, LoopTimer, Awaited
  <2>3. since + LoopLeft <= 3 * RpcDelay
    BY <1>1, <2>2 DEF TimeInv, QueueOnTime
  <2>4. LoopLeft \in Nat
    BY <1>1, TimeTypes
  <2> QED
    BY <1>1, <1>2, <2>3, <2>4
<1>4. closes = {} /\ stops = {}
  <2>1. ASSUME NEW c \in closes PROVE FALSE
    <3>1. since + c <= 3 * RpcDelay + CloseDelay /\ c \in Nat
      BY <1>1, <2>1, TimeTypes DEF TimeInv, DelayedOnTime
    <3> QED
      BY <1>1, <1>2, <3>1
  <2>2. ASSUME NEW c \in stops PROVE FALSE
    <3>1. since + c <= 3 * RpcDelay + StopDelay /\ c \in Nat
      BY <1>1, <2>2, TimeTypes DEF TimeInv, DelayedOnTime
    <3> QED
      BY <1>1, <1>2, <3>1
  <2> QED
    BY <2>1, <2>2
<1>5. handler = "idle"
  <2> SUFFICES ASSUME handler # "idle" PROVE FALSE
    OBVIOUS
  <2>1. since + HandlerLeft <= 5 * RpcDelay + StaleDelay
    BY <1>1 DEF TimeInv, HandlerOnTime
  <2>2. handler \in {"control", "icon"} /\ rpc["handler"] # RpcDelay
    BY <1>1 DEF GoroutineRuns, TypeOK
  <2>3. rpc["handler"] \in Nat /\ rpc["handler"] <= RpcDelay
    BY <1>1, TimeTypes
  <2>4. HandlerLeft = 2 * RpcDelay - rpc["handler"] \/ HandlerLeft = RpcDelay - rpc["handler"]
    BY <2>2 DEF HandlerLeft
  <2>5. HandlerLeft > 0
    BY <1>2, <2>2, <2>3, <2>4
  <2>6. HandlerLeft \in Nat
    BY <1>1, TimeTypes
  <2> QED
    BY <1>1, <1>2, <2>1, <2>5, <2>6
<1>6. ASSUME wifi = "down" PROVE wireless_stale = "fired"
  <2>1. wireless_stale # "nil"
    BY <1>1, <1>3, <1>6 DEF TimeInv, LastEvent
  <2>2. wireless_stale # "running"
    <3> SUFFICES ASSUME wireless_stale = "running" PROVE FALSE
      OBVIOUS
    <3>1. since + staleLeft <= 3 * RpcDelay + StaleDelay
      BY <1>1 DEF TimeInv, TimerOnTime
    <3>2. staleLeft # 0
      BY <1>1 DEF GoroutineRuns
    <3>3. staleLeft \in Nat
      BY <1>1, TimeTypes
    <3> QED
      BY <1>1, <1>2, <3>1, <3>2, <3>3
  <2> QED
    BY <1>1, <2>1, <2>2 DEF TypeOK
<1>7. ~Closing
  <2>1. loop \notin {"test", "clear"} /\ (loop = "control" => rpc["loop"] # RpcDelay)
    BY <1>1 DEF GoroutineRuns
  <2>2. loop = "control" => since + (RpcDelay - rpc["loop"]) <= 3 * RpcDelay
    BY <1>1 DEF TimeInv, LoopOnTime
  <2>3. rpc["loop"] \in Nat /\ rpc["loop"] <= RpcDelay
    BY <1>1, TimeTypes
  <2>4. loop # "control"
    BY <1>1, <1>2, <2>2, <2>3
  <2> QED
    BY <2>1, <2>4 DEF Closing
<1> QED
  BY <1>3, <1>4, <1>5, <1>6, <1>7

(* badWifiMessage, which makes Connected call EnableControl, is not left   *)
(* set: when the link has been up for five RPCs and a staleness, the loop  *)
(* has cleared it and made the call (main.go:234-237), whatever clients    *)
(* do, unless the last Connected overtook the handler.                     *)
THEOREM MessageIsCleared == Spec => []MessageCleared
<1>1. Inv => MessageCleared
  BY SettledIsQuiet DEF Inv, Quiet, MessageCleared
<1> QED
  BY <1>1, InvInductive, PTL

(* Pairing is closed again (main.go:239-257): when the link has been up    *)
(* that long the BLE service has ended, and the access point is down       *)
(* unless it is configured to be up always, provided that no Connected     *)
(* ever overtook a handler and no client closes the server.                *)
THEOREM PairingClosesAgain == Spec => []PairingOnlyWhenNeeded
<1>1. Inv => PairingOnlyWhenNeeded
  <2> SUFFICES ASSUME Inv, overtaken = "never", ~clients, Settled, wifi = "up"
               PROVE  gatt = "idle" /\ (ap => Always_Active)
    BY DEF PairingOnlyWhenNeeded
  <2>1. states = <<>> /\ closes = {} /\ stops = {} /\ ~Closing
    BY SettledIsQuiet
  <2>2. ~is_serving_pairer
    BY <2>1 DEF Inv, Quiet
  <2>3. gatt # "serving"
    BY <2>1, <2>2 DEF Inv, Owned, ServerOwned, Calm
  <2>4. gatt # "closed"
    BY DEF Settled, GoroutineRuns
  <2>5. ap => Always_Active
    BY <2>1, <2>2 DEF Inv, Owned, AccessPointOwned, Calm
  <2> QED
    BY <2>3, <2>4, <2>5 DEF Inv, TypeOK
<1> QED
  BY <1>1, InvInductive, PTL

(* Pairing is offered: when the link has been down for five RPCs and a     *)
(* staleness, however it came and went before, the BLE service serves.     *)
THEOREM PairingIsOffered == Spec => []PairingWhenNeeded
<1>1. Inv => PairingWhenNeeded
  <2> SUFFICES ASSUME Inv, ~clients, Settled, wifi = "down" PROVE gatt = "serving"
    BY DEF PairingWhenNeeded
  <2>1. handler = "idle" /\ wireless_stale = "fired"
    BY SettledIsQuiet
  <2>2. launching \/ gatt = "serving"
    BY <2>1 DEF Inv, ServedWhenFired
  <2> QED
    BY <2>2 DEF Settled, GoroutineRuns
<1> QED
  BY <1>1, InvInductive, PTL

(* "Help ensure that the sphere is always connected to some kind of        *)
(* network" (README.md:3): by then the access point is up, unless          *)
(* Connected overtook the handler and clients closed the server as well.   *)
THEOREM AccessPointIsUp == Spec => []AccessPointUnlessDisturbed
<1>1. Inv => AccessPointUnlessDisturbed
  <2> SUFFICES ASSUME Inv, ~(overtaken # "never" /\ clients),
                      Always_Active \/ (Settled /\ wifi = "down")
               PROVE  ap
    BY DEF AccessPointUnlessDisturbed, AccessPointWhenNeeded
  <2>1. CASE Always_Active
    BY <2>1 DEF Inv, Held, UpWhenAlwaysActive
  <2>2. CASE ~Always_Active /\ Settled /\ wifi = "down"
    <3>1. handler = "idle" /\ wireless_stale = "fired"
      BY <2>2, SettledIsQuiet
    <3> QED
      BY <2>2, <3>1 DEF Inv, Held, UpWhenFired, Preparing
  <2> QED
    BY <2>1, <2>2 DEF Inv, TypeOK
<1> QED
  BY <1>1, InvInductive, PTL

(* No two handlers are in their RPCs at once: a timer that has run out     *)
(* finds the handler of the timer before it past them, for the two RPCs    *)
(* together never take longer than a staleness (PairingUI.go:222-227,      *)
(* main.go:22).  So StaleFires waits for steps that take no time.          *)
HandlerBeforeTimer == wireless_stale = "running" => HandlerLeft <= staleLeft

THEOREM HandlersDoNotOverlap == Spec => [](Ripe => HandlerLeft = 0)
<1>1. Init => HandlerBeforeTimer
  BY DEF Init, HandlerBeforeTimer
<1>2. TypeOK /\ TimeInv /\ HandlerBeforeTimer /\ [Next]_vars => HandlerBeforeTimer'
  <2> SUFFICES ASSUME TypeOK, TimeInv, HandlerBeforeTimer, [Next]_vars,
                      wireless_stale' = "running"
               PROVE  HandlerLeft' <= staleLeft'
    BY DEF HandlerBeforeTimer
  <2> USE DEF handling, flags, delayed, services, network, config, loopVars
  <2>1. CASE OnConnected \/ StaleFires
    BY <2>1 DEF OnConnected, Connected, StaleFires
  <2>2. CASE OnBadState
    <3>1. HandlerLeft' = HandlerLeft
      <4>1. UNCHANGED <<handler, rpc>>
        BY <2>2 DEF OnBadState, Receives
      <4> QED
        BY <4>1 DEF HandlerLeft
    <3>2. \/ wireless_stale = "running" /\ staleLeft' = staleLeft
          \/ staleLeft' = StaleDelay
      BY <2>2 DEF OnBadState, TypeOK
    <3>3. HandlerLeft <= StaleDelay
      <4>1. HandlerLeft \in Nat /\ HandlerLeft <= 2 * RpcDelay
        BY TimeTypes
      <4> QED
        BY <4>1, PairingAssumption
    <3> QED
      BY <3>1, <3>2, <3>3 DEF HandlerBeforeTimer
  <2>3. CASE /\ UNCHANGED <<wireless_stale, staleLeft>>
             /\ HandlerLeft' \in Nat /\ HandlerLeft' <= HandlerLeft
    <3>1. HandlerLeft <= staleLeft
      BY <2>3 DEF HandlerBeforeTimer
    <3> QED
      BY <2>3, <3>1, TimeTypes
  <2>4. CASE \/ HandlerChecks \/ HandlerDisplays \/ HandlerSetsMessage
             \/ HandlerLaunches \/ HandlerStartsAP
    <3>1. PICK h : HandlerGoesTo(h)
      BY <2>4 DEF HandlerChecks, HandlerDisplays, HandlerSetsMessage, HandlerLaunches,
         HandlerStartsAP
    <3>2. handler' = h /\ rpc'["handler"] = 0 /\ UNCHANGED <<wireless_stale, staleLeft>>
      BY <3>1 DEF HandlerGoesTo, TypeOK
    <3>3. CASE HandlerChecks
      <4>1. handler = "check" /\ handler' \in {"idle", "launch", "control"}
        BY <3>3 DEF HandlerChecks, HandlerGoesTo
      <4>2. HandlerLeft = 2 * RpcDelay /\ HandlerLeft' \in {0, 2 * RpcDelay}
        BY <3>2, <4>1, TimeTypes DEF HandlerLeft
      <4> QED
        BY <2>3, <3>2, <4>2, TimeTypes
    <3>4. CASE HandlerDisplays
      <4>1. \/ handler = "control" /\ handler' = "icon"
            \/ handler = "icon" /\ handler' = "message"
        <5>1. \/ handler = "control" /\ HandlerGoesTo("icon")
              \/ handler = "icon" /\ HandlerGoesTo("message")
          BY <3>4 DEF HandlerDisplays
        <5>2. ASSUME NEW g, HandlerGoesTo(g) PROVE handler' = g
          BY <5>2 DEF HandlerGoesTo
        <5> QED
          BY <5>1, <5>2
      <4>2. HandlerLeft' \in Nat /\ HandlerLeft' <= HandlerLeft
        BY <3>2, <4>1, TimeTypes DEF HandlerLeft
      <4> QED
        BY <2>3, <3>2, <4>2
    <3>5. CASE HandlerSetsMessage \/ HandlerLaunches \/ HandlerStartsAP
      <4>1. handler' \in {"launch", "stop", "start", "idle"}
        BY <3>5 DEF HandlerSetsMessage, HandlerLaunches, HandlerStartsAP, HandlerGoesTo
      <4>2. HandlerLeft' = 0
        BY <4>1 DEF HandlerLeft
      <4> QED
        BY <2>3, <3>2, <4>2, TimeTypes
    <3> QED
      BY <2>4, <3>3, <3>4, <3>5
  <2>5. CASE ControlEnabled
    <3>1. rpc'["handler"] = rpc["handler"] /\ UNCHANGED <<wireless_stale, staleLeft, handler>>
      BY <2>5 DEF ControlEnabled, TypeOK
    <3>2. HandlerLeft' = HandlerLeft
      BY <3>1 DEF HandlerLeft
    <3> QED
      BY <2>3, <3>1, <3>2, TimeTypes
  <2>6. CASE \/ TestsServing \/ ClosesPairing
             \/ Advertises \/ AdvertisingFails \/ ServingEnds
             \/ DelayedClose \/ DelayedStop \/ ClientClosesServer
             \/ LinkUp \/ LinkDown \/ KeyRefused \/ NetworksChange \/ UNCHANGED vars
    <3>1. UNCHANGED <<wireless_stale, staleLeft, handler, rpc>>
      BY <2>6 DEF TestsServing, ClosesPairing, ClosesAfter, Advertises, AdvertisingFails,
         ServingEnds, DelayedClose, DelayedStop, ClientClosesServer, LinkUp, LinkDown, KeyRefused,
         NetworksChange, Emits, vars
    <3>2. HandlerLeft' = HandlerLeft
      BY <3>1 DEF HandlerLeft
    <3> QED
      BY <2>3, <3>1, <3>2, TimeTypes
  <2>7. CASE PeriodEnds
    <3>1. /\ wireless_stale = "running" /\ staleLeft # 0 /\ handler' = handler
          /\ staleLeft' = IF staleLeft > 0 THEN staleLeft - 1 ELSE 0
          /\ rpc'["handler"] = IF handler \in {"control", "icon"} THEN rpc["handler"] + 1 ELSE 0
          /\ handler \in {"idle", "control", "icon"}
      BY <2>7 DEF PeriodEnds, GoroutineRuns, TypeOK
    <3>2. HandlerLeft <= staleLeft
      BY <3>1 DEF HandlerBeforeTimer
    <3>3. (handler = "idle" /\ HandlerLeft' = 0) \/ HandlerLeft' + 1 = HandlerLeft
      BY <3>1, TimeTypes DEF HandlerLeft
    <3>4. staleLeft' + 1 = staleLeft
      BY <3>1, TimeTypes
    <3> QED
      BY <3>2, <3>3, <3>4, <3>1, TimeTypes, HandlerLeftStaysNatural, NextTypes
  <2> QED
    BY <2>1, <2>2, <2>4, <2>5, <2>6, <2>7 DEF Next
<1>3. TypeOK /\ HandlerBeforeTimer => (Ripe => HandlerLeft = 0)
  BY TimeTypes DEF HandlerBeforeTimer, Ripe
<1>4. Inv => TypeOK /\ TimeInv
  BY DEF Inv
<1> QED
  BY <1>1, <1>2, <1>3, <1>4, InvInductive, PTL DEF Spec

=============================================================================
