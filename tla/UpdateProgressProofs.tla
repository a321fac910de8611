------------------------ MODULE UpdateProgressProofs ------------------------
(***************************************************************************)
(* What the update handlers guarantee for any number of updates, calls and *)
(* messages on the bus.                                                    *)
(***************************************************************************)
EXTENDS UpdateProgress, TLAPS

Places == {"idle", "calling", "store", "decide"}

(* A sequence with one more element, or one less.                          *)
LEMMA BusAppend ==
  ASSUME NEW S, NEW s \in Seq(S), NEW m \in S
  PROVE  /\ Append(s, m) \in Seq(S) /\ DOMAIN Append(s, m) = 1 .. Len(s) + 1
         /\ Append(s, m)[Len(s) + 1] = m
         /\ \A i \in 1 .. Len(s) : Append(s, m)[i] = s[i]
OBVIOUS

LEMMA BusTail ==
  ASSUME NEW S, NEW s \in Seq(S), s # <<>>
  PROVE  /\ Tail(s) \in Seq(S) /\ DOMAIN Tail(s) = 1 .. Len(s) - 1
         /\ Len(s) \in Nat \ {0}
         /\ \A i \in 1 .. Len(s) - 1 : Tail(s)[i] = s[i + 1]
         /\ Head(s) = s[1] /\ Head(s) \in S
OBVIOUS

-----------------------------------------------------------------------------
(* What is published and what is delivered has its type.                   *)
LEMMA PublishedType ==
  /\ \A r \in Requests, n \in Updates :
       [kind |-> "reply", to |-> r, started |-> n] \in Messages
  /\ \A n \in Updates \ {0}, b \in BOOLEAN :
       [kind |-> "progress", progress |-> [update |-> n, running |-> b]] \in Messages
BY DEF Messages, Progress

LEMMA DeliveredType ==
  ASSUME NEW m \in Messages
  PROVE  /\ m.kind \in {"progress", "reply"}
         /\ m.kind = "progress" => m.progress \in Progress /\ m.progress.update # 0
         /\ m.kind = "reply" => m.to \in Requests /\ m.started \in Updates
BY DEF Messages, Progress

(* An update runs only once one has been started.                          *)
Started == busy => update # 0
TypeInv == TypeOK /\ Started

(* The handlers' part of the types (wifi_setup_rpc.go:138-183).            *)
LEMMA HandlerTypes ==
  ASSUME TypeOK, NEW c \in Callers,
         StartUpdate(c) \/ TimesOut(c) \/ Clears(c) \/ Sends \/ Decides \/ Closes
  PROVE  TypeOK'
<1> USE UpdateAssumption DEF TypeOK, Goes, serviceVars, clearVars, handlerVars, Callers
<1>1. CASE StartUpdate(c)
  <2>1. asked' \in SUBSET Requests /\ call' \in [Callers -> Nat] /\ calls' \in Nat
    BY <1>1 DEF StartUpdate, Requests
  <2>2. pc' \in [Callers -> Places] /\ pc'["http"] # "decide"
    BY <1>1 DEF StartUpdate, Places
  <2> QED BY <1>1, <2>1, <2>2 DEF StartUpdate, Places
<1>2. CASE TimesOut(c)
  BY <1>2 DEF TimesOut
<1>3. CASE Clears(c)
  <2>1. lastUpdateProgress' \in Progress
    BY <1>3 DEF Clears, Nil, Progress, Updates
  <2>2. pc' \in [Callers -> Places] /\ pc'["http"] # "decide" /\ told' \in [Callers -> Updates]
    BY <1>3 DEF Clears, Tells, Places
  <2>3. wiped' \in BOOLEAN
    BY <1>3 DEF Clears
  <2> QED BY <1>3, <2>1, <2>2, <2>3 DEF Clears, Tells, Places
<1>4. CASE Sends
  BY <1>4 DEF Sends
<1>5. CASE Decides
  BY <1>5 DEF Decides, DecidesOn
<1>6. CASE Closes
  BY <1>6 DEF Closes
<1> QED BY <1>1, <1>2, <1>3, <1>4, <1>5, <1>6

(* The types of what the bus carries.                                      *)
LEMMA BusTypes ==
  ASSUME TypeInv,
         \/ ProgressDelivered \/ ReplyDelivered
         \/ \E r \in asked : ServiceStarts(r) \/ ServiceRefuses(r)
         \/ \E running \in BOOLEAN : ServiceReports(running)
  PROVE  TypeOK'
<1> USE UpdateAssumption DEF TypeInv, Started, TypeOK, clearVars, handlerVars
<1>1. CASE ProgressDelivered
  <2>1. bus' \in Seq(Messages) /\ Head(bus) \in Messages
    BY <1>1, BusTail DEF ProgressDelivered, Delivers
  <2>2. lastUpdateProgress' \in Progress
    BY <1>1, <2>1, DeliveredType DEF ProgressDelivered, Delivers
  <2> QED BY <1>1, <2>1, <2>2 DEF ProgressDelivered, Delivers
<1>2. CASE ReplyDelivered
  <2>1. bus' \in Seq(Messages) /\ Head(bus) \in Messages
    BY <1>2, BusTail DEF ReplyDelivered, Delivers
  <2>2. Head(bus).to.from \in Callers /\ Head(bus).started \in Updates
    BY <1>2, <2>1, DeliveredType DEF ReplyDelivered, Delivers, Requests
  <2> DEFINE c == Head(bus).to.from
  <2>3. CASE pc[c] = "calling" /\ call[c] = Head(bus).to.id
    <3>1. pc' = [pc EXCEPT ![c] = AfterReply(Head(bus).started)]
          /\ accepted' = [accepted EXCEPT ![c] = Head(bus).started]
      BY <1>2, <2>3 DEF ReplyDelivered
    <3>2. AfterReply(Head(bus).started) \in {"store", "idle"}
      BY DEF AfterReply
    <3>3. /\ pc' \in [Callers -> Places] /\ pc'["http"] # "decide"
          /\ accepted' \in [Callers -> Updates]
      BY <2>2, <3>1, <3>2 DEF Places, Callers
    <3> QED BY <1>2, <2>1, <3>3 DEF ReplyDelivered, Delivers, Places
  <2>4. CASE ~(pc[c] = "calling" /\ call[c] = Head(bus).to.id)
    BY <1>2, <2>1, <2>4 DEF ReplyDelivered, Delivers
  <2> QED BY <2>3, <2>4
<1>3. ASSUME NEW r \in asked, ServiceStarts(r) PROVE TypeOK'
  <2>1. update' \in Updates /\ r \in Requests
    BY <1>3 DEF ServiceStarts, Updates
  <2>2. bus' \in Seq(Messages)
    BY <1>3, <2>1, PublishedType, BusAppend DEF ServiceStarts, Publishes
  <2> QED BY <1>3, <2>1, <2>2 DEF ServiceStarts, Publishes
<1>4. ASSUME NEW r \in asked, ServiceRefuses(r) PROVE TypeOK'
  <2>1. r \in Requests /\ 0 \in Updates
    BY DEF Updates
  <2>2. bus' \in Seq(Messages)
    BY <1>4, <2>1, PublishedType, BusAppend DEF ServiceRefuses, Publishes
  <2> QED BY <1>4, <2>2 DEF ServiceRefuses, Publishes
<1>5. ASSUME NEW running \in BOOLEAN, ServiceReports(running) PROVE TypeOK'
  <2>0. update \in Updates \ {0}
    BY <1>5 DEF ServiceReports
  <2>1. bus' \in Seq(Messages)
    BY <1>5, <2>0, PublishedType, BusAppend DEF ServiceReports, Publishes
  <2> QED BY <1>5, <2>1 DEF ServiceReports, Publishes
<1> QED BY <1>1, <1>2, <1>3, <1>4, <1>5

LEMMA TypeInvStep == TypeInv /\ [Next]_vars => TypeInv'
<1> SUFFICES ASSUME TypeInv, [Next]_vars PROVE TypeInv'
  OBVIOUS
<1>1. TypeOK'
  <2>1. CASE UNCHANGED vars
    BY <2>1 DEF vars, handlerVars, serviceVars, clearVars, TypeInv, TypeOK
  <2> QED BY <2>1, HandlerTypes, BusTypes DEF Next, TypeInv, Callers
<1>2. Started'
  <2> USE UpdateAssumption DEF TypeInv, TypeOK, Started, serviceVars, Updates
  <2>1. CASE \E r \in asked : ServiceStarts(r)
    BY <2>1 DEF ServiceStarts
  <2>2. CASE UNCHANGED update /\ (busy' => busy)
    BY <2>2
  <2> QED
    BY <2>1, <2>2
       DEF Next, vars, StartUpdate, TimesOut, Clears, Tells, Sends, Decides, DecidesOn, Closes,
           ProgressDelivered, ReplyDelivered, Delivers, ServiceRefuses, ServiceReports, Publishes
<1> QED BY <1>1, <1>2 DEF TypeInv

LEMMA TypeInvInit == Init => TypeInv
<1> SUFFICES ASSUME Init PROVE TypeInv
  OBVIOUS
<1> USE DEF Init
<1>1. 0 \in Updates
  BY UpdateAssumption DEF Updates
<1>2. Nil \in Progress
  BY <1>1 DEF Nil, Progress
<1>3. /\ pc \in [Callers -> Places] /\ pc["http"] # "decide"
      /\ call \in [Callers -> Nat] /\ accepted \in [Callers -> Updates]
      /\ told \in [Callers -> Updates]
  BY <1>1 DEF Callers, Places
<1>4. bus \in Seq(Messages) /\ asked \in SUBSET Requests /\ calls \in Nat
  OBVIOUS
<1> QED BY <1>1, <1>2, <1>3, <1>4 DEF TypeInv, TypeOK, Started, Places

(* For every bound the types hold.                                         *)
THEOREM TypesCorrect == Spec => []TypeOK
<1>1. TypeInv => TypeOK
  BY DEF TypeInv
<1> QED BY <1>1, TypeInvInit, TypeInvStep, PTL DEF Spec

-----------------------------------------------------------------------------
(* The update a message is about; 0 for a refusal.                         *)
About(m) == IF m.kind = "progress" THEN m.progress.update ELSE m.started

(* The update c knows of, or is about to tell its client of.               *)
Knows(c) == IF pc[c] = "store" THEN {told[c], accepted[c]} ELSE {told[c]}

(* The service's messages come in the order of its updates; what a handler *)
(* knows of is not newer than the progress still on its way, nor, once its *)
(* client is told, than lastUpdateProgress.                                *)
BusSorted ==
  \A i, j \in 1 .. Len(bus) : i < j /\ About(bus[j]) # 0 => About(bus[i]) <= About(bus[j])
BusUpTo == \A i \in 1 .. Len(bus) : About(bus[i]) <= update
KnownUpTo == \A c \in Callers : \A n \in Knows(c) : n <= update
KnownBefore ==
  \A i \in 1 .. Len(bus) : bus[i].kind = "progress" =>
    \A c \in Callers : \A n \in Knows(c) : n <= About(bus[i])
AcceptedStored == \A c \in Callers : pc[c] = "store" => accepted[c] # 0

OrderInv ==
  /\ BusSorted /\ BusUpTo /\ KnownUpTo /\ KnownBefore /\ AcceptedStored
  /\ ReportIsCurrent

LEMMA AboutType ==
  ASSUME NEW m \in Messages
  PROVE  About(m) \in Updates /\ About(m) \in Nat /\ (m.kind = "progress" => About(m) # 0)
BY DeliveredType, UpdateAssumption DEF About, Progress, Updates

(* A message of the latest update, or a refusal, is published.             *)
LEMMA PublishOrder ==
  ASSUME TypeInv, OrderInv, NEW m \in Messages, Publishes(m),
         update' \in Nat, update <= update', About(m) \in {0, update'}
  PROVE  OrderInv'
<1> USE DEF TypeInv, TypeOK, OrderInv, Publishes, handlerVars, clearVars
<1>1. /\ Len(bus') = Len(bus) + 1 /\ Len(bus) \in Nat
      /\ bus'[Len(bus) + 1] = m
      /\ \A i \in 1 .. Len(bus) : bus'[i] = bus[i] /\ About(bus[i]) \in Nat
  BY BusAppend, AboutType
<1>2. update \in Nat /\ \A c \in Callers : \A n \in Knows(c) : n \in Nat
  BY UpdateAssumption DEF Knows, Updates
<1>3. \A c \in Callers : Knows(c)' = Knows(c)
  BY DEF Knows
<1>4. BusSorted'
  <2> SUFFICES ASSUME NEW i \in 1 .. Len(bus'), NEW j \in 1 .. Len(bus'), i < j,
                      About(bus'[j]) # 0
               PROVE  About(bus'[i]) <= About(bus'[j])
    BY DEF BusSorted
  <2>1. i \in 1 .. Len(bus)
    BY <1>1
  <2>2. CASE j \in 1 .. Len(bus)
    BY <1>1, <2>1, <2>2 DEF BusSorted
  <2>3. CASE j = Len(bus) + 1
    <3>1. About(bus'[j]) = update'
      BY <1>1, <2>3
    <3>2. About(bus'[i]) \in Nat /\ About(bus'[i]) <= update
      BY <1>1, <2>1 DEF BusUpTo
    <3> QED BY <1>2, <3>1, <3>2
  <2>4. j \in 1 .. Len(bus) \/ j = Len(bus) + 1
    <3>1. Len(bus') = Len(bus) + 1 /\ Len(bus) \in Nat
      BY <1>1
    <3> QED BY ONLY <3>1, j \in 1 .. Len(bus')
  <2> QED BY <2>2, <2>3, <2>4
<1>5. BusUpTo' /\ KnownUpTo'
  BY <1>1, <1>2, <1>3 DEF BusUpTo, KnownUpTo
<1>6. KnownBefore'
  BY <1>1, <1>2, <1>3, AboutType DEF KnownBefore, KnownUpTo
<1>7. AcceptedStored' /\ ReportIsCurrent'
  BY DEF AcceptedStored, ReportIsCurrent
<1> QED BY <1>4, <1>5, <1>6, <1>7

(* The head of the bus is taken.                                           *)
LEMMA TailOrder ==
  ASSUME TypeInv, OrderInv, bus # <<>>, bus' = Tail(bus), UNCHANGED update
  PROVE  /\ BusSorted' /\ BusUpTo'
         /\ \A i \in 1 .. Len(bus') :
              /\ bus'[i] = bus[i + 1] /\ i + 1 \in 1 .. Len(bus)
              /\ bus'[i].kind = "progress" => About(bus[1]) <= About(bus'[i])
<1> USE DEF TypeInv, TypeOK, OrderInv
<1>1. /\ Len(bus') = Len(bus) - 1 /\ Len(bus) \in Nat \ {0}
      /\ \A i \in 1 .. Len(bus) - 1 : bus'[i] = bus[i + 1]
  BY BusTail
<1>2. \A i \in 1 .. Len(bus) : bus[i] \in Messages
  OBVIOUS
<1>3. \A i \in 1 .. Len(bus') : About(bus'[i]) # 0 => About(bus[1]) <= About(bus'[i])
  BY <1>1 DEF BusSorted
<1> QED BY <1>1, <1>2, <1>3, AboutType DEF BusSorted, BusUpTo

LEMMA OrderStep == TypeInv /\ OrderInv /\ [Next]_vars => OrderInv'
<1> SUFFICES ASSUME TypeInv, OrderInv, [Next]_vars PROVE OrderInv'
  OBVIOUS
<1> USE DEF TypeInv, TypeOK, handlerVars, serviceVars, clearVars
<1>0. update \in Nat
  BY UpdateAssumption DEF Updates
<1>1. ASSUME UNCHANGED <<bus, update, told, accepted, lastUpdateProgress>>,
             \A c \in Callers : pc'[c] = "store" => pc[c] = "store"
      PROVE  OrderInv'
  <2>1. \A c \in Callers : Knows(c)' \subseteq Knows(c)
    BY <1>1 DEF Knows
  <2> QED BY <1>1, <2>1 DEF OrderInv, BusSorted, BusUpTo, KnownUpTo, KnownBefore,
                            AcceptedStored, ReportIsCurrent
<1>2. ASSUME NEW c \in Callers, StartUpdate(c) \/ TimesOut(c) PROVE OrderInv'
  BY <1>1, <1>2 DEF StartUpdate, TimesOut, Goes
<1>3. CASE Sends \/ Decides \/ Closes
  BY <1>1, <1>3 DEF Sends, Decides, DecidesOn, Closes, Goes, Callers
<1>4. ASSUME NEW c \in Callers, Clears(c) PROVE OrderInv'
  <2>1. \A d \in Callers : Knows(d)' \subseteq Knows(d)
    BY <1>4 DEF Clears, Tells, Goes, Knows
  <2>2. AcceptedStored'
    BY <1>4 DEF Clears, Tells, Goes, OrderInv, AcceptedStored
  <2>3. ReportIsCurrent'
    BY <1>4 DEF Clears, ReportIsCurrent
  <2> QED BY <1>4, <2>1, <2>2, <2>3
       DEF Clears, Tells, OrderInv, BusSorted, BusUpTo, KnownUpTo, KnownBefore
<1>5. CASE ProgressDelivered
  <2>1. /\ bus # <<>> /\ bus' = Tail(bus) /\ UNCHANGED <<update, told, accepted, pc>>
        /\ lastUpdateProgress' = Head(bus).progress /\ Head(bus).kind = "progress"
    BY <1>5 DEF ProgressDelivered, Delivers
  <2>2. \A d \in Callers : Knows(d)' = Knows(d)
    BY <2>1 DEF Knows
  <2>3. 1 \in 1 .. Len(bus) /\ Head(bus) = bus[1]
    BY <2>1, BusTail
  <2>4. \A d \in Callers : told[d] <= lastUpdateProgress'.update
    BY <2>1, <2>3 DEF OrderInv, KnownBefore, Knows, About
  <2>5. ReportIsCurrent'
    <3>1. \A d \in Callers : lastUpdateProgress'.update >= told'[d]
      BY <2>1, <2>4
    <3> QED BY <3>1 DEF ReportIsCurrent
  <2>6. KnownBefore'
    BY <2>1, <2>2, TailOrder DEF OrderInv, KnownBefore
  <2> QED BY <2>1, <2>2, <2>5, <2>6, TailOrder DEF OrderInv, KnownUpTo, AcceptedStored
<1>6. CASE ReplyDelivered
  <2>1. /\ bus # <<>> /\ bus' = Tail(bus) /\ UNCHANGED <<update, told, lastUpdateProgress>>
        /\ Head(bus).kind = "reply"
    BY <1>6 DEF ReplyDelivered, Delivers
  <2>2. 1 \in 1 .. Len(bus) /\ Head(bus) = bus[1] /\ Head(bus) \in Messages
    BY <2>1, BusTail
  <2> DEFINE n == Head(bus).started
  <2>3. About(bus[1]) = n /\ n <= update
    BY <2>1, <2>2 DEF About, OrderInv, BusUpTo
  <2>4. \A d \in Callers : Knows(d)' \subseteq Knows(d) \cup {n}
    BY <1>6, <2>1, <2>2, DeliveredType DEF ReplyDelivered, Knows, Requests, AfterReply
  <2>5. AcceptedStored'
    BY <1>6, <2>2, <2>1, DeliveredType
       DEF ReplyDelivered, OrderInv, AcceptedStored, Requests, AfterReply
  <2>6. KnownUpTo'
    BY <2>1, <2>3, <2>4 DEF OrderInv, KnownUpTo
  <2>7. KnownBefore'
    BY <2>1, <2>3, <2>4, TailOrder DEF OrderInv, KnownBefore
  <2>8. ReportIsCurrent'
    BY <2>1 DEF OrderInv, ReportIsCurrent
  <2> QED BY <2>1, <2>5, <2>6, <2>7, <2>8, TailOrder DEF OrderInv
<1>7. ASSUME NEW r \in asked, ServiceStarts(r) PROVE OrderInv'
  <2> DEFINE m == [kind |-> "reply", to |-> r, started |-> update + 1]
  <2>1. m \in Messages
    <3>1. r \in Requests /\ update + 1 \in Updates
      BY <1>7, UpdateAssumption DEF ServiceStarts, Updates
    <3> QED BY <3>1, PublishedType
  <2>2. About(m) = update + 1
    BY DEF About
  <2> HIDE DEF m
  <2> QED BY <1>0, <1>7, <2>1, <2>2, PublishOrder DEF ServiceStarts, m
<1>8. ASSUME NEW r \in asked, ServiceRefuses(r) PROVE OrderInv'
  <2> DEFINE m == [kind |-> "reply", to |-> r, started |-> 0]
  <2>1. m \in Messages
    <3>1. r \in Requests /\ 0 \in Updates
      BY <1>8, UpdateAssumption DEF Updates
    <3> QED BY <3>1, PublishedType
  <2>2. About(m) = 0
    BY DEF About
  <2> HIDE DEF m
  <2> QED BY <1>0, <1>8, <2>1, <2>2, PublishOrder DEF ServiceRefuses, m
<1>9. ASSUME NEW running \in BOOLEAN, ServiceReports(running) PROVE OrderInv'
  <2> DEFINE m == [kind |-> "progress", progress |-> [update |-> update, running |-> running]]
  <2>1. m \in Messages
    BY <1>9, PublishedType DEF ServiceReports, Started
  <2>2. About(m) = update
    BY DEF About
  <2> HIDE DEF m
  <2> QED BY <1>0, <1>9, <2>1, <2>2, PublishOrder DEF ServiceReports, m
<1>10. CASE UNCHANGED vars
  BY <1>1, <1>10 DEF vars
<1> QED
  BY <1>2, <1>3, <1>4, <1>5, <1>6, <1>7, <1>8, <1>9, <1>10 DEF Next

LEMMA InitialOrder == ASSUME Init PROVE OrderInv
<1>1. Len(bus) = 0
  BY DEF Init
<1> QED BY <1>1 DEF Init, OrderInv, BusSorted, BusUpTo, KnownUpTo, KnownBefore, AcceptedStored,
                    ReportIsCurrent, Knows, Callers

(* For every bound, no client is given the progress of an update older     *)
(* than the one that a client knows to have started.                       *)
THEOREM ReportsAreCurrent == Spec => []ReportIsCurrent
<1>1. OrderInv => ReportIsCurrent
  BY DEF OrderInv
<1> QED BY <1>1, InitialOrder, OrderStep, TypeInvInit, TypeInvStep, PTL DEF Spec

-----------------------------------------------------------------------------
(* When no update runs, the end of the latest is the last progress on its  *)
(* way, or it is in lastUpdateProgress unless a handler has cleared it.    *)
Final == [update |-> update, running |-> FALSE]
NoProgress(i) == bus[i].kind # "progress"

EndOnItsWay ==
  \E i \in 1 .. Len(bus) :
    /\ bus[i].kind = "progress" /\ bus[i].progress = Final
    /\ \A j \in 1 .. Len(bus) : j > i => NoProgress(j)

EndKnown ==
  /\ \A i \in 1 .. Len(bus) : NoProgress(i)
  /\ wiped \/ lastUpdateProgress = Final

EndInv == update # 0 /\ ~busy => EndOnItsWay \/ EndKnown

LEMMA EndStep == TypeInv /\ OrderInv /\ EndInv /\ [Next]_vars => EndInv'
<1> SUFFICES ASSUME TypeInv, OrderInv, EndInv, [Next]_vars, update' # 0, ~busy'
             PROVE  EndOnItsWay' \/ EndKnown'
  BY DEF EndInv
<1> USE DEF TypeInv, TypeOK, handlerVars, serviceVars, clearVars, NoProgress, Final
<1>1. ASSUME UNCHANGED <<bus, update, busy>>, lastUpdateProgress' = lastUpdateProgress \/ wiped',
             wiped => wiped'
      PROVE  EndOnItsWay' \/ EndKnown'
  BY <1>1 DEF EndInv, EndOnItsWay, EndKnown
<1>2. ASSUME NEW c \in Callers, StartUpdate(c) \/ TimesOut(c) PROVE EndOnItsWay' \/ EndKnown'
  BY <1>1, <1>2 DEF StartUpdate, TimesOut
<1>3. CASE Sends \/ Decides \/ Closes
  BY <1>1, <1>3 DEF Sends, Decides, DecidesOn, Closes
<1>4. ASSUME NEW c \in Callers, Clears(c) PROVE EndOnItsWay' \/ EndKnown'
  <2>1. UNCHANGED <<bus, update, busy>> /\ (wiped => wiped')
    BY <1>4 DEF Clears, Tells
  <2>2. CASE EndOnItsWay
    BY <2>1, <2>2 DEF EndOnItsWay
  <2>3. CASE EndKnown
    <3>1. accepted[c] \in 1 .. update
      BY <1>4, UpdateAssumption
         DEF Clears, Tells, Goes, OrderInv, AcceptedStored, KnownUpTo, Knows, Updates
    <3>2. wiped'
      <4>1. accepted[c] \in 1 .. lastUpdateProgress.update => wiped'
        BY <1>4 DEF Clears
      <4>2. lastUpdateProgress = Final => lastUpdateProgress.update = update
        OBVIOUS
      <4> QED BY <2>1, <2>3, <3>1, <4>1, <4>2 DEF EndKnown
    <3> QED BY <2>1, <2>3, <3>2 DEF EndKnown
  <2> QED BY <2>1, <2>2, <2>3 DEF EndInv
<1>5. CASE ProgressDelivered \/ ReplyDelivered
  <2>1. /\ bus # <<>> /\ bus' = Tail(bus) /\ UNCHANGED <<update, busy, wiped>>
    BY <1>5 DEF ProgressDelivered, ReplyDelivered, Delivers
  <2>2. /\ Len(bus') = Len(bus) - 1 /\ Len(bus) \in Nat \ {0} /\ Head(bus) = bus[1]
        /\ \A i \in 1 .. Len(bus') : bus'[i] = bus[i + 1]
    BY <2>1, BusTail
  <2>3. CASE EndKnown
    <3>1. ReplyDelivered
      BY <1>5, <2>2, <2>3 DEF ProgressDelivered, Delivers, EndKnown
    <3>2. \A i \in 1 .. Len(bus') : i + 1 \in 1 .. Len(bus)
      BY <2>2
    <3> QED BY <2>1, <2>2, <2>3, <3>1, <3>2 DEF EndKnown, ReplyDelivered
  <2>4. CASE EndOnItsWay
    <3>1. PICK i \in 1 .. Len(bus) :
            /\ bus[i].kind = "progress" /\ bus[i].progress = Final
            /\ \A j \in 1 .. Len(bus) : j > i => NoProgress(j)
      BY <2>4 DEF EndOnItsWay
    <3>2. CASE i = 1
      <4>1. lastUpdateProgress' = Final
        BY <1>5, <2>2, <3>1, <3>2 DEF ProgressDelivered, ReplyDelivered, Delivers
      <4>2. \A j \in 1 .. Len(bus') : j + 1 \in 1 .. Len(bus) /\ j + 1 > 1
        BY <2>2
      <4> QED BY <2>1, <2>2, <3>1, <3>2, <4>1, <4>2 DEF EndKnown
    <3>3. CASE i # 1
      <4>1. i - 1 \in 1 .. Len(bus') /\ bus'[i - 1] = bus[i]
        BY <2>2, <3>3
      <4>2. \A j \in 1 .. Len(bus') : j > i - 1 => j + 1 \in 1 .. Len(bus) /\ j + 1 > i
        BY <2>2
      <4>3. bus'[i - 1].kind = "progress" /\ bus'[i - 1].progress = Final'
        BY <2>1, <3>1, <4>1
      <4>4. \A j \in 1 .. Len(bus') : j > i - 1 => bus'[j].kind # "progress"
        BY <2>2, <3>1, <4>2
      <4> QED BY <4>1, <4>3, <4>4 DEF EndOnItsWay
    <3> QED BY <3>2, <3>3
  <2> QED BY <2>1, <2>3, <2>4 DEF EndInv
<1>6. ASSUME NEW r \in asked, ServiceStarts(r) PROVE FALSE
  BY <1>6 DEF ServiceStarts
<1>7. ASSUME NEW r \in asked, ServiceRefuses(r) PROVE EndOnItsWay' \/ EndKnown'
  <2> DEFINE m == [kind |-> "reply", to |-> r, started |-> 0]
  <2>1. /\ Len(bus') = Len(bus) + 1 /\ Len(bus) \in Nat /\ bus'[Len(bus) + 1].kind # "progress"
        /\ \A i \in 1 .. Len(bus) : bus'[i] = bus[i] /\ i \in 1 .. Len(bus')
    <3>1. m \in Messages /\ m.kind # "progress"
      <4>1. r \in Requests /\ 0 \in Updates
        BY <1>7, UpdateAssumption DEF Updates
      <4> QED BY <4>1, PublishedType
    <3> HIDE DEF m
    <3> QED BY <1>7, <3>1, BusAppend DEF ServiceRefuses, Publishes, m
  <2>2. \A j \in 1 .. Len(bus') : j \in 1 .. Len(bus) \/ j = Len(bus) + 1
    BY <2>1
  <2>3. UNCHANGED <<update, busy, wiped, lastUpdateProgress>>
    BY <1>7 DEF ServiceRefuses, Publishes
  <2>4. CASE EndKnown
    BY <2>1, <2>2, <2>3, <2>4 DEF EndKnown
  <2>5. CASE EndOnItsWay
    BY <2>1, <2>2, <2>3, <2>5 DEF EndOnItsWay
  <2> QED BY <2>3, <2>4, <2>5 DEF EndInv
<1>8. ASSUME NEW running \in BOOLEAN, ServiceReports(running) PROVE EndOnItsWay'
  <2> DEFINE m == [kind |-> "progress", progress |-> Final]
  <2>1. bus' = Append(bus, m) /\ update' = update /\ update # 0
    BY <1>8 DEF ServiceReports, Publishes, Started
  <2>2. m \in Messages
    BY <2>1, PublishedType
  <2>3. Len(bus') = Len(bus) + 1 /\ Len(bus) \in Nat /\ bus'[Len(bus) + 1] = m
    <3> HIDE DEF m
    <3> QED BY <2>1, <2>2, BusAppend
  <2>4. Len(bus) + 1 \in 1 .. Len(bus') /\ ~\E j \in 1 .. Len(bus') : j > Len(bus) + 1
    BY <2>3
  <2>5. bus'[Len(bus) + 1].kind = "progress" /\ bus'[Len(bus) + 1].progress = Final'
    BY <2>1, <2>3
  <2> QED BY <2>4, <2>5 DEF EndOnItsWay
<1>9. CASE UNCHANGED vars
  BY <1>1, <1>9 DEF vars
<1> QED BY <1>2, <1>3, <1>4, <1>5, <1>6, <1>7, <1>8, <1>9 DEF Next

(* For every bound, a client that asks after the end is told of the end,   *)
(* unless a handler has cleared it.                                        *)
THEOREM EndIsNotLost == Spec => []ProgressNotLost
<1>1. Init => OrderInv /\ EndInv
  <2> SUFFICES ASSUME Init PROVE OrderInv /\ EndInv
    OBVIOUS
  <2>1. OrderInv
    BY InitialOrder
  <2> QED BY <2>1 DEF Init, EndInv
<1>2. EndInv /\ TypeInv => ProgressNotLost
  BY DEF EndInv, EndOnItsWay, EndKnown, Final, NoProgress, ProgressNotLost, TypeInv, TypeOK
<1> QED BY <1>1, <1>2, OrderStep, EndStep, TypeInvInit, TypeInvStep, PTL DEF Spec
-----------------------------------------------------------------------------
(* Progress of an update that has ended is not of the one that runs,       *)
(* neither what was stored nor what is on its way.                         *)
StillRunning(p) == busy /\ p.update = update => p.running
RunningInv ==
  /\ lastUpdateProgress.update <= update
  /\ StillRunning(lastUpdateProgress)
  /\ \A i \in 1 .. Len(bus) : bus[i].kind = "progress" => StillRunning(bus[i].progress)

LEMMA RunningStep == TypeInv /\ OrderInv /\ RunningInv /\ [Next]_vars => RunningInv'
<1> SUFFICES ASSUME TypeInv, OrderInv, RunningInv, [Next]_vars PROVE RunningInv'
  OBVIOUS
<1> USE DEF TypeInv, TypeOK, handlerVars, serviceVars, clearVars
<1>0. update \in Nat /\ lastUpdateProgress.update \in Nat
  BY UpdateAssumption DEF Updates, Progress
<1>1. ASSUME UNCHANGED <<bus, update, busy>>, lastUpdateProgress' \in {lastUpdateProgress, Nil}
      PROVE  RunningInv'
  <2>1. CASE UNCHANGED lastUpdateProgress
    BY <1>1, <2>1 DEF RunningInv, StillRunning
  <2>2. CASE lastUpdateProgress' = Nil
    <3>1. Nil.update = 0 /\ 0 <= update /\ (busy => update # 0)
      BY <1>0 DEF Nil, Started
    <3> QED BY <1>1, <2>2, <3>1 DEF RunningInv, StillRunning
  <2> QED BY <1>1, <2>1, <2>2
<1>2. ASSUME NEW c \in Callers, StartUpdate(c) \/ TimesOut(c) \/ Clears(c) PROVE RunningInv'
  BY <1>1, <1>2 DEF StartUpdate, TimesOut, Clears, Tells
<1>3. CASE Sends \/ Decides \/ Closes
  BY <1>1, <1>3 DEF Sends, Decides, DecidesOn, Closes
<1>4. CASE ProgressDelivered \/ ReplyDelivered
  <2>1. bus # <<>> /\ bus' = Tail(bus) /\ UNCHANGED <<update, busy>>
    BY <1>4 DEF ProgressDelivered, ReplyDelivered, Delivers
  <2>2. /\ Head(bus) = bus[1] /\ 1 \in 1 .. Len(bus)
        /\ \A i \in 1 .. Len(bus') : bus'[i] = bus[i + 1] /\ i + 1 \in 1 .. Len(bus)
    BY <2>1, BusTail
  <2>3. CASE ProgressDelivered
    <3>1. lastUpdateProgress' = bus[1].progress /\ bus[1].kind = "progress"
      BY <2>2, <2>3 DEF ProgressDelivered, Delivers
    <3>2. bus[1].progress.update <= update
      BY <2>2, <3>1 DEF OrderInv, BusUpTo, About
    <3> QED BY <2>1, <2>2, <3>1, <3>2 DEF RunningInv, StillRunning
  <2>4. CASE ReplyDelivered
    BY <2>1, <2>2, <2>4 DEF RunningInv, StillRunning, ReplyDelivered
  <2> QED BY <1>4, <2>3, <2>4
<1>5. ASSUME NEW r \in asked, ServiceStarts(r) \/ ServiceRefuses(r) PROVE RunningInv'
  <2>1. /\ \E n \in Updates : bus' = Append(bus, [kind |-> "reply", to |-> r, started |-> n])
        /\ UNCHANGED lastUpdateProgress
        /\ UNCHANGED <<update, busy>> \/ update' = update + 1
    <3>1. 0 \in Updates /\ (update < MaxUpdates => update + 1 \in Updates)
      BY <1>0, UpdateAssumption DEF Updates
    <3> QED BY <1>5, <3>1 DEF ServiceStarts, ServiceRefuses, Publishes
  <2>2. PICK n \in Updates : bus' = Append(bus, [kind |-> "reply", to |-> r, started |-> n])
    BY <2>1
  <2>3. [kind |-> "reply", to |-> r, started |-> n] \in Messages
    <3>1. r \in Requests
      BY <1>5
    <3> QED BY <3>1, PublishedType
  <2>4. /\ bus'[Len(bus) + 1].kind = "reply"
        /\ \A i \in 1 .. Len(bus') : i = Len(bus) + 1 \/ (i \in 1 .. Len(bus) /\ bus'[i] = bus[i])
    BY <2>2, <2>3, BusAppend
  <2>5. \A i \in 1 .. Len(bus) : bus[i].kind = "progress" => bus[i].progress.update <= update
    BY DEF OrderInv, BusUpTo, About
  <2>6. \A i \in 1 .. Len(bus) : bus[i].kind = "progress" => bus[i].progress.update \in Nat
    <3>1. \A i \in 1 .. Len(bus) : bus[i] \in Messages
      OBVIOUS
    <3> QED BY <3>1, DeliveredType, UpdateAssumption DEF Progress, Updates
  <2>7. \A i \in 1 .. Len(bus') :
          bus'[i].kind = "progress" => i \in 1 .. Len(bus) /\ bus'[i] = bus[i]
    BY <2>4
  <2>8. CASE UNCHANGED <<update, busy>>
    BY <2>1, <2>7, <2>8 DEF RunningInv, StillRunning
  <2>9. CASE update' = update + 1
    <3>1. \A k \in Nat : k <= update => k # update + 1 /\ k <= update + 1
      BY <1>0
    <3> QED BY <1>0, <2>1, <2>5, <2>6, <2>7, <2>9, <3>1 DEF RunningInv, StillRunning
  <2> QED BY <2>1, <2>8, <2>9
<1>6. ASSUME NEW running \in BOOLEAN, ServiceReports(running) PROVE RunningInv'
  <2> DEFINE m == [kind |-> "progress", progress |-> [update |-> update, running |-> running]]
  <2>1. m \in Messages
    BY <1>6, PublishedType DEF ServiceReports, Started
  <2>2. m.progress.running = running
    OBVIOUS
  <2>3. /\ bus' = Append(bus, m) /\ busy' = running /\ busy
        /\ UNCHANGED <<update, lastUpdateProgress>>
    BY <1>6 DEF ServiceReports, Publishes
  <2> HIDE DEF m
  <2>4. /\ bus'[Len(bus) + 1] = m
        /\ \A i \in 1 .. Len(bus') : i = Len(bus) + 1 \/ (i \in 1 .. Len(bus) /\ bus'[i] = bus[i])
    BY <2>1, <2>3, BusAppend
  <2>5. \A i \in 1 .. Len(bus') : bus'[i].kind = "progress" =>
          (busy' /\ bus'[i].progress.update = update' => bus'[i].progress.running)
    <3> SUFFICES ASSUME NEW i \in 1 .. Len(bus'), bus'[i].kind = "progress",
                        busy', bus'[i].progress.update = update'
                 PROVE  bus'[i].progress.running
      OBVIOUS
    <3>1. CASE i = Len(bus) + 1
      BY <2>2, <2>3, <2>4, <3>1
    <3>2. CASE i \in 1 .. Len(bus) /\ bus'[i] = bus[i]
      BY <2>3, <3>2 DEF StillRunning, RunningInv
    <3> QED BY <2>4, <3>1, <3>2
  <2>6. StillRunning(lastUpdateProgress)' /\ lastUpdateProgress'.update <= update'
    BY <2>3 DEF StillRunning, RunningInv
  <2> QED BY <2>5, <2>6 DEF RunningInv, StillRunning
<1>7. CASE UNCHANGED vars
  BY <1>1, <1>7 DEF vars
<1> QED BY <1>2, <1>3, <1>4, <1>5, <1>6, <1>7 DEF Next

(* For every bound, the BLE server is not given up while an update runs    *)
(* that a client knows to have started.                                    *)
THEOREM ServerKeptForUpdate == Spec => KeptOpenForUpdate
<1>1. Init => RunningInv
  <2> SUFFICES ASSUME Init PROVE RunningInv
    OBVIOUS
  <2>1. Len(bus) = 0 /\ Nil.update = 0
    BY DEF Init, Nil
  <2> QED BY <2>1 DEF Init, RunningInv, StillRunning
<1>2. TypeInv /\ OrderInv /\ RunningInv /\ [Next]_vars
      => [server = "open" /\ server' # "open" =>
            \A c \in Callers : ~(busy /\ told[c] = update)]_vars
  <2> SUFFICES ASSUME TypeInv, OrderInv, RunningInv, [Next]_vars,
                      server = "open", server' # "open",
                      NEW c \in Callers, busy, told[c] = update
               PROVE  FALSE
    OBVIOUS
  <2>1. Decides
    BY DEF Next, vars, StartUpdate, TimesOut, Clears, Tells, Sends, Closes, ProgressDelivered,
           ReplyDelivered, Delivers, ServiceStarts, ServiceRefuses, ServiceReports, Publishes
  <2>2. lastUpdateProgress.update # 0 /\ ~lastUpdateProgress.running
    BY <2>1 DEF Decides, DecidesOn, Finished
  <2>3. lastUpdateProgress.update >= update
    BY <2>2 DEF OrderInv, ReportIsCurrent, Nil
  <2>4. lastUpdateProgress.update <= update
    BY DEF RunningInv
  <2>5. lastUpdateProgress.update = update
    <3>1. update \in Nat /\ lastUpdateProgress.update \in Nat
      BY UpdateAssumption DEF TypeInv, TypeOK, Updates, Progress
    <3> QED BY ONLY <2>3, <2>4, <3>1
  <2> QED BY <2>2, <2>5 DEF RunningInv, StillRunning
<1> QED
  BY <1>1, <1>2, InitialOrder, OrderStep, RunningStep, TypeInvInit, TypeInvStep, PTL
     DEF Spec, KeptOpenForUpdate
=============================================================================
