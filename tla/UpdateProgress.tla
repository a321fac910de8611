--------------------------- MODULE UpdateProgress ---------------------------
(***************************************************************************)
(* The update handlers of the two routers (wifi_setup_rpc.go,              *)
(* wifi_setup_http.go).  They share lastUpdateProgress, which the MQTT     *)
(* client writes as the update service reports, and which a handler that   *)
(* starts an update clears.  The RPC handlers run one at a time in the     *)
(* goroutine of the BLE server, the HTTP handlers in goroutines of their   *)
(* own; of these the model has one.  Nothing locks lastUpdateProgress.     *)
(***************************************************************************)
EXTENDS Naturals, Sequences

CONSTANTS
  MaxUpdates,    \* bound: updates the service runs
  MaxCalls,      \* bound: calls of start_update
  MaxBus         \* bound: messages on the bus when the service reports again

ASSUME UpdateAssumption == MaxUpdates \in Nat /\ MaxCalls \in Nat /\ MaxBus \in Nat

VARIABLES
  lastUpdateProgress,
  pc,          \* where each handler is
  call,        \* the number of the call it waits for
  accepted,    \* the update its last call has started
  server,      \* the BLE server: "open", "closing" (in five seconds) or "closed"
  asked,       \* calls the update service has not seen yet
  calls,       \* calls so far
  bus,         \* messages of the update service on their way, in order
  update,      \* the latest update, by number
  busy,        \* it is running
  told,        \* history: the latest update each client knows to have started
  wiped        \* history: a handler cleared progress of its own or a later update

handlerVars == <<pc, call, accepted>>
serviceVars == <<asked, calls, bus, update, busy>>
clearVars   == <<told, wiped>>
vars == <<lastUpdateProgress, handlerVars, serviceVars, server, clearVars>>

Callers == {"rpc", "http"}
Nil == [update |-> 0, running |-> FALSE]
Finished(p) == p.update # 0 /\ ~p.running

Updates == 0 .. MaxUpdates
Progress == [update : Updates, running : BOOLEAN]
Requests == [from : Callers, id : Nat]
Messages == [kind : {"progress"}, progress : Progress \ [update : {0}, running : BOOLEAN]]
       \cup [kind : {"reply"}, to : Requests, started : Updates]

(* Each variable in its range; only the RPC handler closes the server.     *)
TypeOK ==
  /\ lastUpdateProgress \in Progress
  /\ pc \in [Callers -> {"idle", "calling", "store", "decide"}] /\ pc["http"] # "decide"
  /\ call \in [Callers -> Nat] /\ accepted \in [Callers -> Updates] /\ told \in [Callers -> Updates]
  /\ server \in {"open", "closing", "closed"}
  /\ asked \in SUBSET Requests /\ calls \in Nat
  /\ bus \in Seq(Messages)
  /\ update \in Updates /\ busy \in BOOLEAN
  /\ wiped \in BOOLEAN

Init ==
  /\ lastUpdateProgress = Nil
  /\ pc = [c \in Callers |-> "idle"] /\ call = [c \in Callers |-> 0]
  /\ accepted = [c \in Callers |-> 0] /\ told = [c \in Callers |-> 0]
  /\ server = "open"
  /\ asked = {} /\ calls = 0 /\ bus = <<>> /\ update = 0 /\ busy = FALSE
  /\ wiped = FALSE

-----------------------------------------------------------------------------
(* start_update.                                                           *)
Goes(c, from, to) == pc[c] = from /\ pc' = [pc EXCEPT ![c] = to]

Reachable(c) == c = "rpc" => server # "closed"

StartUpdate(c) ==
  /\ Reachable(c) /\ calls < MaxCalls
  /\ Goes(c, "idle", "calling")
  /\ calls' = calls + 1
  /\ call' = [call EXCEPT ![c] = calls + 1]
  /\ asked' = asked \cup {[from |-> c, id |-> calls + 1]}
  /\ UNCHANGED <<lastUpdateProgress, accepted, bus, update, busy, server, clearVars>>

(* After ten seconds the client is told of an error, although the service  *)
(* may have started the update, or may still do so.                        *)
TimesOut(c) ==
  /\ Goes(c, "calling", "idle")
  /\ UNCHANGED <<lastUpdateProgress, call, accepted, serviceVars, server, clearVars>>

Tells(c) ==
  /\ Goes(c, "store", "idle")
  /\ told' = [told EXCEPT ![c] = accepted[c]]
  /\ UNCHANGED <<call, accepted, serviceVars, server>>

Clears_TellsOnly(c) == Tells(c) /\ UNCHANGED <<lastUpdateProgress, wiped>>

(* The handler clears the progress, and tells its client.                  *)
Clears(c) ==
  /\ Tells(c)
  /\ lastUpdateProgress' = Nil
  /\ wiped' = (wiped \/ accepted[c] \in 1 .. lastUpdateProgress.update)

-----------------------------------------------------------------------------
(* get_update_progress over RPC: it sends lastUpdateProgress, then looks   *)
(* at it again.  Over HTTP it is read once, and nothing depends on it.     *)
Sends ==
  /\ Reachable("rpc") /\ Goes("rpc", "idle", "decide")
  /\ UNCHANGED <<lastUpdateProgress, call, accepted, serviceVars, server, clearVars>>

DecidesOn(finished) ==
  /\ Goes("rpc", "decide", "idle")
  /\ server' = IF server = "open" /\ finished THEN "closing" ELSE server
  /\ UNCHANGED <<lastUpdateProgress, call, accepted, serviceVars, clearVars>>

Decides_NotRunning == DecidesOn(~lastUpdateProgress.running)
Decides == DecidesOn(Finished(lastUpdateProgress))

Closes ==
  /\ server = "closing" /\ server' = "closed"
  /\ UNCHANGED <<lastUpdateProgress, handlerVars, serviceVars, clearVars>>

-----------------------------------------------------------------------------
(* The MQTT client takes the messages in order.  A reply that nobody waits *)
(* for any more is dropped.                                                *)
Delivers(kind) ==
  /\ bus # <<>> /\ Head(bus).kind = kind
  /\ bus' = Tail(bus)
  /\ UNCHANGED <<asked, calls, update, busy, server, clearVars>>

ProgressDelivered ==
  /\ Delivers("progress")
  /\ lastUpdateProgress' = Head(bus).progress
  /\ UNCHANGED handlerVars

(* if response { lastUpdateProgress = nil }                                *)
AfterReply_Unread(started) == "store"
AfterReply(started) == IF started # 0 THEN "store" ELSE "idle"

ReplyDelivered ==
  /\ Delivers("reply")
  /\ LET c == Head(bus).to.from IN
       IF pc[c] = "calling" /\ call[c] = Head(bus).to.id
         THEN /\ pc' = [pc EXCEPT ![c] = AfterReply(Head(bus).started)]
              /\ accepted' = [accepted EXCEPT ![c] = Head(bus).started]
         ELSE UNCHANGED <<pc, accepted>>
  /\ UNCHANGED <<lastUpdateProgress, call>>

-----------------------------------------------------------------------------
(* The update service runs one update at a time.                           *)
Publishes(m) ==
  /\ bus' = Append(bus, m)
  /\ UNCHANGED <<lastUpdateProgress, handlerVars, calls, server, clearVars>>

ServiceStarts(r) ==
  /\ ~busy /\ update < MaxUpdates
  /\ Publishes([kind |-> "reply", to |-> r, started |-> update + 1])
  /\ update' = update + 1 /\ busy' = TRUE /\ asked' = asked \ {r}

ServiceRefuses(r) ==
  /\ Publishes([kind |-> "reply", to |-> r, started |-> 0])
  /\ asked' = asked \ {r}
  /\ UNCHANGED <<update, busy>>

ServiceReports(running) ==
  /\ busy /\ (running => Len(bus) < MaxBus)
  /\ Publishes([kind |-> "progress", progress |-> [update |-> update, running |-> running]])
  /\ busy' = running
  /\ UNCHANGED <<asked, update>>

Next ==
  \/ \E c \in Callers : StartUpdate(c) \/ TimesOut(c) \/ Clears(c)
  \/ Sends \/ Decides \/ Closes
  \/ ProgressDelivered \/ ReplyDelivered
  \/ \E r \in asked : ServiceStarts(r) \/ ServiceRefuses(r)
  \/ \E running \in BOOLEAN : ServiceReports(running)

Spec == Init /\ [][Next]_vars

-----------------------------------------------------------------------------
(* Once a client has been told that an update has started, no client is    *)
(* given the progress of an older one, least of all that it is finished,   *)
(* which closes the BLE server.                                            *)
ReportIsCurrent ==
  lastUpdateProgress # Nil => \A c \in Callers : lastUpdateProgress.update >= told[c]

(* A client that asks after the end is told of the end, however long its   *)
(* call of start_update took and whatever other clients called, unless a   *)
(* handler was so late to clear the progress that it cleared the new one.  *)
ProgressNotLost ==
  /\ update # 0 /\ ~busy
  /\ \A i \in DOMAIN bus : bus[i].kind # "progress"
  /\ \A c \in Callers : pc[c] # "store"
  /\ ~wiped
  => lastUpdateProgress = [update |-> update, running |-> FALSE]

(* The BLE server, and with it the pairing that the update is watched      *)
(* over, is given up only for an end: not while an update runs that a      *)
(* client knows to have started, whatever was left of the one before and   *)
(* however old the progress is that the decision looks at.                 *)
KeptOpenForUpdate ==
  [][server = "open" /\ server' # "open" =>
       \A c \in Callers : ~(busy /\ told[c] = update)]_vars
=============================================================================
