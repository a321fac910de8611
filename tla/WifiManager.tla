---------------------------- MODULE WifiManager ----------------------------
(***************************************************************************)
(* WifiManager.go: the event loop copies the states of wpa_supplicant to   *)
(* every channel in the slice stateChange; SetCredentials adds a channel,  *)
(* selects a network and reads its channel until the network is connected  *)
(* or refused; in factory-reset mode the main loop exits once connected,   *)
(* but waits for the app to acknowledge credentials it provided.  Nothing  *)
(* locks the slice, ackPending or onAck.                                   *)
(*                                                                         *)
(* A channel holds 128 states and never fills here: MaxEvents is less.     *)
(***************************************************************************)
EXTENDS Naturals, Sequences, FiniteSets

CONSTANTS
  Attempts,      \* calls of SetCredentials, by RPC and HTTP clients
  Old,           \* the network that was configured before
  Main,          \* the main loop's place in stateChange
  Nil,
  MaxEvents      \* bound: events of wpa_supplicant

ASSUME WifiAssumption ==
  /\ Old \notin Attempts /\ Main \notin Attempts /\ Nil \notin Attempts \cup {Main}
  /\ IsFiniteSet(Attempts)
  /\ MaxEvents \in 0 .. 127

VARIABLES
  arrays,      \* the backing arrays Go has allocated for stateChange
  stateChange, \* the slice: which array, and how much of it
  chan,        \* the channel of each watcher
  pc,          \* where each call of SetCredentials is
  mine,        \* the slice append returned, not yet stored in stateChange
  events,      \* Controller.EventChannel
  emit,        \* what the event loop is emitting, over which slice, and how far it is
  ackPending, onAck,
  main,        \* where the main loop is: "receive", "register" or "exited"
  acker,       \* where a call of ConnectionAcknowledged is: "idle" or "callback"
  result,      \* what SetCredentials returned
  selected,    \* the network selected in wpa_supplicant
  nature,      \* the networks: "good", "bad_key" or "absent"
  link,        \* the network wlan0 is associated with
  emitted,     \* history: number of events
  due,         \* history: what each watcher has still to read
  acked,       \* history: an acknowledgement was heeded: "no", "early" (before any success), "yes"
  collided     \* history: a call was in WatchState while another was in it or in UnwatchState

sliceVars == <<arrays, stateChange, mine, collided>>
ackVars   == <<ackPending, onAck, main, acker, acked>>
wpaVars   == <<events, selected, nature, link, emitted>>
vars == <<sliceVars, chan, pc, emit, ackVars, result, wpaVars, due>>

Watchers == Attempts \cup {Main}
States == {"disconnected", "connected", "invalid_key"}
Slices == [array : Nat, len : Nat]
Idle == [state |-> "none", array |-> 0, len |-> 0, next |-> 1]

Elements(s) == {arrays[s.array][i] : i \in 1 .. s.len}

(* Types, and the shape of the slice: it lies within its backing array.    *)
TypeOK ==
  /\ arrays \in Seq(Seq(Watchers \cup {Nil}))
  /\ stateChange \in Slices /\ stateChange.array \in DOMAIN arrays
  /\ stateChange.len <= Len(arrays[stateChange.array])
  /\ chan \in [Watchers -> Seq(States)] /\ due \in [Watchers -> Seq(States)]
  /\ pc \in [Attempts -> {"idle", "watch", "store", "select", "wait", "unwatch", "done"}]
  /\ mine \in [Attempts -> Slices]
  /\ events \in Seq(States)
  /\ emit.state \in States \cup {"none"} /\ emit.next \in 1 .. emit.len + 1
  /\ ackPending \in BOOLEAN /\ onAck \in BOOLEAN /\ acked \in {"no", "early", "yes"}
  /\ main \in {"receive", "register", "exited"} /\ acker \in {"idle", "callback"}
  /\ result \in [Attempts -> {"none", "success", "failure"}]
  /\ selected \in Attempts \cup {Old} /\ link \in Attempts \cup {Old, Nil}
  /\ nature \in [Attempts \cup {Old} -> {"good", "bad_key", "absent"}]
  /\ emitted \in 0 .. MaxEvents
  /\ collided \in BOOLEAN

(* main has put its own place in the slice, and a first state into it.    *)
Init ==
  /\ arrays = << <<Main>> >> /\ stateChange = [array |-> 1, len |-> 1]
  /\ chan = [w \in Watchers |-> IF w = Main THEN <<"disconnected">> ELSE <<>>]
  /\ due = chan
  /\ pc = [a \in Attempts |-> "idle"]
  /\ mine = [a \in Attempts |-> [array |-> 0, len |-> 0]]
  /\ events = <<>> /\ emit = Idle
  /\ ackPending = FALSE /\ onAck = FALSE /\ main = "receive" /\ acker = "idle"
  /\ result = [a \in Attempts |-> "none"]
  /\ selected = Old
  /\ nature \in [Attempts \cup {Old} -> {"good", "bad_key", "absent"}]
  /\ link = Nil
  /\ emitted = 0 /\ acked = "no" /\ collided = FALSE

Running == main # "exited"

-----------------------------------------------------------------------------
(* SetCredentials.                                                         *)
Goes(a, from, to) == Running /\ pc[a] = from /\ pc' = [pc EXCEPT ![a] = to]

Begins(a) ==
  /\ Goes(a, "idle", "watch")
  /\ ackPending' = TRUE
  /\ UNCHANGED <<sliceVars, chan, emit, onAck, main, acker, acked, result, wpaVars, due>>

Appended_NeverGrows(a) ==
  /\ arrays' = [arrays EXCEPT ![stateChange.array] =
                  [i \in DOMAIN @ |-> IF i = stateChange.len + 1 THEN a ELSE @[i]]]
  /\ mine' = [mine EXCEPT ![a] = [stateChange EXCEPT !.len = @ + 1]]

(* append: write the next element of the array, or, when the array is      *)
(* full, of a copy of twice its size.                                      *)
Appended(a) ==
  LET s == stateChange
      old == arrays[s.array]
      grown == [i \in 1 .. 2 * Len(old) |->
                  IF i <= s.len THEN old[i] ELSE IF i = s.len + 1 THEN a ELSE Nil]
  IN IF s.len < Len(old)
       THEN /\ arrays' = [arrays EXCEPT ![s.array][s.len + 1] = a]
            /\ mine' = [mine EXCEPT ![a] = [array |-> s.array, len |-> s.len + 1]]
       ELSE /\ arrays' = Append(arrays, grown)
            /\ mine' = [mine EXCEPT ![a] = [array |-> Len(arrays) + 1, len |-> s.len + 1]]

Collides == collided' = (collided \/ \E a \in Attempts : pc[a] = "store")

(* WatchState: append, then store the slice.                               *)
Watches(a) ==
  /\ Goes(a, "watch", "store")
  /\ Appended(a) /\ Collides
  /\ UNCHANGED <<stateChange, chan, emit, ackVars, result, wpaVars, due>>

Stores(a) ==
  /\ Goes(a, "store", "select")
  /\ stateChange' = mine[a]
  /\ UNCHANGED <<arrays, mine, collided, chan, emit, ackVars, result, wpaVars, due>>

(* AddStandardNetwork selects the network and disables all others;         *)
(* reloading the configuration breaks the link.                            *)
Selects(a) ==
  /\ Goes(a, "select", "wait")
  /\ selected' = a
  /\ IF link # Nil /\ emitted < MaxEvents
       THEN /\ link' = Nil
            /\ events' = Append(events, "disconnected") /\ emitted' = emitted + 1
       ELSE link = Nil /\ UNCHANGED <<link, events, emitted>>
  /\ UNCHANGED <<sliceVars, chan, emit, ackVars, result, nature, due>>

(* A call that collided may be sent a state before one is due to it: it    *)
(* reads that too.                                                         *)
Reads(w) ==
  /\ chan[w] # <<>>
  /\ chan' = [chan EXCEPT ![w] = Tail(@)]
  /\ due' = [due EXCEPT ![w] = IF @ = <<>> THEN @ ELSE Tail(@)]

ReadsConnected(a) ==
  /\ Goes(a, "wait", "unwatch")
  /\ Reads(a) /\ Head(chan[a]) = "connected"
  /\ result' = [result EXCEPT ![a] = "success"]
  /\ UNCHANGED <<sliceVars, emit, ackVars, wpaVars>>

ReadsInvalidKey(a) ==
  /\ Goes(a, "wait", "unwatch")
  /\ Reads(a) /\ Head(chan[a]) = "invalid_key"
  /\ result' = [result EXCEPT ![a] = "failure"]
  /\ ackPending' = FALSE
  /\ UNCHANGED <<sliceVars, emit, onAck, main, acker, acked, wpaVars>>

ReadsDisconnected(a) ==
  /\ Goes(a, "wait", "wait")
  /\ Reads(a) /\ Head(chan[a]) = "disconnected"
  /\ UNCHANGED <<sliceVars, emit, ackVars, result, wpaVars>>

(* UnwatchState: the slots of the channel become nil.                      *)
Unwatches_Shifts(a) ==
  /\ Goes(a, "unwatch", "done")
  /\ LET s == stateChange
         others == SelectSeq(SubSeq(arrays[s.array], 1, s.len), LAMBDA w : w # a)
     IN /\ arrays' = [arrays EXCEPT ![s.array] =
                        [i \in DOMAIN @ |-> IF i <= Len(others) THEN others[i] ELSE Nil]]
        /\ stateChange' = [s EXCEPT !.len = Len(others)]
  /\ Collides
  /\ UNCHANGED <<mine, chan, emit, ackVars, result, wpaVars, due>>

Unwatches_Forgets(a) ==
  /\ Goes(a, "unwatch", "done")
  /\ UNCHANGED <<sliceVars, chan, emit, ackVars, result, wpaVars, due>>

Unwatches(a) ==
  /\ Goes(a, "unwatch", "done") /\ Collides
  /\ arrays' = [arrays EXCEPT ![stateChange.array] =
                  [i \in DOMAIN @ |-> IF @[i] = a /\ i <= stateChange.len THEN Nil ELSE @[i]]]
  /\ UNCHANGED <<stateChange, mine, chan, emit, ackVars, result, wpaVars, due>>

-----------------------------------------------------------------------------
(* eventLoop: take an event and emit it over the slice as it is now; the   *)
(* elements are read one by one.                                           *)
EventTaken ==
  /\ Running /\ emit.state = "none" /\ events # <<>>
  /\ emit' = [state |-> Head(events), array |-> stateChange.array,
              len |-> stateChange.len, next |-> 1]
  /\ events' = Tail(events)
  /\ due' = [w \in Watchers |->
               IF w = Main \/ pc[w] \in {"select", "wait"} THEN Append(due[w], Head(events))
               ELSE due[w]]
  /\ UNCHANGED <<sliceVars, chan, pc, ackVars, result, selected, nature, link, emitted>>

Emits ==
  /\ Running /\ emit.state # "none"
  /\ LET w == arrays[emit.array][emit.next] IN
       chan' = IF w = Nil THEN chan ELSE [chan EXCEPT ![w] = Append(@, emit.state)]
  /\ emit' = IF emit.next = emit.len THEN Idle ELSE [emit EXCEPT !.next = @ + 1]
  /\ UNCHANGED <<sliceVars, pc, ackVars, result, wpaVars, due>>

-----------------------------------------------------------------------------
(* The main loop in factory-reset mode: OnAcknowledgment reads ackPending, *)
(* then stores the callback, or exits.                                     *)
MainConnected_NoWait ==
  /\ main = "receive" /\ Reads(Main) /\ Head(chan[Main]) = "connected"
  /\ main' = "exited"
  /\ UNCHANGED <<sliceVars, pc, emit, ackPending, onAck, acker, acked, result, wpaVars>>

MainConnected ==
  /\ main = "receive" /\ Reads(Main) /\ Head(chan[Main]) = "connected"
  /\ main' = IF ackPending THEN "register" ELSE "exited"
  /\ UNCHANGED <<sliceVars, pc, emit, ackPending, onAck, acker, acked, result, wpaVars>>

MainRegisters ==
  /\ main = "register"
  /\ main' = "receive" /\ onAck' = TRUE
  /\ UNCHANGED <<sliceVars, chan, pc, emit, ackPending, acker, acked, result, wpaVars, due>>

MainOther ==
  /\ main = "receive" /\ Reads(Main) /\ Head(chan[Main]) # "connected"
  /\ UNCHANGED <<sliceVars, pc, emit, ackVars, result, wpaVars>>

(* ConnectionAcknowledged: nothing keeps a client from calling it before   *)
(* it has been told of a success.                                          *)
Success == \E a \in Attempts : pc[a] = "done" /\ result[a] = "success"

AppAcknowledges ==
  /\ Running /\ acker = "idle"
  /\ acked' = IF ackPending THEN IF Success THEN "yes" ELSE "early" ELSE acked
  /\ ackPending' = FALSE
  /\ acker' = IF ackPending THEN "callback" ELSE "idle"
  /\ UNCHANGED <<sliceVars, chan, pc, emit, onAck, main, result, wpaVars, due>>

CallsBack ==
  /\ Running /\ acker = "callback"
  /\ acker' = "idle"
  /\ main' = IF onAck THEN "exited" ELSE main
  /\ UNCHANGED <<sliceVars, chan, pc, emit, ackPending, onAck, acked, result, wpaVars, due>>

-----------------------------------------------------------------------------
(* wpa_supplicant.  A refused key is tried again later.                    *)
Event(s) ==
  /\ Running /\ emitted < MaxEvents
  /\ events' = Append(events, s) /\ emitted' = emitted + 1
  /\ UNCHANGED <<sliceVars, chan, pc, emit, ackVars, result, selected, nature, due>>

Associates ==
  /\ link = Nil /\ nature[selected] = "good"
  /\ Event("connected") /\ link' = selected

KeyRefused ==
  /\ link = Nil /\ nature[selected] = "bad_key"
  /\ Event("invalid_key")
  /\ UNCHANGED link

LinkLost ==
  /\ link # Nil
  /\ Event("disconnected") /\ link' = Nil

Next ==
  \/ \E a \in Attempts :
       \/ Begins(a) \/ Watches(a) \/ Stores(a) \/ Selects(a)
       \/ ReadsConnected(a) \/ ReadsInvalidKey(a) \/ ReadsDisconnected(a) \/ Unwatches(a)
  \/ EventTaken \/ Emits
  \/ MainConnected \/ MainRegisters \/ MainOther \/ AppAcknowledges \/ CallsBack
  \/ Associates \/ KeyRefused \/ LinkLost

Spec == Init /\ [][Next]_vars

-----------------------------------------------------------------------------
(* Between two emissions every watcher has received, in order, each state  *)
(* emitted since it was added, the main loop above all: it alone opens and *)
(* closes the pairing services.  Two calls that meet in WatchState may     *)
(* lose the channel of one.                                                *)
WatchersHearAll ==
  ~collided /\ emit.state = "none" =>
    \A w \in Watchers :
      w = Main \/ pc[w] \in {"select", "wait"} => chan[w] = due[w]

(* A channel stays in the slice only while a call reads it: the event loop *)
(* would block for ever, once 128 states have been sent to a channel that  *)
(* nobody reads, and the main loop would hear no more.  An UnwatchState    *)
(* within another call's WatchState may write to the array just left.      *)
NoOrphanWatcher ==
  ~collided => \A a \in Attempts \cap Elements(stateChange) : pc[a] # "done"

(* "We need to wait for app to acknowledge the connected state before we   *)
(* exit": once a call has succeeded the process exits only after the app   *)
(* has acknowledged a connection, unless another call has failed or a      *)
(* client has acknowledged too early; each clears ackPending for all.      *)
ExitAfterAck ==
  main = "exited" /\ (\E a \in Attempts : result[a] = "success") =>
    acked # "no" \/ \E a \in Attempts : result[a] = "failure"

(* "A callback which will be called once the app as indicated that it has  *)
(* seen the connected state": an acknowledgement that comes between the    *)
(* test of ackPending and the store of onAck must not lose the callback.   *)
CallbackNotLost == onAck /\ acked = "yes" /\ acker = "idle" /\ Running => ackPending
=============================================================================
