--------------------------- MODULE ControlChecker ---------------------------
(***************************************************************************)
(* The heartbeat that keeps the led-controller in control mode             *)
(* (PairingUI.go): a Go ticker and a goroutine for each start, of which    *)
(* only the latest ticker can be stopped.  A stopped ticker keeps the tick *)
(* it holds, and its goroutine waits on it for ever.  The goroutine looks  *)
(* at c.ticker when it first runs, which is before the next start.         *)
(***************************************************************************)
EXTENDS Naturals

CONSTANT MaxStarts     \* bound: calls of StartHeartbeat in one life of the process

ASSUME HeartbeatAssumption == MaxStarts \in Nat \ {0}

VARIABLES
  ticker,    \* c.ticker: tickers are numbered in the order they are made, 0 is nil
  running,   \* the tickers that have not been stopped
  ticked,    \* the tickers whose channel (of one place) holds a tick
  beat,      \* where the goroutine of each start is
  state      \* c.state: TRUE while rpcStateAwaitingResponse

heartbeatVars == <<ticker, running, ticked, beat, state>>

Starts == 1 .. MaxStarts

(* The types; and c.state says that a call is out only while one is.       *)
HeartbeatTypeOK ==
  /\ ticker \in 0 .. MaxStarts
  /\ running \in SUBSET Starts /\ ticked \in SUBSET Starts
  /\ beat \in [Starts -> {"none", "wait", "set", "call"}]
  /\ state \in BOOLEAN /\ (state => \E g \in Starts : beat[g] = "call")

HeartbeatInit ==
  /\ ticker = 0 /\ running = {} /\ ticked = {} /\ state = FALSE
  /\ beat = [g \in Starts |-> "none"]

GoesOn(g, from, to) == beat[g] = from /\ beat' = [beat EXCEPT ![g] = to]

(* StartHeartbeat, under the lock.                                         *)
StartHeartbeat ==
  /\ ticker < MaxStarts
  /\ ticker' = ticker + 1
  /\ running' = running \cup {ticker + 1}
  /\ beat' = [beat EXCEPT ![ticker + 1] = "wait"]
  /\ UNCHANGED <<ticked, state>>

StopHeartbeat_Nil ==
  /\ ticker' = 0 /\ running' = running \ {ticker}
  /\ UNCHANGED <<ticked, beat, state>>

(* StopHeartbeat; it returns whether there is a ticker at all.             *)
StopHeartbeat ==
  /\ running' = running \ {ticker}
  /\ UNCHANGED <<ticker, ticked, beat, state>>

StopReturns == ticker # 0

(* The runtime drops a tick that finds another in the channel.             *)
Ticks(t) ==
  /\ t \in running /\ t \notin ticked
  /\ ticked' = ticked \cup {t}
  /\ UNCHANGED <<ticker, running, beat, state>>

(* enableControl: skip the tick while a call is out.  The test and the     *)
(* store of state are two steps, and no lock is held.                      *)
Beats(g) ==
  /\ g \in ticked
  /\ GoesOn(g, "wait", IF state THEN "wait" ELSE "set")
  /\ ticked' = ticked \ {g}
  /\ UNCHANGED <<ticker, running, state>>

Calls(g) ==
  /\ GoesOn(g, "set", "call")
  /\ state' = TRUE
  /\ UNCHANGED <<ticker, running, ticked>>

CallReturns_StateKept(g) ==
  /\ GoesOn(g, "call", "wait")
  /\ UNCHANGED <<ticker, running, ticked, state>>

(* EnableControl answers, fails or times out; the deferred function runs.  *)
CallReturns(g) ==
  /\ GoesOn(g, "call", "wait")
  /\ state' = FALSE
  /\ UNCHANGED <<ticker, running, ticked>>

Heartbeat(g) == Beats(g) \/ Calls(g) \/ CallReturns(g)
=============================================================================
