---------------------------- MODULE ResetButton ----------------------------
(***************************************************************************)
(* The reset-button monitor (reset-button.go): one goroutine that samples  *)
(* a GPIO line and one Go timer, and moves through the states rest,        *)
(* select, grace, abort and commit; reset-helper.sh and the wrapper script *)
(* carry out what was committed.                                           *)
(*                                                                         *)
(* Time is counted in sampling periods (shortDelay).  A period can only    *)
(* end while the goroutine is blocked: in the select statement with        *)
(* nothing to receive, or in the display callback, which performs an RPC.  *)
(***************************************************************************)
EXTENDS Naturals, Sequences

CONSTANTS
  SelectionDelay,       \* how long a mode is offered
  SafeGraceDelay,       \* grace period of halt and reboot
  DangerousGraceDelay,  \* grace period of the two resets
  AbortDelay,           \* length of the white flash
  DisplayDelay,         \* the longest a display RPC may block (0: it answers at once)
  GpioFaults            \* TRUE: reading the line may fail or return garbage

ASSUME DelaysAssumption ==
  /\ SelectionDelay \in Nat \ {0}
  /\ SafeGraceDelay \in Nat \ {0}
  /\ DangerousGraceDelay \in Nat \ {0}
  /\ AbortDelay \in Nat \ {0}
  /\ DisplayDelay \in Nat
ASSUME FaultsAssumption == GpioFaults \in BOOLEAN

modeCycle == <<"halt", "reboot", "reset-userdata", "reset-root", "abort",
               "reset-root", "reset-userdata", "reboot", "halt", "abort">>
Mode(i) == modeCycle[i + 1]

VARIABLES
  current,     \* the state of the machine
  modeIndex,   \* index into modeCycle (from 0)
  down,        \* the loop's memory of the button
  pc,          \* where the goroutine is
  resume,      \* where it continues after the display callback
  blocked,     \* periods it has spent in the display callback
  timer,       \* periods until r.timeout expires, 0 when it is not running
  firing,      \* the timer has expired, its value is not yet in the channel
  timeoutC,    \* the channel r.timeout.C holds a value
  stray,       \* history: that value, or the one to come, is of a timer Stop came too late for
  ticksC,      \* the channel r.ticks.C holds a value
  outcome,     \* what was done to the machine
  button,      \* the GPIO line: the button is physically held
  age,         \* history: periods since current was entered, up to its delay
  pressedFor   \* history: length of the present or last press, up to SelectionDelay

loopVars  == <<current, modeIndex, down, pc, resume, blocked>>
timerVars == <<timer, firing, timeoutC, stray>>
vars == <<loopVars, timerVars, ticksC, outcome, button, age, pressedFor>>

States == {"rest", "select", "grace", "abort", "commit"}
Outcomes == {"none", "halt", "reboot", "reset-userdata", "factory-reset"}

(* The time each state's onEnter gives the timer; 0 leaves it stopped.     *)
GraceDelay(m) ==
  IF Mode(m) \in {"reset-userdata", "reset-root"}
    THEN DangerousGraceDelay ELSE SafeGraceDelay

Delay(s, m) ==
  CASE s = "select" -> SelectionDelay
    [] s = "grace"  -> GraceDelay(m)
    [] s = "abort"  -> AbortDelay
    [] OTHER        -> 0

(* Type correctness: the index stays inside modeCycle, and neither the     *)
(* timer nor the time spent in a state exceeds what onEnter asked for.     *)
TypeOK ==
  /\ current \in States /\ modeIndex \in 0 .. Len(modeCycle) - 1
  /\ down \in BOOLEAN /\ button \in BOOLEAN
  /\ pc \in {"sample", "wait", "display", "commit", "aborted", "exited", "reset"}
  /\ resume \in {"sample", "wait"}
  /\ blocked \in 0 .. DisplayDelay
  /\ timer \in Nat /\ timer <= Delay(current, modeIndex)
  /\ age \in Nat /\ age <= Delay(current, modeIndex)
  /\ firing \in BOOLEAN /\ timeoutC \in BOOLEAN /\ stray \in BOOLEAN /\ ticksC \in BOOLEAN
  /\ outcome \in Outcomes
  /\ pressedFor \in 0 .. SelectionDelay

Init ==
  /\ current = "rest" /\ modeIndex = 0
  /\ down = FALSE /\ button \in BOOLEAN
  /\ pc = "display" /\ resume = "sample" /\ blocked = 0
  /\ timer = 0 /\ timeoutC = FALSE
  /\ firing \in BOOLEAN /\ stray = firing   \* NewTimer(0), then Stop
  /\ ticksC = FALSE
  /\ outcome = "none"
  /\ age = 0 /\ pressedFor = 0

-----------------------------------------------------------------------------
(* transition(s): Stop the timer, drain its channel, then onEnter, which   *)
(* resets the timer and calls the display callback, or runs the helper.  A *)
(* value the runtime is about to send survives the Stop and the drain.     *)
StopAndReset_NoDrain(delay) ==
  /\ timer' = delay /\ stray' = firing
  /\ UNCHANGED <<firing, timeoutC>>

StopAndReset(delay) ==
  /\ timer' = delay /\ stray' = firing
  /\ timeoutC' = FALSE
  /\ UNCHANGED firing

Transition(s, m, next) ==
  /\ current' = s
  /\ modeIndex' = m
  /\ StopAndReset(Delay(s, m))
  /\ age' = 0
  /\ blocked' = 0
  /\ resume' = next
  /\ pc' = IF s = "commit" THEN "commit" ELSE "display"

StayPut(next) ==
  /\ pc' = next
  /\ UNCHANGED <<current, modeIndex, resume, blocked, timerVars, age>>

-----------------------------------------------------------------------------
(* The top of the loop: read the line and react to an edge.                *)
SeesPress   == pc = "sample" /\ button /\ ~down /\ down' = TRUE
SeesRelease == pc = "sample" /\ ~button /\ down /\ down' = FALSE
AfterSample == UNCHANGED <<ticksC, outcome, button, pressedFor>>

PressAtRest ==
  /\ SeesPress /\ current = "rest"
  /\ Transition("select", modeIndex, "wait")
  /\ AfterSample

PressInGrace_Ignored ==
  /\ SeesPress /\ current = "grace"
  /\ StayPut("wait")
  /\ AfterSample

PressInGrace ==
  /\ SeesPress /\ current = "grace"
  /\ Transition("abort", modeIndex, "wait")
  /\ AfterSample

PressElsewhere ==
  /\ SeesPress /\ current \notin {"rest", "grace"}
  /\ StayPut("wait")
  /\ AfterSample

ReleaseInSelect_AbortToo ==
  /\ SeesRelease /\ current = "select"
  /\ Transition("grace", modeIndex, "wait")
  /\ AfterSample

ReleaseInSelect ==
  /\ SeesRelease /\ current = "select"
  /\ \/ Mode(modeIndex) = "abort" /\ Transition("abort", modeIndex, "wait")
     \/ Mode(modeIndex) # "abort" /\ Transition("grace", modeIndex, "wait")
  /\ AfterSample

ReleaseElsewhere ==
  /\ SeesRelease /\ current # "select"
  /\ StayPut("wait")
  /\ AfterSample

(* The level has not changed, or the line holds neither "0" nor "1".       *)
NothingSampled ==
  /\ pc = "sample"
  /\ button = down \/ GpioFaults
  /\ StayPut("wait")
  /\ UNCHANGED down
  /\ AfterSample

(* The line cannot be opened or read: the goroutine returns for good.      *)
ReadFails ==
  /\ pc = "sample" /\ GpioFaults
  /\ StayPut("aborted")
  /\ UNCHANGED down
  /\ AfterSample

-----------------------------------------------------------------------------
(* The select statement: receive a tick, or receive from the timer.        *)
OnTick ==
  /\ pc = "wait" /\ ticksC
  /\ ticksC' = FALSE
  /\ StayPut("sample")
  /\ UNCHANGED <<down, outcome, button, pressedFor>>

ReceivesTimeout == pc = "wait" /\ timeoutC
AfterTimeout == UNCHANGED <<down, ticksC, outcome, button, pressedFor>>

NextMode_Unbounded(i) == i + 1
NextMode_ByTwo(i) == (i + 2) % Len(modeCycle)
NextMode_ByThree(i) == (i + 3) % Len(modeCycle)
NextMode(i) == (i + 1) % Len(modeCycle)

TimeoutInSelect ==
  /\ ReceivesTimeout /\ current = "select"
  /\ Transition("select", NextMode(modeIndex), "sample")
  /\ AfterTimeout

TimeoutInGrace_Inherited ==
  /\ ReceivesTimeout /\ current = "grace"
  /\ timeoutC' = FALSE /\ stray' = FALSE
  /\ pc' = "sample"
  /\ UNCHANGED <<current, modeIndex, resume, blocked, timer, firing, age>>
  /\ AfterTimeout

TimeoutInGrace ==
  /\ ReceivesTimeout /\ current = "grace"
  /\ Transition("commit", modeIndex, "sample")
  /\ AfterTimeout

TimeoutInAbort ==
  /\ ReceivesTimeout /\ current = "abort"
  /\ Transition("rest", 0, "sample")
  /\ AfterTimeout

(* rest and commit inherit baseState.onTimeout: the value is consumed.     *)
TimeoutElsewhere ==
  /\ ReceivesTimeout /\ current \in {"rest", "commit"}
  /\ timeoutC' = FALSE /\ stray' = FALSE
  /\ pc' = "sample"
  /\ UNCHANGED <<current, modeIndex, resume, blocked, timer, firing, age>>
  /\ AfterTimeout

-----------------------------------------------------------------------------
DisplayReturns ==
  /\ pc = "display"
  /\ pc' = resume
  /\ UNCHANGED <<current, modeIndex, down, resume, blocked, timerVars,
                 ticksC, outcome, button, age, pressedFor>>

HelperReturns_AllResetsExit ==
  /\ pc = "commit"
  /\ \/ /\ Mode(modeIndex) \in {"reset-userdata", "reset-root"}
        /\ pc' = "exited"
        /\ UNCHANGED outcome
     \/ /\ Mode(modeIndex) \in {"halt", "reboot"}
        /\ pc' = resume
        /\ outcome' \in {Mode(modeIndex), outcome}
  /\ UNCHANGED <<current, modeIndex, down, resume, blocked, timerVars,
                 ticksC, button, age, pressedFor>>

(* commit(): run reset-helper.sh with the mode.  The helper may be missing *)
(* or fail; for reset-root it does nothing and the process exits with the  *)
(* magic code either way.                                                  *)
HelperReturns ==
  /\ pc = "commit"
  /\ \/ /\ Mode(modeIndex) = "reset-root"
        /\ pc' = "exited"
        /\ UNCHANGED outcome
     \/ /\ Mode(modeIndex) # "reset-root"
        /\ pc' = resume
        /\ outcome' \in {Mode(modeIndex), outcome}
  /\ UNCHANGED <<current, modeIndex, down, resume, blocked, timerVars,
                 ticksC, button, age, pressedFor>>

(* The wrapper script sees exit code 168 and execs the factory reset.      *)
WrapperResets ==
  /\ pc = "exited"
  /\ pc' = "reset"
  /\ outcome' = "factory-reset"
  /\ UNCHANGED <<current, modeIndex, down, resume, blocked, timerVars,
                 ticksC, button, age, pressedFor>>

-----------------------------------------------------------------------------
(* The user, the clock and the Go runtime.                                 *)
ButtonMoves ==
  /\ button' = ~button
  /\ pressedFor' = IF button' THEN 0 ELSE pressedFor
  /\ UNCHANGED <<loopVars, timerVars, ticksC, outcome, age>>

GoroutineBlocked ==
  \/ pc = "wait" /\ ~ticksC /\ ~timeoutC
  \/ pc = "display" /\ blocked < DisplayDelay

PeriodEnds ==
  /\ GoroutineBlocked /\ ~firing
  /\ ticksC' = TRUE
  /\ timer' = IF timer > 0 THEN timer - 1 ELSE 0
  /\ firing' = (timer = 1)
  /\ blocked' = IF pc = "display" THEN blocked + 1 ELSE blocked
  /\ age' = IF age < Delay(current, modeIndex) THEN age + 1 ELSE age
  /\ pressedFor' = IF button /\ pressedFor < SelectionDelay
                     THEN pressedFor + 1 ELSE pressedFor
  /\ UNCHANGED <<current, modeIndex, down, pc, resume, outcome, button, timeoutC, stray>>

(* sendTime: the runtime puts the value of an expired timer in its channel.*)
TimerSends ==
  /\ firing
  /\ firing' = FALSE /\ timeoutC' = TRUE
  /\ UNCHANGED <<loopVars, timer, stray, ticksC, outcome, button, age, pressedFor>>

-----------------------------------------------------------------------------
Sample ==
  \/ PressAtRest \/ PressInGrace \/ PressElsewhere
  \/ ReleaseInSelect \/ ReleaseElsewhere
  \/ NothingSampled \/ ReadFails

Select ==
  \/ OnTick
  \/ TimeoutInSelect \/ TimeoutInGrace \/ TimeoutInAbort \/ TimeoutElsewhere

Loop == Sample \/ Select \/ DisplayReturns \/ HelperReturns

Next == Loop \/ WrapperResets \/ ButtonMoves \/ PeriodEnds \/ TimerSends

(* The goroutine runs when it can, RPCs time out, time passes, an expired  *)
(* timer is sent.  Nothing makes the user press or release the button.     *)
Fairness ==
  /\ WF_vars(Loop) /\ WF_vars(WrapperResets)
  /\ WF_vars(PeriodEnds) /\ WF_vars(TimerSends)

Spec == Init /\ [][Next]_vars
FairSpec == Spec /\ Fairness

-----------------------------------------------------------------------------
(* The timer and the state agree: the time spent in a state and the time   *)
(* left on the timer add up to what onEnter asked for, and a value comes   *)
(* through the channel only when the timer of this very state has run out. *)
(* transition's Stop, drain and Reset are what keeps this true, but for    *)
(* the one value that Stop came too late for.                              *)
TimerFaithful ==
  /\ age + timer = Delay(current, modeIndex)
  /\ (firing \/ timeoutC) /\ ~stray => timer = 0

(* The state and what the loop last saw of the button agree, and "abort"   *)
(* is never a choice: the machine selects only while the button is down,   *)
(* waits out the grace period only while it is up, and neither pends nor   *)
(* commits the mode "abort" (stateSelect.onUp, stateGrace.onDown).         *)
ChoiceConsistent ==
  /\ current = "select" => down
  /\ current = "grace" => ~down
  /\ current \in {"grace", "commit"} => Mode(modeIndex) # "abort"

(* Whatever happened to the machine is what was committed: halt, reboot    *)
(* and reset-userdata through the helper, a factory reset only through the *)
(* exit code of a committed reset-root, also when the helper fails.        *)
OutcomeIsCommitted ==
  outcome # "none" =>
    /\ current = "commit"
    /\ outcome = IF Mode(modeIndex) = "reset-root"
                   THEN "factory-reset" ELSE Mode(modeIndex)

(* No choice is committed before its whole grace period has passed.        *)
GraceNotSkipped ==
  [][current = "grace" /\ current' = "commit" => age = GraceDelay(modeIndex)]_vars

(* Nothing but such a late value can cut the grace period short: not an    *)
(* earlier timeout left in the channel, not a timer of another state.      *)
GraceCutByStrayOnly ==
  [][current = "grace" /\ current' = "commit" /\ age < GraceDelay(modeIndex) => stray]_vars

(* A press that has lasted two sampling periods when the grace period ends *)
(* has cancelled the choice.                                               *)
PressHonoured ==
  [][current = "grace" /\ current' = "commit"
        => ~(button /\ pressedFor >= 2)]_vars

(* A pending choice is eventually committed or cancelled, and the white    *)
(* flash of a cancelled one ends at rest.                                  *)
PhasesEnd ==
  /\ current = "grace" ~> current \in {"abort", "commit"}
  /\ current = "abort" ~> current = "rest"

(* A user who keeps holding the button is offered every mode, "abort"      *)
(* among them.                                                             *)
EveryModeOffered ==
  \A i \in 0 .. Len(modeCycle) - 1 :
    current = "select" ~> Mode(modeIndex) = Mode(i) \/ current # "select"

(* What the user sees of the machine.                                      *)
Phase ==
  CASE current = "select" -> "choosing"
    [] current = "grace"  -> "pending"
    [] current = "commit" -> "done"
    [] OTHER              -> "idle"

Choice ==
  IF current \in {"select", "grace", "commit"} THEN Mode(modeIndex) ELSE "none"

Policy == INSTANCE ResetPolicy WITH phase <- Phase, choice <- Choice, held <- down

(* The machine implements the promise made to its user.                    *)
PolicyImplemented == Policy!PolicySpec
=============================================================================
