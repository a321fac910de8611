------------------------- MODULE ResetButtonProofs -------------------------
(***************************************************************************)
(* What ResetButton guarantees for every choice of the delays.             *)
(***************************************************************************)
EXTENDS ResetButton, TLAPS

(* Facts about the tables: the index of a mode, the mode at an index, and  *)
(* the time a state asks for.                                              *)
LEMMA ModeRange ==
  /\ Len(modeCycle) = 10
  /\ \A i \in 0 .. 9 :
       Mode(i) \in {"halt", "reboot", "reset-userdata", "reset-root", "abort"}
BY DEF modeCycle, Mode

(* The index stays inside the table when the offer moves on.               *)
LEMMA NextModeRange ==
  ASSUME NEW i \in 0 .. 9
  PROVE  NextMode(i) \in 0 .. 9 /\ NextMode(i) = (IF i = 9 THEN 0 ELSE i + 1)
BY ModeRange DEF NextMode

(* Every state asks for a time that is a number.                           *)
LEMMA DelayNat ==
  ASSUME NEW s, NEW m
  PROVE  Delay(s, m) \in Nat
BY DelaysAssumption DEF Delay, GraceDelay

-----------------------------------------------------------------------------
(* Where the goroutine is in commit, and what has been done by then.  The  *)
(* invariants are inductive only together: an outcome other than "none"    *)
(* keeps the machine in commit, so the helper runs at most once.           *)
Committing ==
  /\ pc \in {"commit", "exited", "reset"} => current = "commit"
  /\ pc \in {"commit", "exited"} => outcome = "none"
  /\ pc = "exited" => Mode(modeIndex) = "reset-root"

Safe == TypeOK /\ ChoiceConsistent /\ OutcomeIsCommitted /\ Committing

(* The invariant holds when the monitor starts.                            *)
LEMMA InitSafe == Init => Safe
<1> SUFFICES ASSUME Init PROVE Safe
  OBVIOUS
<1>1. TypeOK
  <2>1. Delay(current, modeIndex) \in Nat
    BY DelayNat
  <2>2. timer = 0 /\ age = 0 /\ 0 <= Delay(current, modeIndex)
    BY <2>1 DEF Init
  <2>3. modeIndex \in 0 .. Len(modeCycle) - 1
    BY ModeRange DEF Init
  <2>4. blocked \in 0 .. DisplayDelay /\ pressedFor \in 0 .. SelectionDelay
    BY DelaysAssumption DEF Init
  <2>5. /\ down \in BOOLEAN /\ button \in BOOLEAN /\ firing \in BOOLEAN
        /\ timeoutC \in BOOLEAN /\ stray \in BOOLEAN /\ ticksC \in BOOLEAN
    BY Zenon DEF Init
  <2> QED BY <2>2, <2>3, <2>4, <2>5 DEF Init, TypeOK, States, Outcomes
<1>2. ChoiceConsistent /\ OutcomeIsCommitted /\ Committing
  BY DEF Init, ChoiceConsistent, OutcomeIsCommitted, Committing
<1> QED BY <1>1, <1>2 DEF Safe

(* A transition to any state but commit, and one that stays put, keep the  *)
(* types of everything they change.                                        *)
LEMMA TransitionType ==
  ASSUME TypeOK, NEW s \in States, NEW m \in 0 .. 9,
         NEW next \in {"sample", "wait"}, Transition(s, m, next)
  PROVE  /\ current' = s /\ modeIndex' = m
         /\ modeIndex' \in 0 .. Len(modeCycle) - 1
         /\ pc' = IF s = "commit" THEN "commit" ELSE "display"
         /\ resume' \in {"sample", "wait"}
         /\ blocked' \in 0 .. DisplayDelay
         /\ timer' \in Nat /\ timer' <= Delay(current', modeIndex')
         /\ age' \in Nat /\ age' <= Delay(current', modeIndex')
         /\ firing' \in BOOLEAN /\ timeoutC' \in BOOLEAN /\ stray' \in BOOLEAN
<1>1. Delay(s, m) \in Nat
  BY DelayNat
<1>2. current' = s /\ modeIndex' = m /\ timer' = Delay(s, m) /\ age' = 0
  BY DEF Transition, StopAndReset
<1>3. Delay(current', modeIndex') = Delay(s, m)
  BY <1>2
<1>4. modeIndex' \in 0 .. Len(modeCycle) - 1 /\ blocked' \in 0 .. DisplayDelay
  BY <1>2, ModeRange, DelaysAssumption DEF Transition
<1>5. firing' \in BOOLEAN /\ timeoutC' \in BOOLEAN /\ stray' \in BOOLEAN
  BY DEF TypeOK, Transition, StopAndReset
<1>6. /\ pc' = IF s = "commit" THEN "commit" ELSE "display"
      /\ resume' \in {"sample", "wait"}
  BY DEF Transition
<1> QED BY <1>1, <1>2, <1>3, <1>4, <1>5, <1>6

(* So does a step that stays in its state.                                 *)
LEMMA StayPutType ==
  ASSUME TypeOK, NEW next, StayPut(next)
  PROVE  /\ current' = current /\ modeIndex' = modeIndex /\ pc' = next
         /\ resume' = resume /\ blocked' = blocked /\ timer' = timer
         /\ age' = age /\ firing' = firing /\ timeoutC' = timeoutC /\ stray' = stray
         /\ Delay(current', modeIndex') = Delay(current, modeIndex)
BY DEF StayPut, timerVars

(* Every step of the goroutine, the wrapper, the user and the clock keeps  *)
(* the invariant.                                                          *)
LEMMA StepSafe == Safe /\ [Next]_vars => Safe'
<1> SUFFICES ASSUME Safe, [Next]_vars PROVE Safe'
  OBVIOUS
<1> USE DEF Safe
<1>m. /\ modeIndex \in 0 .. 9
      /\ Mode(modeIndex) \in
           {"halt", "reboot", "reset-userdata", "reset-root", "abort"}
  BY ModeRange DEF TypeOK
<1>n. /\ 0 \in 0 .. 9 /\ NextMode(modeIndex) \in 0 .. 9
  BY <1>m, NextModeRange
<1>o. ASSUME pc \in {"sample", "wait"} PROVE pc \notin {"commit", "exited", "reset"}
  BY <1>o
<1>1. CASE PressAtRest
  <2>1. Transition("select", modeIndex, "wait")
    BY <1>1 DEF PressAtRest
  <2>2. TypeOK'
    BY <1>1, <1>m, <2>1, TransitionType DEF TypeOK, States, PressAtRest, SeesPress, AfterSample
  <2>3. (ChoiceConsistent /\ OutcomeIsCommitted /\ Committing)'
    BY <1>1, <1>m, <2>1, TransitionType DEF States, ChoiceConsistent, OutcomeIsCommitted,
       Committing, PressAtRest, SeesPress, AfterSample
  <2> QED BY <2>2, <2>3
<1>2. CASE PressInGrace
  <2>1. Transition("abort", modeIndex, "wait")
    BY <1>2 DEF PressInGrace
  <2>2. TypeOK'
    BY <1>2, <1>m, <2>1, TransitionType DEF TypeOK, States, PressInGrace, SeesPress, AfterSample
  <2>3. (ChoiceConsistent /\ OutcomeIsCommitted /\ Committing)'
    BY <1>2, <1>m, <2>1, TransitionType DEF States, ChoiceConsistent, OutcomeIsCommitted,
       Committing, PressInGrace, SeesPress, AfterSample
  <2> QED BY <2>2, <2>3
<1>3. CASE PressElsewhere
  <2>1. StayPut("wait")
    BY <1>3 DEF PressElsewhere
  <2>2. TypeOK'
    BY <1>3, <2>1, StayPutType DEF TypeOK, PressElsewhere, SeesPress, AfterSample
  <2>3. (ChoiceConsistent /\ OutcomeIsCommitted /\ Committing)'
    BY <1>3, <2>1, StayPutType DEF ChoiceConsistent, OutcomeIsCommitted,
       Committing, PressElsewhere, SeesPress, AfterSample
  <2> QED BY <2>2, <2>3
<1>4. CASE ReleaseInSelect
  <2>1. \/ Mode(modeIndex) = "abort" /\ Transition("abort", modeIndex, "wait")
        \/ Mode(modeIndex) # "abort" /\ Transition("grace", modeIndex, "wait")
    BY <1>4 DEF ReleaseInSelect
  <2>2. TypeOK'
    BY <1>4, <1>m, <2>1, TransitionType DEF TypeOK, States, ReleaseInSelect, SeesRelease, AfterSample
  <2>3. (ChoiceConsistent /\ OutcomeIsCommitted /\ Committing)'
    BY <1>4, <1>m, <2>1, TransitionType DEF States, ChoiceConsistent, OutcomeIsCommitted,
       Committing, ReleaseInSelect, SeesRelease, AfterSample
  <2> QED BY <2>2, <2>3
<1>5. CASE ReleaseElsewhere
  <2>1. StayPut("wait")
    BY <1>5 DEF ReleaseElsewhere
  <2>2. TypeOK'
    BY <1>5, <2>1, StayPutType DEF TypeOK, ReleaseElsewhere, SeesRelease, AfterSample
  <2>3. (ChoiceConsistent /\ OutcomeIsCommitted /\ Committing)'
    BY <1>5, <2>1, StayPutType DEF ChoiceConsistent, OutcomeIsCommitted,
       Committing, ReleaseElsewhere, SeesRelease, AfterSample
  <2> QED BY <2>2, <2>3
<1>6. CASE NothingSampled \/ ReadFails \/ OnTick
  <2>1. \E next \in {"wait", "aborted", "sample"} : StayPut(next)
    BY <1>6 DEF NothingSampled, ReadFails, OnTick
  <2>2. /\ down' = down /\ outcome' = outcome /\ button' = button
        /\ pressedFor' = pressedFor /\ ticksC' \in {ticksC, FALSE}
    BY <1>6 DEF NothingSampled, ReadFails, OnTick, AfterSample
  <2>3. TypeOK'
    BY <2>1, <2>2, StayPutType DEF TypeOK
  <2>4. (ChoiceConsistent /\ OutcomeIsCommitted /\ Committing)'
    BY <2>1, <2>2, StayPutType DEF ChoiceConsistent, OutcomeIsCommitted, Committing
  <2> QED BY <2>3, <2>4
<1>7. CASE TimeoutInSelect
  <2>1. Transition("select", NextMode(modeIndex), "sample")
    BY <1>7 DEF TimeoutInSelect
  <2>2. TypeOK'
    BY <1>7, <1>n, <2>1, TransitionType
       DEF TypeOK, States, TimeoutInSelect, ReceivesTimeout, AfterTimeout
  <2>3. (ChoiceConsistent /\ OutcomeIsCommitted /\ Committing)'
    BY <1>7, <1>n, <2>1, TransitionType DEF States, ChoiceConsistent, OutcomeIsCommitted,
       Committing, TimeoutInSelect, ReceivesTimeout, AfterTimeout
  <2> QED BY <2>2, <2>3
<1>8. CASE TimeoutInGrace
  <2>1. Transition("commit", modeIndex, "sample")
    BY <1>8 DEF TimeoutInGrace
  <2>2. TypeOK'
    BY <1>8, <1>m, <2>1, TransitionType
       DEF TypeOK, States, TimeoutInGrace, ReceivesTimeout, AfterTimeout
  <2>3. (ChoiceConsistent /\ OutcomeIsCommitted /\ Committing)'
    BY <1>8, <1>m, <2>1, TransitionType DEF States, ChoiceConsistent, OutcomeIsCommitted,
       Committing, TimeoutInGrace, ReceivesTimeout, AfterTimeout
  <2> QED BY <2>2, <2>3
<1>9. CASE TimeoutInAbort
  <2>1. Transition("rest", 0, "sample")
    BY <1>9 DEF TimeoutInAbort
  <2>2. TypeOK'
    BY <1>9, <1>n, <2>1, TransitionType
       DEF TypeOK, States, TimeoutInAbort, ReceivesTimeout, AfterTimeout
  <2>3. (ChoiceConsistent /\ OutcomeIsCommitted /\ Committing)'
    BY <1>9, <1>n, <2>1, TransitionType DEF States, ChoiceConsistent, OutcomeIsCommitted,
       Committing, TimeoutInAbort, ReceivesTimeout, AfterTimeout
  <2> QED BY <2>2, <2>3
<1>10. CASE TimeoutElsewhere
  <2>1. TypeOK'
    BY <1>10 DEF TypeOK, TimeoutElsewhere, ReceivesTimeout, AfterTimeout
  <2>2. (ChoiceConsistent /\ OutcomeIsCommitted /\ Committing)'
    BY <1>10 DEF ChoiceConsistent, OutcomeIsCommitted, Committing,
       TimeoutElsewhere, ReceivesTimeout, AfterTimeout
  <2> QED BY <2>1, <2>2
<1>11. CASE DisplayReturns
  <2>1. TypeOK'
    BY <1>11 DEF TypeOK, DisplayReturns, timerVars
  <2>2. (ChoiceConsistent /\ OutcomeIsCommitted /\ Committing)'
    BY <1>11 DEF TypeOK, ChoiceConsistent, OutcomeIsCommitted, Committing,
       DisplayReturns, timerVars
  <2> QED BY <2>1, <2>2
<1>12. CASE HelperReturns
  <2>1. Mode(modeIndex) \in Outcomes \/ Mode(modeIndex) = "reset-root"
    BY <1>12, <1>m DEF HelperReturns, ChoiceConsistent, Committing, Outcomes
  <2>2. TypeOK'
    BY <1>12, <2>1 DEF TypeOK, HelperReturns, timerVars
  <2>3. (ChoiceConsistent /\ OutcomeIsCommitted /\ Committing)'
    BY <1>12 DEF TypeOK, ChoiceConsistent, OutcomeIsCommitted, Committing, HelperReturns
  <2> QED BY <2>2, <2>3
<1>13. CASE WrapperResets
  <2>1. TypeOK'
    BY <1>13 DEF TypeOK, WrapperResets, timerVars, Outcomes
  <2>2. (ChoiceConsistent /\ OutcomeIsCommitted /\ Committing)'
    BY <1>13 DEF ChoiceConsistent, OutcomeIsCommitted, Committing, WrapperResets, timerVars
  <2> QED BY <2>1, <2>2
<1>14. CASE ButtonMoves
  <2>1. UNCHANGED <<loopVars, timerVars, ticksC, outcome, age>>
        /\ button' \in BOOLEAN /\ pressedFor' \in {0, pressedFor}
    BY <1>14 DEF ButtonMoves, TypeOK
  <2>2. 0 \in 0 .. SelectionDelay
    BY DelaysAssumption
  <2>3. TypeOK'
    BY <2>1, <2>2 DEF TypeOK, loopVars, timerVars
  <2>4. (ChoiceConsistent /\ OutcomeIsCommitted /\ Committing)'
    BY <2>1 DEF ChoiceConsistent, OutcomeIsCommitted, Committing, loopVars
  <2> QED BY <2>3, <2>4
<1>15. CASE PeriodEnds
  <2>1. Delay(current, modeIndex) \in Nat
    BY DelayNat
  <2>2. UNCHANGED <<current, modeIndex, down, pc, resume, outcome, button>>
    BY <1>15 DEF PeriodEnds
  <2>3. timer' \in Nat /\ timer' <= Delay(current, modeIndex)
    BY <1>15, <2>1 DEF PeriodEnds, TypeOK
  <2>4. age' \in Nat /\ age' <= Delay(current, modeIndex)
    BY <1>15, <2>1 DEF PeriodEnds, TypeOK
  <2>5. blocked' \in 0 .. DisplayDelay /\ pressedFor' \in 0 .. SelectionDelay
    BY <1>15, DelaysAssumption DEF PeriodEnds, GoroutineBlocked, TypeOK
  <2>6. /\ firing' \in BOOLEAN /\ timeoutC' \in BOOLEAN /\ ticksC' \in BOOLEAN
        /\ stray' \in BOOLEAN
    BY <1>15 DEF PeriodEnds, TypeOK
  <2>7. TypeOK'
    BY <2>2, <2>3, <2>4, <2>5, <2>6 DEF TypeOK
  <2>8. (ChoiceConsistent /\ OutcomeIsCommitted /\ Committing)'
    BY <2>2 DEF ChoiceConsistent, OutcomeIsCommitted, Committing
  <2> QED BY <2>7, <2>8
<1>16. CASE TimerSends
  <2>1. /\ firing' = FALSE /\ timeoutC' = TRUE
        /\ UNCHANGED <<loopVars, timer, stray, ticksC, outcome, button, age, pressedFor>>
    BY <1>16 DEF TimerSends
  <2>2. TypeOK'
    BY <2>1 DEF TypeOK, loopVars
  <2>3. (ChoiceConsistent /\ OutcomeIsCommitted /\ Committing)'
    BY <2>1 DEF ChoiceConsistent, OutcomeIsCommitted, Committing, loopVars
  <2> QED BY <2>2, <2>3
<1>17. CASE UNCHANGED vars
  <2>1. TypeOK'
    BY <1>17 DEF TypeOK, vars, loopVars, timerVars
  <2>2. (ChoiceConsistent /\ OutcomeIsCommitted /\ Committing)'
    BY <1>17 DEF ChoiceConsistent, OutcomeIsCommitted, Committing, vars, loopVars, timerVars
  <2> QED BY <2>1, <2>2
<1> QED
  BY <1>1, <1>2, <1>3, <1>4, <1>5, <1>6, <1>7, <1>8, <1>9, <1>10, <1>11, <1>12,
     <1>13, <1>14, <1>15, <1>16, <1>17 DEF Next, Loop, Sample, Select

LEMMA SafeInvariant == Spec => []Safe
BY InitSafe, StepSafe, PTL DEF Spec

(* In every reachable state, whatever the delays, the display and the GPIO *)
(* line do, the index is in the table and the timer is within its delay.   *)
THEOREM TypesCorrect == Spec => []TypeOK
<1>1. Safe => TypeOK
  BY DEF Safe
<1> QED BY SafeInvariant, <1>1, PTL

(* Under the same faults, the machine selects only while the button is     *)
(* down, and neither pends nor commits abort.                              *)
THEOREM ChoicesConsistent == Spec => []ChoiceConsistent
<1>1. Safe => ChoiceConsistent
  BY DEF Safe
<1> QED BY SafeInvariant, <1>1, PTL

(* And what happens to the machine is what was committed.                  *)
THEOREM OutcomesCommitted == Spec => []OutcomeIsCommitted
<1>1. Safe => OutcomeIsCommitted
  BY DEF Safe
<1> QED BY SafeInvariant, <1>1, PTL
-----------------------------------------------------------------------------
(* The timer.  The time left and the time spent always add up, and a value *)
(* that is in the channel, or about to be, is that of the present timer,   *)
(* unless Stop came too late for an earlier one.                           *)
LEMMA InitTimer == Init => TimerFaithful
BY DEF Init, TimerFaithful, Delay

(* A transition leaves a timer that is faithful to the state it enters.    *)
LEMMA TransitionTimer ==
  ASSUME NEW s, NEW m, NEW next, Transition(s, m, next)
  PROVE  TimerFaithful'
<1>1. Delay(s, m) \in Nat
  BY DelayNat
<1>2. /\ current' = s /\ modeIndex' = m
      /\ timer' = Delay(s, m) /\ age' = 0
      /\ ~timeoutC' /\ firing' = firing /\ stray' = firing
  BY DEF Transition, StopAndReset
<1>3. Delay(current', modeIndex') = Delay(s, m)
  BY <1>2
<1> QED BY <1>1, <1>2, <1>3 DEF TimerFaithful

(* Every step keeps the timer faithful.                                    *)
LEMMA StepTimer ==
  ASSUME TypeOK, TimerFaithful, [Next]_vars
  PROVE  TimerFaithful'
<1>1. CASE \E s, m, next : Transition(s, m, next)
  BY <1>1, TransitionTimer
<1>2. CASE /\ UNCHANGED <<current, modeIndex, timer, firing, stray, age>>
           /\ timeoutC' => timeoutC
  <2>1. Delay(current', modeIndex') = Delay(current, modeIndex)
    BY <1>2
  <2> QED BY <1>2, <2>1 DEF TimerFaithful
<1>3. CASE PeriodEnds
  <2>1. Delay(current, modeIndex) \in Nat /\ timer \in Nat /\ age \in Nat
    BY DelayNat DEF TypeOK
  <2>2. Delay(current', modeIndex') = Delay(current, modeIndex)
    BY <1>3 DEF PeriodEnds
  <2>3. age' + timer' = Delay(current, modeIndex)
    BY <1>3, <2>1 DEF PeriodEnds, TimerFaithful
  <2>4. (firing' \/ timeoutC') /\ ~stray' => timer' = 0
    <3>1. (firing' => timer = 1) /\ timeoutC' = timeoutC /\ stray' = stray
      BY <1>3, Zenon DEF PeriodEnds
    <3>2. timer = 0 \/ timer = 1 => timer' = 0
      BY <1>3, <2>1 DEF PeriodEnds
    <3> QED BY <3>1, <3>2 DEF TimerFaithful
  <2> QED BY <2>2, <2>3, <2>4 DEF TimerFaithful
<1>4. CASE TimerSends
  <2>1. UNCHANGED <<current, modeIndex, timer, stray, age>> /\ firing
    BY <1>4 DEF TimerSends, loopVars
  <2>2. Delay(current', modeIndex') = Delay(current, modeIndex)
    BY <2>1
  <2> QED BY <2>1, <2>2 DEF TimerFaithful
<1>5. CASE TimeoutElsewhere
  <2>1. /\ current \in {"rest", "commit"} /\ UNCHANGED <<current, modeIndex, timer, age>>
    BY <1>5 DEF TimeoutElsewhere
  <2>2. Delay(current, modeIndex) = 0 /\ Delay(current', modeIndex') = 0
    BY <2>1 DEF Delay
  <2>3. age + timer = 0 /\ age \in Nat /\ timer \in Nat
    BY <2>2 DEF TimerFaithful, TypeOK
  <2> QED BY <2>1, <2>2, <2>3 DEF TimerFaithful
<1>6. CASE Sample
  BY <1>6, <1>1, <1>2 DEF Sample, PressAtRest, PressInGrace, PressElsewhere, ReleaseInSelect,
     ReleaseElsewhere, NothingSampled, ReadFails, StayPut, timerVars
<1>7. CASE Select
  BY <1>7, <1>1, <1>2, <1>5 DEF Select, OnTick, TimeoutInSelect, TimeoutInGrace, TimeoutInAbort,
     StayPut, timerVars
<1>8. CASE DisplayReturns \/ HelperReturns \/ WrapperResets \/ ButtonMoves \/ UNCHANGED vars
  BY <1>8, <1>2 DEF DisplayReturns, HelperReturns, WrapperResets, ButtonMoves, vars,
     loopVars, timerVars
<1> QED BY <1>3, <1>4, <1>6, <1>7, <1>8 DEF Next, Loop

(* The timer and the state agree in every reachable state, whatever the    *)
(* delays and however late the runtime sends the value of an expired       *)
(* timer, but for the value that Stop came too late for.                   *)
THEOREM TimerAlwaysFaithful == Spec => []TimerFaithful
<1>1. Safe => TypeOK
  BY DEF Safe
<1> QED BY InitTimer, StepTimer, InitSafe, StepSafe, <1>1, PTL DEF Spec

(* A grace period is cut short by such a value only: stateGrace.onTimeout  *)
(* otherwise receives the value of the timer that grace itself started.    *)
THEOREM GraceCutShortByStrayOnly == Spec => GraceCutByStrayOnly
<1> DEFINE Whole ==
      current = "grace" /\ current' = "commit" /\ age < GraceDelay(modeIndex) => stray
<1>1. TypeOK /\ TimerFaithful /\ [Next]_vars => [Whole]_vars
  <2> SUFFICES ASSUME TypeOK, TimerFaithful, Next, current = "grace", current' = "commit", ~stray
               PROVE  ~(age < GraceDelay(modeIndex))
    OBVIOUS
  <2>1. TimeoutInGrace
    BY DEF Next, Loop, Sample, Select, PressAtRest, PressInGrace, PressElsewhere,
       ReleaseInSelect, ReleaseElsewhere, NothingSampled, ReadFails, OnTick, TimeoutInSelect,
       TimeoutInAbort, TimeoutElsewhere, DisplayReturns, HelperReturns, WrapperResets,
       ButtonMoves, PeriodEnds, TimerSends, Transition, StayPut, loopVars
  <2>2. timer = 0 /\ age + timer = GraceDelay(modeIndex)
    BY <2>1 DEF TimeoutInGrace, ReceivesTimeout, TimerFaithful, Delay
  <2> QED BY <2>2 DEF TypeOK
<1>2. Safe => TypeOK
  BY DEF Safe
<1> QED BY TimerAlwaysFaithful, InitSafe, StepSafe, <1>1, <1>2, PTL
        DEF Spec, GraceCutByStrayOnly

-----------------------------------------------------------------------------
(* A press during the grace period is sampled at the next tick: until then *)
(* it is at most a period old, and the tick is waiting.                    *)
PressSeen ==
  current = "grace" /\ button =>
    \/ pressedFor = 0
    \/ pressedFor = 1 /\ (ticksC \/ pc = "sample")

LEMMA StepSeen ==
  ASSUME ~GpioFaults, DisplayDelay = 0, TypeOK, ChoiceConsistent, Committing, PressSeen,
         [Next]_vars
  PROVE  PressSeen'
<1> SUFFICES ASSUME current' = "grace", button'
             PROVE  pressedFor' = 0 \/ (pressedFor' = 1 /\ (ticksC' \/ pc' = "sample"))
  BY DEF PressSeen
<1>1. CASE PressAtRest \/ PressInGrace \/ PressElsewhere
  BY <1>1 DEF PressAtRest, PressInGrace, PressElsewhere, Transition, StayPut
<1>2. CASE ReleaseInSelect \/ ReleaseElsewhere
  BY <1>2 DEF ReleaseInSelect, ReleaseElsewhere, SeesRelease, AfterSample
<1>3. CASE NothingSampled \/ ReadFails
  <2>1. button = down /\ current' = current /\ button' = button
    BY <1>3, FaultsAssumption DEF NothingSampled, ReadFails, StayPut, AfterSample
  <2> QED BY <2>1 DEF ChoiceConsistent, TypeOK
<1>4. CASE OnTick
  BY <1>4 DEF OnTick, StayPut, PressSeen
<1>5. CASE TimeoutInSelect \/ TimeoutInGrace \/ TimeoutInAbort \/ TimeoutElsewhere
  BY <1>5 DEF TimeoutInSelect, TimeoutInGrace, TimeoutInAbort, TimeoutElsewhere, Transition
<1>6. CASE DisplayReturns
  BY <1>6 DEF DisplayReturns, PressSeen
<1>7. CASE HelperReturns \/ WrapperResets
  BY <1>7 DEF HelperReturns, WrapperResets, Committing
<1>8. CASE ButtonMoves
  BY <1>8 DEF ButtonMoves
<1>9. CASE PeriodEnds
  <2>1. pc = "wait" /\ ~ticksC
    BY <1>9 DEF PeriodEnds, GoroutineBlocked, TypeOK
  <2>2. pressedFor = 0
    BY <1>9, <2>1 DEF PeriodEnds, PressSeen
  <2>3. ticksC' = TRUE /\ pressedFor' \in {0, 1}
    BY <1>9, <2>2 DEF PeriodEnds
  <2> QED BY <2>3
<1>10. CASE TimerSends \/ UNCHANGED vars
  BY <1>10 DEF TimerSends, loopVars, vars, PressSeen
<1> QED BY <1>1, <1>2, <1>3, <1>4, <1>5, <1>6, <1>7, <1>8, <1>9, <1>10
        DEF Next, Loop, Sample, Select

(* A press that has lasted two sampling periods when the grace period ends *)
(* has cancelled the choice, for all delays, as long as the display and    *)
(* the GPIO line answer; however late the runtime sends an expired timer.  *)
THEOREM PressesHonoured ==
  ASSUME ~GpioFaults, DisplayDelay = 0
  PROVE  Spec => PressHonoured
<1> DEFINE Heard == current = "grace" /\ current' = "commit" => ~(button /\ pressedFor >= 2)
<1>1. TypeOK /\ PressSeen /\ [Next]_vars => [Heard]_vars
  BY DEF PressSeen
<1>2. Init => PressSeen
  BY DEF Init, PressSeen
<1>3. Safe => TypeOK /\ ChoiceConsistent /\ Committing
  BY DEF Safe
<1> QED BY InitSafe, StepSafe, StepSeen, <1>1, <1>2, <1>3, PTL DEF Spec, PressHonoured

-----------------------------------------------------------------------------
(* Refinement: every step of the machine is a step of the policy or leaves *)
(* what the policy sees unchanged.                                         *)

(* The pendulum starts at rest, and nothing moves it before a press.       *)
RestAtStart == current = "rest" => modeIndex = 0

(* The index is 0 whenever the machine is at rest.                         *)
LEMMA StepRest == RestAtStart /\ [Next]_vars => RestAtStart'
<1> SUFFICES ASSUME RestAtStart, [Next]_vars PROVE RestAtStart'
  OBVIOUS
<1>1. CASE \/ UNCHANGED <<current, modeIndex>>
           \/ \E s, m, next : s # "rest" /\ Transition(s, m, next)
           \/ \E next : Transition("rest", 0, next)
  BY <1>1 DEF RestAtStart, Transition
<1>2. CASE Sample
  BY <1>2, <1>1 DEF Sample, PressAtRest, PressInGrace, PressElsewhere, ReleaseInSelect,
     ReleaseElsewhere, NothingSampled, ReadFails, StayPut, States
<1>3. CASE Select
  BY <1>3, <1>1 DEF Select, OnTick, TimeoutInSelect, TimeoutInGrace, TimeoutInAbort,
     TimeoutElsewhere, StayPut, States
<1>4. CASE DisplayReturns \/ HelperReturns \/ WrapperResets \/ ButtonMoves
           \/ PeriodEnds \/ TimerSends \/ UNCHANGED vars
  BY <1>4, <1>1 DEF DisplayReturns, HelperReturns, WrapperResets, ButtonMoves,
     PeriodEnds, TimerSends, vars, loopVars
<1> QED BY <1>2, <1>3, <1>4 DEF Next, Loop

(* What the user sees before and after a step, by the state of the machine.*)
LEMMA Seen ==
  /\ current = "select" => Phase = "choosing" /\ Choice = Mode(modeIndex)
  /\ current = "grace"  => Phase = "pending" /\ Choice = Mode(modeIndex)
  /\ current = "commit" => Phase = "done" /\ Choice = Mode(modeIndex)
  /\ current \in {"rest", "abort"} => Phase = "idle" /\ Choice = "none"
BY DEF Phase, Choice

(* What the user sees after a step.                                        *)
LEMMA SeenNext ==
  /\ current' = "select" => Phase' = "choosing" /\ Choice' = Mode(modeIndex')
  /\ current' = "grace"  => Phase' = "pending" /\ Choice' = Mode(modeIndex')
  /\ current' = "commit" => Phase' = "done" /\ Choice' = Mode(modeIndex')
  /\ current' \in {"rest", "abort"} => Phase' = "idle" /\ Choice' = "none"
BY DEF Phase, Choice, Mode

(* A step that changes neither state, mode nor button shows nothing.       *)
LEMMA NotSeen ==
  ASSUME UNCHANGED <<current, modeIndex>>
  PROVE  Phase' = Phase /\ Choice' = Choice
BY DEF Phase, Choice, Mode

(* The pendulum never swings from a harmless mode to a factory reset.      *)
LEMMA PendulumIsGentle ==
  /\ Mode(0) = "halt"
  /\ \A i \in 0 .. 9 :
       /\ Mode(NextMode(i)) \in Policy!Modes \cup {"abort"}
       /\ Mode(i) \in Policy!Harmless => Mode(NextMode(i)) # "reset-root"
<1>1. Mode(0) = "halt"
  BY DEF Mode, modeCycle
<1>2. ASSUME NEW i \in 0 .. 9
      PROVE  /\ Mode(NextMode(i)) \in Policy!Modes \cup {"abort"}
             /\ Mode(i) \in Policy!Harmless => Mode(NextMode(i)) # "reset-root"
  <2>1. NextMode(i) \in 0 .. 9 /\ NextMode(i) = (IF i = 9 THEN 0 ELSE i + 1)
    BY NextModeRange
  <2>2. Mode(NextMode(i)) \in Policy!Modes \cup {"abort"}
    BY <2>1, ModeRange DEF Policy!Modes, Policy!Harmless
  <2>3. Mode(i) \in Policy!Harmless => i \in {0, 1, 7, 8}
    BY DEF Mode, modeCycle, Policy!Harmless
  <2>4. i \in {0, 1, 7, 8} => Mode(NextMode(i)) # "reset-root"
    BY <2>1 DEF Mode, modeCycle
  <2> QED BY <2>2, <2>3, <2>4
<1> QED BY <1>1, <1>2

(* The monitor starts idle, with nothing chosen.                           *)
LEMMA InitPolicy == Init => Policy!PolicyInit
BY Seen DEF Init, Policy!PolicyInit

(* Every step is a step of ResetPolicy or is invisible to the user.        *)
LEMMA StepPolicy ==
  ASSUME Safe, RestAtStart, [Next]_vars
  PROVE  [Policy!PolicyNext]_(Policy!pvars)
<1> USE DEF Policy!PolicyNext
<1>m. modeIndex \in 0 .. 9 /\ current \in States
  BY ModeRange DEF Safe, TypeOK
<1>1. CASE PressAtRest
  <2>1. /\ Phase = "idle" /\ Phase' = "choosing" /\ Choice' = "halt"
        /\ ~down /\ down' = TRUE
    BY <1>1, Seen, SeenNext, PendulumIsGentle
       DEF PressAtRest, SeesPress, Transition, RestAtStart
  <2> QED BY <2>1 DEF Policy!Press, Policy!Harmless
<1>2. CASE PressInGrace
  <2>1. /\ Phase = "pending" /\ Phase' = "idle" /\ Choice' = "none"
        /\ ~down /\ down' = TRUE
    BY <1>2, Seen, SeenNext DEF PressInGrace, SeesPress, Transition
  <2> QED BY <2>1 DEF Policy!Cancel
<1>3. CASE PressElsewhere
  <2>1. /\ UNCHANGED <<Phase, Choice>> /\ current \in {"abort", "commit"}
        /\ ~down /\ down' = TRUE
    BY <1>3, <1>m, NotSeen
       DEF PressElsewhere, SeesPress, StayPut, Safe, ChoiceConsistent, States
  <2>2. Phase \in {"idle", "done"}
    BY <2>1, Seen
  <2> QED BY <2>1, <2>2 DEF Policy!Ignore
<1>4. CASE ReleaseInSelect /\ Mode(modeIndex) = "abort"
  <2>1. /\ Phase = "choosing" /\ Choice = "abort" /\ Phase' = "idle" /\ Choice' = "none"
        /\ down /\ down' = FALSE
    BY <1>4, Seen, SeenNext DEF ReleaseInSelect, SeesRelease, Transition
  <2> QED BY <2>1 DEF Policy!Cancel
<1>5. CASE ReleaseInSelect /\ Mode(modeIndex) # "abort"
  <2>1. /\ Phase = "choosing" /\ Choice # "abort" /\ Phase' = "pending" /\ Choice' = Choice
        /\ down /\ down' = FALSE
    BY <1>5, Seen, SeenNext DEF ReleaseInSelect, SeesRelease, Transition
  <2> QED BY <2>1 DEF Policy!Choose
<1>6. CASE ReleaseElsewhere
  <2>1. /\ UNCHANGED <<Phase, Choice>> /\ current \in {"rest", "abort", "commit"}
        /\ down /\ down' = FALSE
    BY <1>6, <1>m, NotSeen
       DEF ReleaseElsewhere, SeesRelease, StayPut, Safe, ChoiceConsistent, States
  <2>2. Phase \in {"idle", "done"}
    BY <2>1, Seen
  <2> QED BY <2>1, <2>2 DEF Policy!Ignore
<1>7. CASE TimeoutInSelect
  <2>1. /\ Phase = "choosing" /\ Phase' = "choosing" /\ down /\ down' = down
        /\ Choice = Mode(modeIndex) /\ Choice' = Mode(NextMode(modeIndex))
    BY <1>7, Seen, SeenNext
       DEF TimeoutInSelect, AfterTimeout, Transition, Safe, ChoiceConsistent
  <2> QED BY <2>1, <1>m, PendulumIsGentle DEF Policy!Offer
<1>8. CASE TimeoutInGrace
  <2>1. /\ Phase = "pending" /\ Phase' = "done" /\ ~down /\ down' = down
        /\ Choice' = Choice
    BY <1>8, Seen, SeenNext
       DEF TimeoutInGrace, AfterTimeout, Transition, Safe, ChoiceConsistent
  <2> QED BY <2>1 DEF Policy!CarryOut
<1>9. CASE TimeoutInAbort
  <2>1. /\ Phase = "idle" /\ Phase' = "idle" /\ down' = down
        /\ Choice = "none" /\ Choice' = "none"
    BY <1>9, Seen, SeenNext DEF TimeoutInAbort, AfterTimeout, Transition
  <2> QED BY <2>1 DEF Policy!pvars
<1>10. CASE NothingSampled \/ ReadFails \/ OnTick \/ TimeoutElsewhere \/ DisplayReturns
            \/ HelperReturns \/ WrapperResets \/ ButtonMoves \/ PeriodEnds
            \/ TimerSends \/ UNCHANGED vars
  <2>1. UNCHANGED <<current, modeIndex, down>>
    BY <1>10 DEF NothingSampled, ReadFails, OnTick, TimeoutElsewhere, DisplayReturns,
       HelperReturns, WrapperResets, ButtonMoves, PeriodEnds, TimerSends, StayPut,
       AfterTimeout, vars, loopVars
  <2> QED BY <2>1, NotSeen DEF Policy!pvars
<1> QED BY <1>1, <1>2, <1>3, <1>4, <1>5, <1>6, <1>7, <1>8, <1>9, <1>10
        DEF Next, Loop, Sample, Select

(* The state machine implements the promise made to its user, whatever the *)
(* delays, and even when the runtime is late to send an expired timer.     *)
THEOREM ResetButtonImplementsPolicy == Spec => PolicyImplemented
<1>1. Init => RestAtStart
  BY DEF Init, RestAtStart
<1> QED BY <1>1, InitSafe, StepSafe, StepRest, InitPolicy, StepPolicy, PTL
        DEF Spec, PolicyImplemented, Policy!PolicySpec
=============================================================================
