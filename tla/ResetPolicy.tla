---------------------------- MODULE ResetPolicy ----------------------------
(***************************************************************************)
(* What the reset button promises its user, without the timers, the        *)
(* sampling loop and the display: pressing the button offers harmless      *)
(* modes first, releasing it chooses one, pressing it again before the     *)
(* grace period ends cancels the choice, and only a choice that was not    *)
(* cancelled is ever carried out.  ResetButton implements this module.     *)
(***************************************************************************)

VARIABLES
  phase,   \* "idle", "choosing", "pending" (may still be cancelled), "done"
  choice,  \* the mode on offer, chosen or carried out; "none" when idle
  held     \* the button as the program last saw it

pvars == <<phase, choice, held>>

Harmless == {"halt", "reboot"}
Modes    == Harmless \cup {"reset-userdata", "reset-root"}

PolicyTypeOK ==
  /\ phase \in {"idle", "choosing", "pending", "done"}
  /\ choice \in Modes \cup {"abort", "none"}
  /\ held \in BOOLEAN

PolicyInit == phase = "idle" /\ choice = "none" /\ held = FALSE

(* A press starts a choice, and the first mode on offer is harmless.       *)
Press ==
  /\ phase = "idle" /\ ~held
  /\ phase' = "choosing" /\ held' = TRUE
  /\ choice' \in Harmless

(* While the button is held the offer changes; a factory reset is never    *)
(* the mode that follows a harmless one.                                   *)
Offer ==
  /\ phase = "choosing" /\ held
  /\ choice' \in Modes \cup {"abort"}
  /\ choice \in Harmless => choice' # "reset-root"
  /\ UNCHANGED <<phase, held>>

Choose ==
  /\ phase = "choosing" /\ held /\ choice # "abort"
  /\ phase' = "pending" /\ held' = FALSE
  /\ UNCHANGED choice

(* Releasing the button on "abort" and pressing it while a choice is       *)
(* pending both return to idle with nothing chosen.                        *)
Cancel ==
  /\ \/ phase = "choosing" /\ held /\ choice = "abort"
     \/ phase = "pending" /\ ~held
  /\ held' = ~held
  /\ phase' = "idle" /\ choice' = "none"

CarryOut ==
  /\ phase = "pending" /\ ~held
  /\ phase' = "done"
  /\ UNCHANGED <<choice, held>>

(* A press or a release that has no effect: in the white flash that        *)
(* follows a cancellation, and once a choice has been carried out.         *)
Ignore ==
  /\ phase \in {"idle", "done"}
  /\ held' = ~held
  /\ UNCHANGED <<phase, choice>>

PolicyNext == Press \/ Offer \/ Choose \/ Cancel \/ CarryOut \/ Ignore

PolicySpec == PolicyInit /\ [][PolicyNext]_pvars
=============================================================================
