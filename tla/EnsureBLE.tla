------------------------------ MODULE EnsureBLE ------------------------------
(***************************************************************************)
(* EnsureBLEIsUp (ble_utils.go): a goroutine looks at the BLE interface    *)
(* and takes it down and up again until it is up, and goes on doing so     *)
(* after its caller has given up waiting.                                  *)
(***************************************************************************)
EXTENDS Naturals

VARIABLES
  hci0,      \* the interface: "absent", "unready" (cannot come up yet), "down" or "up"
  poller     \* the goroutine: "look", "down", "up" or "over"

bleVars == <<hci0, poller>>

EnsureTypeOK ==
  /\ hci0 \in {"absent", "unready", "down", "up"}
  /\ poller \in {"look", "down", "up", "over"}

hciconfig(cmd) ==
  hci0' = IF hci0 \in {"down", "up"} THEN cmd ELSE hci0

Looks_GivesUp ==
  /\ poller = "look"
  /\ poller' = IF hci0 \in {"absent", "up"} THEN "over" ELSE "down"
  /\ UNCHANGED hci0

(* hciconfig fails, shows UP, or does not; it sleeps before it looks again.*)
Looks ==
  /\ poller = "look"
  /\ poller' = IF hci0 = "up" THEN "over" ELSE IF hci0 = "absent" THEN "look" ELSE "down"
  /\ UNCHANGED hci0

TakesDown == poller = "down" /\ poller' = "up" /\ hciconfig("down")
BringsUp == poller = "up" /\ poller' = "look" /\ hciconfig("up")

Poller == Looks \/ TakesDown \/ BringsUp

(* The chip: the device shows up late, and takes a while to be ready.      *)
DeviceAppears ==
  /\ hci0 = "absent" /\ hci0' = "unready"
  /\ UNCHANGED poller

DeviceReady ==
  /\ hci0 = "unready" /\ hci0' = "down"
  /\ UNCHANGED poller
=============================================================================
