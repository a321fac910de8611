---------------------------- MODULE OneTimeCode ----------------------------
(***************************************************************************)
(* What pairing over BLE promises, without SRP, the characteristics and    *)
(* the queues: a code is offered, then accepted at the first attempt or    *)
(* never used again; requests are served only while a code is accepted,    *)
(* each with a higher number than the last.  SecuredRPC implements it.     *)
(***************************************************************************)
EXTENDS Naturals

VARIABLES
  code,   \* the code in force: codes are numbered as they are generated
  phase,  \* "idle", "offered" (sent to the display) or "accepted"
  last    \* the number of the last request served under this code

cvars == <<code, phase, last>>

CodeTypeOK == code \in Nat /\ phase \in {"idle", "offered", "accepted"} /\ last \in Nat

CodeInit == code = 1 /\ phase = "idle" /\ last = 0

(* A code that was offered before is replaced when pairing starts again.   *)
Offer ==
  /\ phase' = "offered" /\ last' = 0
  /\ code' = IF phase = "idle" THEN code ELSE code + 1

Accept ==
  /\ phase = "offered" /\ phase' = "accepted"
  /\ UNCHANGED <<code, last>>

(* A wrong attempt, a step out of order, or a restart.                     *)
Withdraw == phase' = "idle" /\ code' = code + 1 /\ last' = 0

Serve ==
  /\ phase = "accepted"
  /\ last' > last
  /\ UNCHANGED <<code, phase>>

CodeNext == Offer \/ Accept \/ Withdraw \/ Serve

CodeSpec == CodeInit /\ [][CodeNext]_cvars
=============================================================================
