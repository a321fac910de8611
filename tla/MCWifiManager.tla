--------------------------- MODULE MCWifiManager ---------------------------
(***************************************************************************)
(* WifiManager for TLC: the calls of SetCredentials are interchangeable.   *)
(***************************************************************************)
EXTENDS WifiManager, TLC

AttemptSymmetry == Permutations(Attempts)
=============================================================================
