----------------------------- MODULE AccessPoint -----------------------------
(***************************************************************************)
(* The upstart job hostapd-ap0 (AccessPointManager.go, UpstartJob.go): its *)
(* pre-start script runs this program again with -firewall-hook, which     *)
(* rebuilds the INPUT chain one iptables command at a time, and exits with *)
(* an error if one of them fails; hostapd starts after it.  The job and    *)
(* the chain outlive the assistant.                                        *)
(***************************************************************************)
EXTENDS Naturals, Sequences

VARIABLES
  Full_Network_Access,  \* of the configuration; the hook reads it anew
  job,                  \* "stopped", "prestart" (the hook runs) or "running"
  chain                 \* the rules of INPUT for packets from ap0, first match first

apVars == <<Full_Network_Access, job, chain>>

(* What the setup needs: four TCP ports, and DHCP.                         *)
Open == {"8888", "80", "9001", "22", "dhcp"}
Services == Open \cup {"other"}

(* What SetupFirewall appends, in this order, after it has set the         *)
(* policies to ACCEPT, which is what they are, and flushed the chain.      *)
Rules == <<"8888", "80", "9001", "22", "dhcp", "drop">>

(* The chain when the hook is over: all rules, or what was set before      *)
(* iptables failed; with full access there is only the flush.              *)
Complete == IF Full_Network_Access THEN <<>> ELSE Rules
Broken ==
  {chain} \cup IF Full_Network_Access THEN {} ELSE {SubSeq(Rules, 1, n) : n \in 0 .. Len(Rules) - 1}

(* A packet is dropped by "drop" unless a rule before accepts it.          *)
Accepted(s) ==
  \A i \in DOMAIN chain : chain[i] = "drop" => \E j \in 1 .. i : chain[j] = s

AccessPointTypeOK ==
  /\ Full_Network_Access \in BOOLEAN
  /\ job \in {"stopped", "prestart", "running"}
  /\ chain \in Seq(Open \cup {"drop"})

(* When the machine starts; what the assistant finds is what it left.      *)
AccessPointInit ==
  /\ Full_Network_Access \in BOOLEAN
  /\ job = "stopped" /\ chain = <<>>

(* /sbin/start does nothing to a job that runs; it and /sbin/stop wait     *)
(* until a pre-start script is over.                                       *)
StartJob ==
  /\ job # "prestart"
  /\ job' = IF job = "stopped" THEN "prestart" ELSE job
  /\ UNCHANGED <<Full_Network_Access, chain>>

StopJob ==
  /\ job # "prestart"
  /\ job' = "stopped"
  /\ UNCHANGED <<Full_Network_Access, chain>>

HookSucceeds ==
  /\ job = "prestart" /\ job' = "running"
  /\ chain' = Complete
  /\ UNCHANGED Full_Network_Access

HookFails_Ignored ==
  /\ job = "prestart" /\ job' = "running"
  /\ chain' \in Broken
  /\ UNCHANGED Full_Network_Access

(* log.Fatal: the script fails, and with it the start of the job.          *)
HookFails ==
  /\ job = "prestart" /\ job' = "stopped"
  /\ chain' \in Broken
  /\ UNCHANGED Full_Network_Access

(* upstart respawns hostapd, pre-start script included.                    *)
HostapdDies ==
  /\ job = "running" /\ job' = "prestart"
  /\ UNCHANGED <<Full_Network_Access, chain>>

Job == HookSucceeds \/ HookFails \/ HostapdDies

(* "Allow nothing on here": while the access point is on, it lets through  *)
(* what the setup needs and nothing else, unless it is configured to let   *)
(* everything through; no failure of iptables, respawn of hostapd or       *)
(* restart of the assistant leaves a part of the rules behind.             *)
Confined ==
  job = "running" =>
    \A s \in Services : Accepted(s) <=> s \in Open \/ Full_Network_Access
=============================================================================
