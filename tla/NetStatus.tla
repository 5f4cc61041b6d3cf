------------------------------ MODULE NetStatus ------------------------------
(***************************************************************************)
(* What the hub's network promises the applications above it, and what      *)
(* HubTcp takes for granted (its hub.net): a hub comes online once after    *)
(* each start; a lost link takes it offline until the next start.           *)
(***************************************************************************)
VARIABLE net

NetInit == net = "boot"

Configured == net = "boot" /\ net' = "online"
LinkLost == net = "online" /\ net' = "down"
Restarted == net' = "boot"

NetNext == Configured \/ LinkLost \/ Restarted

NetSpec == NetInit /\ [][NetNext]_net

=============================================================================
