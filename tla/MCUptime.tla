------------------------------ MODULE MCUptime ------------------------------
(***************************************************************************)
(* Uptime with two monitors and one channel of one tenant.                 *)
(***************************************************************************)
EXTENDS Uptime, TLC

CONSTANTS m1, m2, h1, c1, pass, tenant

OneTenant == [row \in Monitors \cup Channels |-> tenant]
=============================================================================
