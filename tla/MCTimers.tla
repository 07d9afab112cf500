------------------------------- MODULE MCTimers -------------------------------
(* Instances of Timers for TLC. *)
EXTENDS Timers

CONSTANTS c1, c2, t1, t2, t3

MCClients == {c1, c2}
MCOne == {c1}
MCTimers == {t1, t2, t3}
MCPeriodic == {t1}
=============================================================================
