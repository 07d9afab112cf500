---------------------------- MODULE MCVolumeFlusher ----------------------------
(* Instances of VolumeFlusher for TLC. *)
EXTENDS VolumeFlusher

CONSTANTS c1, c2, silent, s1, s2

MCClients == {c1, c2, silent}
MCSilent == {silent}
MCSlots == {s1, s2}
=============================================================================
