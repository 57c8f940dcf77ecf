------------------------------- MODULE MCMotion -------------------------------
(* Instances of Motion for TLC. *)
EXTENDS Motion

CONSTANTS cam1, LingerTicks

MCLinger == [c \in Cameras |-> LingerTicks]
=============================================================================
