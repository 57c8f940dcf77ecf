----------------------------- MODULE MCScheduler -----------------------------
(***************************************************************************)
(* Instances of Scheduler for TLC.  Callers are model values; what the     *)
(* Scheduler knows of a caller is its camera and its priority: ren1 and    *)
(* con1 are the renewals and the connects of cam1's session, con2 the      *)
(* connects of cam2's.                                                     *)
(***************************************************************************)
EXTENDS Scheduler

CONSTANTS ren1, con1, con2, cam1, cam2

MCDeviceOf ==
    [c \in Callers |-> IF c = con2 THEN cam2 ELSE cam1]
MCPriorityOf ==
    [c \in Callers |-> IF c = ren1 THEN PriorityRenewal ELSE PriorityConnect]
=============================================================================
