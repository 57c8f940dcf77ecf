------------------------------ MODULE MCRecorders ------------------------------
(* An instance of Recorders for TLC. *)
EXTENDS Recorders

CONSTANTS cam1

MCLinger == [c \in Cameras |-> 1]

MCTopics == <<"VideoSource/MotionAlarm", "CellMotionDetector/Motion">>

\* Two recorders, or one that the sidecar may reap.
MCLimits == {[recorders |-> 2, clock |-> FALSE], [recorders |-> 1, clock |-> TRUE]}
=============================================================================
