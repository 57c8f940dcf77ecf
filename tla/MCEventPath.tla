----------------------------- MODULE MCEventPath -----------------------------
(* An instance of EventPath for TLC. *)
EXTENDS EventPath

CONSTANTS cam1, m1, m2, v1, outside

MCLinger == [c \in Cameras |-> 1]

\* One detection in a message, and a message nobody can use.
MCDevice == [m \in Messages |-> IF m = m1 THEN cam1 ELSE outside]
MCKinds == [m \in Messages |-> {"Motion", "Unheard"}]

\* The sidecar and the bridge restart; Pub/Sub fails twice; browsers
\* come and go.  In the last two the sidecar takes nothing, so that its queue
\* stays full.
MCScenarios ==
    {[messages |-> {m1}, viewers |-> {}, restarts |-> 1, faults |-> 0,
      sidecars |-> {"posts", "restart"}],
     [messages |-> {m1, m2}, viewers |-> {}, restarts |-> 0,
      faults |-> 2, sidecars |-> {}],
     [messages |-> {m1}, viewers |-> {v1}, restarts |-> 0, faults |-> 0,
      sidecars |-> {}]}
=============================================================================
