------------------------------ MODULE QuotaGate ------------------------------
(***************************************************************************)
(* What internal/scheduler promises to the rest of the bridge, without its *)
(* queue, its slot or its pruned windows: commands are served one at a     *)
(* time, and one starts only if the whole history of starts leaves room    *)
(* for it in the last Minute and, for its camera, in the last Hour.        *)
(* Scheduler implements this module.                                       *)
(***************************************************************************)
EXTENDS Integers, FiniteSets

CONSTANTS
    Callers, Devices, DeviceOf,     \* who asks, and for which camera
    GlobalQPM, DeviceQPH,           \* the ceilings
    Minute, Hour,                   \* the lengths of the windows
    CallNumbers                     \* what tells one command from another

VARIABLES
    now,        \* the time
    serving,    \* the callers whose command is being run
    started     \* every command started so far

vars == <<now, serving, started>>

Begin(c) ==
    /\ serving = {}
    /\ Cardinality({a \in started : a.at > now - Minute}) < GlobalQPM
    /\ Cardinality({a \in started : a.dev = DeviceOf[c] /\ a.at > now - Hour})
           < DeviceQPH
    /\ \E n \in CallNumbers :
          /\ \A a \in started : a.seq # n
          /\ started' = started \cup {[at |-> now, seq |-> n, dev |-> DeviceOf[c]]}
    /\ serving' = {c}
    /\ UNCHANGED now

End(c) ==
    /\ serving = {c}
    /\ serving' = {}
    /\ UNCHANGED <<now, started>>

Tick == now' = now + 1 /\ UNCHANGED <<serving, started>>

Init == now = 0 /\ serving = {} /\ started = {}

Next == Tick \/ \E c \in Callers : Begin(c) \/ End(c)

Spec == Init /\ [][Next]_vars
=============================================================================
