-------------------------------- MODULE Motion --------------------------------
(***************************************************************************)
(* From detections to the motion level a camera's ONVIF sidecar shows      *)
(* (internal/events/motion.go, wired together in internal/cli/serve.go).   *)
(*                                                                         *)
(* Two goroutines change the level under Tracker.mu and emit the edges     *)
(* after unlocking it: the subscriber, which calls Handle for a detection, *)
(* and the sweeper, which calls Sweep.  Emitting puts the edge into the    *)
(* one-place queue of its camera; a dispatcher goroutine per camera takes  *)
(* it out and posts it to the sidecar.                                     *)
(*                                                                         *)
(* Times are relative to the present so that the model may run for ever:   *)
(* clearIn is clearAt minus now and upFor is now minus raisedAt, each      *)
(* stopped where no comparison can tell the difference any more.  Both     *)
(* goroutines read the clock before they take the lock; lag is how long    *)
(* ago a goroutine that has not finished with its reading took it.         *)
(*                                                                         *)
(* EventPath composes this with the subscriber and with bus.Publish, which *)
(* emit calls first.  camState.holds, only logged, is left out.            *)
(***************************************************************************)
EXTENDS Integers

CONSTANTS
    Cameras,        \* cameras whose events are forwarded
    Linger,         \* camState.linger of each camera
    MaxDuration,    \* Tracker.MaxDuration
    MaxLag,         \* bound: from a clock reading to the last Send after it
    Lossy,          \* cameras whose posts may fail
    Restarts,       \* whether the bridge and the sidecars may restart
    Recorded        \* cameras whose history quiet and raced record

ASSUME LingerAssumption == Linger \in [Cameras -> Nat \ {0}]
ASSUME BoundAssumption == MaxDuration \in Nat \ {0} /\ MaxLag \in Nat
ASSUME SidecarAssumption == Lossy \subseteq Cameras
ASSUME RecordedAssumption == Recorded \subseteq Cameras /\ Restarts \in BOOLEAN

VARIABLES
    on,             \* camState.on
    clearIn,        \* camState.clearAt, seen from now
    upFor,          \* camState.raisedAt, seen from now
    quiet,          \* history: time since the camera's last detection
    pc,             \* where the subscriber and the sweeper are
    lag,            \* how long ago they read the clock
    detected,       \* the camera of the detection waiting for t.mu, if any
    outbox,         \* edges computed under the lock, not yet sent
    sending,        \* the edge in the middle of Send
    queue,          \* Dispatcher.queues: at most one edge per camera
    delivering,     \* the edge a dispatcher goroutine is posting
    motionState,    \* the level the sidecar shows
    lost,           \* history: no post since a failed one, or since a restart
    raced           \* history: the last edge overlapped another's emission

levelVars == <<on, clearIn, upFor, quiet>>
sendVars == <<outbox, sending, queue>>
deliverVars == <<delivering, motionState, lost>>
vars == <<levelVars, pc, lag, detected, sendVars, deliverVars, raced>>

Edge == [cam : Cameras, on : BOOLEAN]

Emitters == {"subscriber", "sweeper"}

LongestLinger(c) == IF Linger[c] > MaxDuration THEN Linger[c] ELSE MaxDuration

\* An elapsed time, stopped once every comparison with it is decided.
Age(c, t) == IF t > LongestLinger(c) + MaxLag THEN LongestLinger(c) + MaxLag
                                              ELSE t

\* clearAt is in the past for every clock reading: also the zero time.
LongPast == -MaxLag

\* A goroutine that is done with its clock reading forgets it.
Goto(a, label) ==
    /\ pc' = [pc EXCEPT ![a] = label]
    /\ lag' = [lag EXCEPT ![a] = IF label = "idle" THEN 0 ELSE @]

\* An edge of c that some emitter has not finished sending.
InEmission(a, c) == \E e \in outbox[a] \cup sending[a] : e.cam = c

Overlaps(a, c) == c \in Recorded /\ InEmission(a, c)

-----------------------------------------------------------------------------
(* Tracker *)

\* The subscriber has a detection of a configured camera; Handle reads the
\* clock.  Events of other devices leave the state alone.
Detect(c) ==
    /\ pc["subscriber"] = "idle"
    /\ detected' = {c}
    /\ Goto("subscriber", "lock")
    /\ UNCHANGED <<levelVars, sendVars, deliverVars, raced>>

\* Mutant of Hold: a detection during a window does not extend it.
HoldOnce(c, t) == IF on[c] THEN clearIn[c] ELSE Linger[c] - t

\* The deadline moves to t ago plus linger, never backwards.
Hold(c, t) == IF Linger[c] - t > clearIn[c] THEN Linger[c] - t ELSE clearIn[c]

\* Handle under t.mu: extend the hold, raise the level if it is down.
Handle == \E c \in detected :
    LET t == lag["subscriber"]
    IN  /\ pc["subscriber"] = "lock"
        /\ detected' = {}
        /\ clearIn' = [clearIn EXCEPT ![c] = Hold(c, t)]
        /\ quiet' = [quiet EXCEPT ![c] = IF c \in Recorded THEN t ELSE @]
        /\ \/ /\ ~on[c]
              /\ on' = [on EXCEPT ![c] = TRUE]
              /\ upFor' = [upFor EXCEPT ![c] = t]
              /\ outbox' = [outbox EXCEPT !["subscriber"] =
                               {[cam |-> c, on |-> TRUE]}]
              /\ raced' = [raced EXCEPT ![c] = Overlaps("sweeper", c)]
              /\ Goto("subscriber", "emit")
           \/ /\ on[c]
              /\ Goto("subscriber", "idle")
              /\ UNCHANGED <<on, upFor, outbox, raced>>
        /\ UNCHANGED <<sending, queue, deliverVars>>

\* Tracker.Run woke up and reads the clock for Sweep.
Wake ==
    /\ pc["sweeper"] = "idle"
    /\ Goto("sweeper", "lock")
    /\ UNCHANGED <<levelVars, detected, sendVars, deliverVars, raced>>

\* Mutant of Lowers: no failsafe ceiling.
LowersOnExpiry(c, t) == on[c] /\ clearIn[c] <= -t

\* Sweep lowers c: its hold has expired, or the window is at its ceiling.
Lowers(c, t) == on[c] /\ (clearIn[c] <= -t \/ upFor[c] - t >= MaxDuration)

\* Sweep under t.mu.
Sweep ==
    LET t == lag["sweeper"]
        down == {c \in Cameras : Lowers(c, t)}
    IN  /\ pc["sweeper"] = "lock"
        /\ on' = [c \in Cameras |-> on[c] /\ c \notin down]
        /\ clearIn' = [c \in Cameras |->
                          IF c \in down THEN LongPast ELSE clearIn[c]]
        /\ outbox' = [outbox EXCEPT !["sweeper"] =
                         {[cam |-> c, on |-> FALSE] : c \in down}]
        /\ raced' = [c \in Cameras |->
                        IF c \in down THEN Overlaps("subscriber", c)
                                      ELSE raced[c]]
        /\ Goto("sweeper", IF down = {} THEN "idle" ELSE "emit")
        /\ UNCHANGED <<upFor, quiet, detected, sending, queue, deliverVars>>

-----------------------------------------------------------------------------
(* Dispatcher.Send, three selects that do not block *)

Emitted(a, box) == Goto(a, IF box = {} THEN "idle" ELSE "emit")

\* The edge fits the queue, or Send goes on to displace the one in it.
SendFirst(a) ==
    /\ pc[a] = "emit"
    /\ \E e \in outbox[a] :
          /\ outbox' = [outbox EXCEPT ![a] = @ \ {e}]
          /\ \/ /\ queue[e.cam] = {}
                /\ queue' = [queue EXCEPT ![e.cam] = {e}]
                /\ Emitted(a, outbox[a] \ {e})
                /\ UNCHANGED sending
             \/ /\ queue[e.cam] # {}
                /\ sending' = [sending EXCEPT ![a] = {e}]
                /\ Goto(a, "displace")
                /\ UNCHANGED queue
    /\ UNCHANGED <<levelVars, detected, deliverVars, raced>>

\* Mutant of Displace: the queued edge is kept.
DisplaceNothing(a) ==
    /\ pc[a] = "displace"
    /\ Goto(a, "retry")
    /\ UNCHANGED <<levelVars, detected, sendVars, deliverVars, raced>>

\* Take out what is queued, if the dispatcher has not taken it meanwhile.
Displace(a) ==
    /\ pc[a] = "displace"
    /\ \E e \in sending[a] : queue' = [queue EXCEPT ![e.cam] = {}]
    /\ Goto(a, "retry")
    /\ UNCHANGED <<levelVars, detected, outbox, sending, deliverVars, raced>>

\* Mutant of SendAgain: a queue without a capacity.
SendAgainUnbounded(a) ==
    /\ pc[a] = "retry"
    /\ \E e \in sending[a] : queue' = [queue EXCEPT ![e.cam] = @ \cup {e}]
    /\ sending' = [sending EXCEPT ![a] = {}]
    /\ Emitted(a, outbox[a])
    /\ UNCHANGED <<levelVars, detected, outbox, deliverVars, raced>>

\* The edge fits now, or another emitter was faster and it is dropped.
SendAgain(a) ==
    /\ pc[a] = "retry"
    /\ \E e \in sending[a] :
          queue' = [queue EXCEPT ![e.cam] = IF @ = {} THEN {e} ELSE @]
    /\ sending' = [sending EXCEPT ![a] = {}]
    /\ Emitted(a, outbox[a])
    /\ UNCHANGED <<levelVars, detected, outbox, deliverVars, raced>>

-----------------------------------------------------------------------------
(* The dispatcher goroutine of a camera, and the trigger endpoint *)

Take(c) ==
    /\ delivering[c] = {}
    /\ queue[c] # {}
    /\ delivering' = [delivering EXCEPT ![c] = queue[c]]
    /\ queue' = [queue EXCEPT ![c] = {}]
    /\ UNCHANGED <<levelVars, pc, lag, detected, outbox, sending, motionState,
                   lost, raced>>

\* The post reaches the sidecar, whether or not its answer comes in time, or it
\* does not; an error is logged and the edge is not sent again.  Limit of the
\* model: a post that timed out reaches the sidecar by then or never, not after
\* the next one.
Deliver(c) ==
    /\ \E e \in delivering[c] :
          \/ /\ motionState' = [motionState EXCEPT ![c] = e.on]
             /\ lost' = [lost EXCEPT ![c] = FALSE]
          \/ /\ c \in Lossy
             /\ lost' = [lost EXCEPT ![c] = TRUE]
             /\ UNCHANGED motionState
    /\ delivering' = [delivering EXCEPT ![c] = {}]
    /\ UNCHANGED <<levelVars, pc, lag, detected, sendVars, raced>>

\* The sidecar of c restarts with its level down; nothing tells the bridge.
SidecarRestart(c) ==
    /\ Restarts
    /\ motionState' = [motionState EXCEPT ![c] = FALSE]
    /\ lost' = [lost EXCEPT ![c] = TRUE]
    /\ UNCHANGED <<levelVars, pc, lag, detected, sendVars, delivering, raced>>

\* The bridge restarts and forgets the levels, whatever the sidecars show.
BridgeRestart ==
    /\ Restarts
    /\ on' = [c \in Cameras |-> FALSE]
    /\ clearIn' = [c \in Cameras |-> LongPast]
    /\ pc' = [a \in Emitters |-> "idle"]
    /\ lag' = [a \in Emitters |-> 0]
    /\ detected' = {}
    /\ outbox' = [a \in Emitters |-> {}]
    /\ sending' = [a \in Emitters |-> {}]
    /\ queue' = [c \in Cameras |-> {}]
    /\ delivering' = [c \in Cameras |-> {}]
    /\ lost' = [c \in Cameras |-> TRUE]
    /\ UNCHANGED <<upFor, quiet, motionState, raced>>

\* Time passes.
Tick ==
    /\ \A a \in Emitters : pc[a] # "idle" => lag[a] < MaxLag
    /\ lag' = [a \in Emitters |-> IF pc[a] # "idle" THEN lag[a] + 1 ELSE 0]
    /\ clearIn' = [c \in Cameras |->
                      IF clearIn[c] > LongPast THEN clearIn[c] - 1 ELSE LongPast]
    /\ upFor' = [c \in Cameras |-> Age(c, upFor[c] + 1)]
    /\ quiet' = [c \in Cameras |-> IF c \in Recorded THEN Age(c, quiet[c] + 1)
                                                     ELSE quiet[c]]
    /\ UNCHANGED <<on, pc, detected, sendVars, deliverVars, raced>>

-----------------------------------------------------------------------------

Init ==
    /\ on = [c \in Cameras |-> FALSE]
    /\ clearIn = [c \in Cameras |-> LongPast]
    /\ upFor = [c \in Cameras |-> LongestLinger(c) + MaxLag]
    /\ quiet = [c \in Cameras |-> LongestLinger(c) + MaxLag]
    /\ pc = [a \in Emitters |-> "idle"]
    /\ lag = [a \in Emitters |-> 0]
    /\ detected = {}
    /\ outbox = [a \in Emitters |-> {}]
    /\ sending = [a \in Emitters |-> {}]
    /\ queue = [c \in Cameras |-> {}]
    /\ delivering = [c \in Cameras |-> {}]
    /\ motionState = [c \in Cameras |-> FALSE]
    /\ lost = [c \in Cameras |-> FALSE]
    /\ raced = [c \in Cameras |-> FALSE]

Send(a) == SendFirst(a) \/ Displace(a) \/ SendAgain(a)

Next ==
    \/ \E c \in Cameras : Detect(c) \/ Take(c) \/ Deliver(c) \/ SidecarRestart(c)
    \/ BridgeRestart \/ Handle \/ Wake \/ Sweep
    \/ \E a \in Emitters : Send(a)
    \/ Tick

Spec == Init /\ [][Next]_vars

-----------------------------------------------------------------------------
(* Properties *)

\* At most one edge, of the camera's own.
Place(c) == {{}} \cup {{e} : e \in {x \in Edge : x.cam = c}}

\* The types of the variables: no queue ever holds more than its one edge, or
\* an edge of another camera.
TypeOK ==
    /\ on \in [Cameras -> BOOLEAN]
    /\ clearIn \in [Cameras -> Int]
    /\ upFor \in [Cameras -> Nat]
    /\ quiet \in [Cameras -> Nat]
    /\ pc \in [Emitters -> {"idle", "lock", "emit", "displace", "retry"}]
    /\ lag \in [Emitters -> 0 .. MaxLag]
    /\ detected \subseteq Cameras
    /\ outbox \in [Emitters -> SUBSET Edge]
    /\ sending \in [Emitters -> SUBSET Edge]
    /\ \A c \in Cameras : queue[c] \in Place(c) /\ delivering[c] \in Place(c)
    /\ motionState \in [Cameras -> BOOLEAN]
    /\ lost \in [Cameras -> BOOLEAN]
    /\ raced \in [Cameras -> BOOLEAN]

\* The level falls only when the camera has been quiet for its linger, or when
\* the window is at the failsafe ceiling, although Sweep and Handle compare
\* clock readings taken before the lock.
HeldForLinger ==
    [][\A c \in Recorded : on[c] /\ ~on'[c] =>
          quiet[c] >= Linger[c] \/ upFor[c] >= MaxDuration \/ BridgeRestart]_vars

\* Every window ends, however many detections keep arriving ("without this a
\* camera watching a busy street would hold motion on for the process's
\* lifetime", motion.go:22-26), and although the goroutine that lowers it also
\* emits, to sidecars that may never answer (motion.go:105-107).
EveryWindowEnds == \A c \in Cameras : on[c] ~> ~on[c]

\* Nothing of c's edges is on its way to the sidecar.
Settled(c) ==
    /\ \A a \in Emitters : ~InEmission(a, c)
    /\ queue[c] = {}
    /\ delivering[c] = {}

\* Once everything is delivered the sidecar shows the tracker's level, unless
\* the last post was lost (it is never repeated), a restart since then made the
\* two forget each other, or the last edge was computed while the other
\* goroutine still had an edge of that camera to emit.  Coalescing in Send loses
\* no final state, and one post that arrives repairs whatever went before.
SettlesWithoutRace ==
    \A c \in Recorded : Settled(c) /\ ~lost[c] /\ ~raced[c] =>
        motionState[c] = on[c]

\* Send's comment: a displaced edge is superseded, "the newer edge is the one
\* worth keeping: it is the current state, whereas the queued one is already
\* wrong" (motion.go:230-232).  Edges are emitted after t.mu is released, so
\* the later Send may carry the older edge, and the camera settles on the wrong
\* level without any post being lost.
SettlesOnCurrentLevel ==
    \A c \in Cameras : Settled(c) /\ ~lost[c] => motionState[c] = on[c]
=============================================================================
