------------------------------- MODULE EventPath -------------------------------
(***************************************************************************)
(* The whole event path, as startEvents of internal/cli/serve.go wires it: *)
(* the subscriber's handler is Tracker.Handle, and emit publishes an edge  *)
(* on the viewer's bus before it gives it to the dispatcher.  The          *)
(* subscriber's and the sweeper's goroutine therefore run through all      *)
(* three components, and a batch is acknowledged only after every sidecar  *)
(* queue and every browser's channel has been offered its edges.           *)
(***************************************************************************)
EXTENDS Motion, Subscriber, EventBus

CONSTANTS
    Scenarios       \* bound: the messages, viewers, restarts of the bridge,
                    \* faults of Pub/Sub and steps of the sidecars a behaviour
                    \* may see

\* The subscriber's devices are those of the tracker's cameras
\* (serve.go:154-161).
ASSUME PathAssumption == Publishers = Emitters /\ Devices \subseteq Cameras

VARIABLES
    offered,        \* bound: the scenario of this behaviour
    restarts,       \* bound: restarts of the bridge so far
    faults          \* bound: faults of Pub/Sub so far

boundVars == <<offered, restarts, faults>>
pathVars == <<vars, subVars, busVars, boundVars>>

PathInit == Init /\ SubInit /\ BusInit /\ restarts = 0 /\ faults = 0 /\ offered \in Scenarios

\* The subscriber's goroutine is in no call of the handler.
Free == pc["subscriber"] = "idle"

MotionOnly == UNCHANGED <<subVars, busVars, boundVars>>
SubOnly == UNCHANGED <<vars, busVars, boundVars>>
BusOnly == UNCHANGED <<vars, subVars, boundVars>>

\* The next detection goes to the tracker.
CallHandle(call) ==
    /\ Free
    /\ Call(call)
    /\ Detect(call.device)
    /\ UNCHANGED <<busVars, boundVars>>

\* The tracker is told of the detection: the one whose call was made last.
HandleCall ==
    /\ Handle
    /\ owed' = {call \in owed :
                   \/ call.device \notin detected
                   \/ call.msg \notin batch \ left
                   \/ call \in calls}
    /\ UNCHANGED <<offers, leased, subPc, batch, left, calls, busVars, boundVars>>

\* emit: first the bus.
Announce(a) ==
    /\ pc[a] = "emit"
    /\ \E e \in outbox[a] : Publish(a, e)
    /\ BusOnly

\* Then the dispatcher.
Emit(a) ==
    /\ Published(a)
    /\ SendFirst(a)
    /\ outbox'[a] = outbox[a] \ publishing[a].edge
    /\ UNCHANGED <<subVars, boundVars>>

EmitStep(a) ==
    \/ Announce(a) \/ Emit(a)
    \/ (Displace(a) \/ SendAgain(a)) /\ MotionOnly
    \/ \E v \in Viewers : Offer(a, v) /\ BusOnly

\* Everything is forgotten, except at Pub/Sub and at the sidecars.
PathRestart ==
    /\ restarts < offered.restarts
    /\ restarts' = restarts + 1
    /\ UNCHANGED <<offered, faults>>
    /\ BridgeRestart /\ SubForgotten /\ BusForgotten

\* What the subscriber's goroutine does by itself.
SubscriberStep ==
    \/ \E call \in calls : CallHandle(call)
    \/ HandleCall
    \/ EmitStep("subscriber")
    \/ Free /\ (\E m \in left : Dispatch(m)) /\ SubOnly

SweeperStep ==
    \/ (Wake \/ Sweep) /\ MotionOnly
    \/ EmitStep("sweeper")

AcknowledgeStep ==
    /\ Free
    /\ Acknowledge
    /\ SubOnly

\* Pub/Sub fails the subscriber once more.
Fault ==
    /\ faults < offered.faults
    /\ faults' = faults + 1
    /\ \/ \E m \in Messages : PullLost(m)
       \/ \E m \in batch : Expire(m)
       \/ Free /\ AcknowledgeFails
    /\ UNCHANGED <<vars, busVars, offered, restarts>>

PublishStep(m) == m \in offered.messages /\ PublishMessage(m) /\ SubOnly

\* The lease of a message that was pulled and not acknowledged is over.
ExpireStep == (\E m \in Messages \ batch : Expire(m)) /\ SubOnly

PullStep == (\E msgs \in SUBSET offers : Pull(msgs)) /\ SubOnly

SidecarStep(c) ==
    /\ \/ "posts" \in offered.sidecars /\ (Take(c) \/ Deliver(c))
       \/ "restart" \in offered.sidecars /\ SidecarRestart(c)
    /\ MotionOnly

ViewerStep(v) == v \in offered.viewers /\ (Subscribe(v) \/ Delete(v) \/ Close(v) \/ Read(v)) /\ BusOnly

PathNext ==
    \/ SubscriberStep \/ SweeperStep \/ PullStep \/ AcknowledgeStep
    \/ ExpireStep \/ Fault
    \/ \E m \in Messages : PublishStep(m)
    \/ \E v \in Viewers : ViewerStep(v)
    \/ \E c \in Cameras : SidecarStep(c)
    \/ Tick /\ MotionOnly
    \/ PathRestart

PathSpec == PathInit /\ [][PathNext]_pathVars

\* The goroutines are scheduled and the clock runs.  Nothing is asked of the
\* browsers and of the sidecars, which may never take anything.  A lease ends,
\* Pub/Sub hands out all it offers again and again, and it gets an
\* acknowledgement that did not fail.
PathFairSpec ==
    /\ PathSpec
    /\ WF_pathVars(Tick /\ MotionOnly)
    /\ WF_pathVars(SubscriberStep)
    /\ WF_pathVars(SweeperStep)
    /\ WF_pathVars(AcknowledgeStep)
    /\ WF_pathVars(ExpireStep)
    /\ SF_pathVars(Pull(offers) /\ SubOnly)

-----------------------------------------------------------------------------
(* Properties *)

\* The types of the three components' variables, and their bounds: no sidecar
\* queue and no browser's channel ever holds more than it has places.
PathTypeOK == TypeOK /\ SubTypeOK /\ BusTypeOK

\* A browser that never had a full channel has been sent the level, once
\* nothing is on its way to it: of the two goroutines' edges the last one
\* computed is the last one published, unless they raced as in
\* SettlesWithoutRace.  One whose channel was full once may have missed the
\* falling edge, and nothing repeats it (bus.go:23-26).
ViewersInformed ==
    \A v \in clients \ missed, c \in Recorded :
        chan[v] = <<>> /\ ~raced[c] /\ (\A a \in Emitters : ~InEmission(a, c)) =>
            \A e \in shown[v] : e.cam = c => e.on = on[c]
=============================================================================
