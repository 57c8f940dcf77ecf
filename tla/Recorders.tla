------------------------------ MODULE Recorders -------------------------------
(***************************************************************************)
(* The bridge (Motion) and the whole sidecar of one of its cameras         *)
(* (EventsService), with the recorders that subscribe to it: the level     *)
(* that Motion takes the sidecar for is the sidecar's own.                 *)
(*                                                                         *)
(* They meet at POST /trigger/motion (Trigger.Deliver of motion.go, which  *)
(* events-service.js answers), and a restart of the sidecar forgets the    *)
(* subscriptions along with the level.  Otherwise each takes its steps     *)
(* without the other, and their clocks run each at its own pace.           *)
(***************************************************************************)
EXTENDS Motion, EventsConstants

CONSTANTS
    Watched,        \* the camera of the sidecar
    Limits          \* bound: how many recorders subscribe between two restarts,
                    \* and whether the sidecar's clock runs

ASSUME WatchedAssumption == Watched \in Recorded

VARIABLES
    subscriptions, subCounter, handedOut, silent,   \* as in EventsService
    limits                                          \* bound: those of this behaviour

Sidecar == INSTANCE EventsService WITH motionState <- motionState[Watched]

ownVars == <<subscriptions, subCounter, handedOut, silent>>
recorderVars == <<vars, ownVars, limits>>

RecorderInit == Init /\ Sidecar!Init /\ limits \in Limits

\* The bridge posts an edge to the sidecar, which queues it for the recorders if
\* it is a change.
Post ==
    \E e \in delivering[Watched] :
        /\ Deliver(Watched)
        /\ IF ~lost'[Watched] /\ Sidecar!Changes(e.on) THEN Sidecar!Trigger(e.on)
                                                       ELSE UNCHANGED ownVars

\* The sidecar loses its level, its subscriptions and their queues.
RestartSidecar == SidecarRestart(Watched) /\ Sidecar!Restart

\* The recorders' requests and the sidecar's clock.
ServiceStep ==
    /\ UNCHANGED vars
    /\ \/ Sidecar!SoapRequest /\ subCounter' <= limits.recorders
       \/ limits.clock /\ Sidecar!Tick

\* Whatever else the bridge and the other cameras' sidecars do.
BridgeStep ==
    /\ \/ \E c \in Cameras : Detect(c) \/ Take(c)
       \/ \E c \in Cameras \ {Watched} : Deliver(c) \/ SidecarRestart(c)
       \/ BridgeRestart \/ Handle \/ Wake \/ Sweep
       \/ \E a \in Emitters : Send(a)
       \/ Tick
    /\ UNCHANGED ownVars

RecorderNext ==
    /\ Post \/ RestartSidecar \/ ServiceStep \/ BridgeStep
    /\ UNCHANGED limits

RecorderSpec == RecorderInit /\ [][RecorderNext]_recorderVars

-----------------------------------------------------------------------------
(* Properties *)

\* A recorder has pulled, or still has to pull, the level that the tracker has,
\* as the last word on every topic, once nothing is on its way to the sidecar
\* and with the exceptions of SettlesWithoutRace: neither the queue of one place
\* nor the sidecar, which ignores what is no change, loses what matters,
\* whenever the recorder subscribed and however its pulls cut the queue.
RecordersInformed ==
    Settled(Watched) /\ ~lost[Watched] /\ ~raced[Watched] =>
        \A s \in DOMAIN subscriptions, t \in Sidecar!TopicSet :
            Sidecar!LastState(subscriptions[s].queue, t, handedOut[s][t]) = {on[Watched]}

\* The sidecar's own properties, with the bridge as it is.
LastWord == Sidecar!LastWord
EdgesAlternate == Sidecar!EdgesAlternate
LiveSubscriberKept == Sidecar!LiveSubscriberKept
=============================================================================
