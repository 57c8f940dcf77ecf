---------------------------- MODULE RenewalObserver ----------------------------
(***************************************************************************)
(* Delivery of renewal events to the measurement observer of a session     *)
(* manager (emitRenewal, DrainRenewalObserver in internal/session/         *)
(* manager.go).  Run emits an event after each renewal; a worker goroutine,*)
(* started when there is something to do, calls the observer one event at  *)
(* a time; at the end the stream command drains what is queued, and gives  *)
(* up on it when its context expires.                                      *)
(*                                                                         *)
(* Each action is one critical section of observerMu, or one step between  *)
(* two.  An event is the number of the emission.  The observer is set once *)
(* before the first event, as stream.go does.                              *)
(***************************************************************************)
EXTENDS Integers, Sequences

CONSTANT MaxEvents      \* bound: renewals before the process ends

ASSUME EventsAssumption == MaxEvents \in Nat \ {0}

VARIABLES
    emitted,        \* events accepted so far
    queue,          \* observerQueue
    pending,        \* observerPending
    drained,        \* observerDrained: none, open or closed
    worker,         \* off, take, call (observerInFlight) or done
    current,        \* the event the worker has taken
    sealed,         \* observerClosed
    abandoned,      \* observerAbandoned
    drain,          \* DrainRenewalObserver: none, waiting or returned
    undelivered,    \* what it returned
    called,         \* history: the events the observer was called with
    closedTwice     \* history: a closed channel was closed, which panics

workVars == <<queue, pending, drained, worker, current>>
drainVars == <<sealed, abandoned, drain, undelivered>>
vars == <<emitted, workVars, drainVars, called, closedTwice>>

Running == worker # "off"

\* close(m.observerDrained)
CloseDrained ==
    /\ drained' = "closed"
    /\ closedTwice' = (closedTwice \/ drained # "open")

-----------------------------------------------------------------------------

\* The first event of a batch makes a channel.
Channel == IF pending = 0 THEN "open" ELSE drained

\* Mutant of StartWorker: every emission starts a worker of its own, which takes
\* over from the one at work.
StartWorkerAlways == worker' = "take"

\* A worker is started unless one runs.
StartWorker == worker' = IF Running THEN worker ELSE "take"

Emit ==
    /\ emitted < MaxEvents
    /\ ~sealed
    /\ emitted' = emitted + 1
    /\ drained' = Channel
    /\ queue' = Append(queue, emitted + 1)
    /\ pending' = pending + 1
    /\ StartWorker
    /\ UNCHANGED <<current, drainVars, called, closedTwice>>

MayTake == ~abandoned /\ queue # <<>>

\* The worker takes an event, or finds nothing to do and ends.
Take ==
    /\ worker = "take"
    /\ \/ /\ MayTake
          /\ current' = Head(queue)
          /\ queue' = Tail(queue)
          /\ worker' = "call"
       \/ /\ ~MayTake
          /\ worker' = "off"
          /\ UNCHANGED <<current, queue>>
    /\ UNCHANGED <<emitted, pending, drained, drainVars, called, closedTwice>>

\* The observer returns, or panics, which is recovered.
Called ==
    /\ worker = "call"
    /\ worker' = "done"
    /\ called' = Append(called, current)
    /\ UNCHANGED <<emitted, queue, pending, drained, current, drainVars, closedTwice>>

Last == pending = 1

\* Mutant of Onward: the worker ends after its event.
OnwardOff == "off"

Onward == "take"

Done ==
    /\ worker = "done"
    /\ worker' = Onward
    /\ pending' = pending - 1
    /\ \/ Last /\ CloseDrained
       \/ ~Last /\ UNCHANGED <<drained, closedTwice>>
    /\ UNCHANGED <<emitted, queue, current, drainVars, called>>

-----------------------------------------------------------------------------

Return(n) == drain' = "returned" /\ undelivered' = n

\* DrainRenewalObserver refuses further events and looks for queued ones.
Seal ==
    /\ drain = "none"
    /\ sealed' = TRUE
    /\ \/ pending = 0 /\ Return(0)
       \/ pending # 0 /\ drain' = "waiting" /\ UNCHANGED undelivered
    /\ UNCHANGED <<emitted, workVars, abandoned, called, closedTwice>>

Drained ==
    /\ drain = "waiting"
    /\ drained = "closed"
    /\ Return(0)
    /\ UNCHANGED <<emitted, workVars, sealed, abandoned, called, closedTwice>>

InFlight == worker \in {"call", "done"}

\* The event in flight is the only one still to come.
LeftPending == IF InFlight THEN 1 ELSE 0

\* Mutant of StillPending: only the queue counts.
StillPendingQueued == Len(queue)

StillPending == pending

\* The context of the drain expires: what is queued is abandoned.
Expire ==
    /\ drain = "waiting"
    /\ Return(StillPending)
    /\ \/ pending = 0 /\ UNCHANGED <<workVars, abandoned, closedTwice>>
       \/ /\ pending # 0
          /\ abandoned' = TRUE
          /\ queue' = <<>>
          /\ pending' = LeftPending
          /\ \/ LeftPending = 0 /\ CloseDrained
             \/ LeftPending # 0 /\ UNCHANGED <<drained, closedTwice>>
          /\ UNCHANGED <<worker, current>>
    /\ UNCHANGED <<emitted, sealed, called>>

Init ==
    /\ emitted = 0
    /\ queue = <<>>
    /\ pending = 0
    /\ drained = "none"
    /\ worker = "off"
    /\ current = 0
    /\ sealed = FALSE
    /\ abandoned = FALSE
    /\ drain = "none"
    /\ undelivered = 0
    /\ called = <<>>
    /\ closedTwice = FALSE

Work == Take \/ Called \/ Done

Next == Emit \/ Work \/ Seal \/ Drained \/ Expire

Spec == Init /\ [][Next]_vars

\* The worker is scheduled, the observer returns, and so does a drain.
FairSpec == Spec /\ WF_vars(Work) /\ WF_vars(Drained \/ Expire)

-----------------------------------------------------------------------------
(* Properties *)

\* The types of the variables.
TypeOK ==
    /\ emitted \in Nat /\ pending \in Nat /\ undelivered \in Nat
    /\ queue \in Seq(Nat) /\ called \in Seq(Nat) /\ current \in Nat
    /\ worker \in {"off", "take", "call", "done"}
    /\ drained \in {"none", "open", "closed"}
    /\ drain \in {"none", "waiting", "returned"}

\* "Observer calls are serialized" (manager.go:292-293): the observer sees every
\* event once, in the order of the renewals, however workers come and go.
CalledInOrder == \A i \in DOMAIN called : called[i] = i

\* A drain that reports nothing undelivered has seen every event delivered, one
\* that gave up reports at least what was never delivered; and giving up does
\* not make the worker close the channel of its batch again, which would panic
\* in a goroutine where nothing recovers it.
DrainIsHonest ==
    /\ drain = "returned" => emitted - Len(called) <= undelivered
    /\ ~closedTwice

\* No accepted event is forgotten: it is delivered, or the drain has given up.
EveryEventCalled ==
    \A e \in 1 .. MaxEvents :
        emitted >= e ~> (\E i \in DOMAIN called : called[i] = e) \/ abandoned
=============================================================================
