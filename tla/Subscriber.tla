------------------------------ MODULE Subscriber ------------------------------
(***************************************************************************)
(* The Pub/Sub subscriber (internal/events/subscriber.go): one goroutine   *)
(* pulls a batch, hands every detection in it to the tracker, then         *)
(* acknowledges the whole batch, including what it dropped.                *)
(*                                                                         *)
(* Pub/Sub itself is external.  It leases what it hands out, offers it     *)
(* again when the lease is over, and forgets what is acknowledged; a       *)
(* request may fail before or after it took effect.                        *)
(***************************************************************************)
EXTENDS Integers, FiniteSets

CONSTANTS
    Messages,       \* messages that may be at Pub/Sub at one time
    Device,         \* the device each one is about, or Undecodable
    Kinds,          \* the event kinds each one carries
    Known,          \* the kinds of the table kinds
    Devices,        \* Subscriber.devices
    MaxMessages     \* Subscriber.MaxMessages

ASSUME MessageAssumption == IsFiniteSet(Messages) /\ MaxMessages \in Nat \ {0}

VARIABLES
    offers,         \* messages Pub/Sub offers
    leased,         \* messages handed out and neither acknowledged nor expired
    subPc,          \* where Run is: "pull" or "dispatch"
    batch,          \* the messages of the last pull, all to be acknowledged
    left,           \* those of them that are not dispatched yet
    calls,          \* handler calls of the message being dispatched, to come
    owed            \* history: detections the tracker has not been told of

subVars == <<offers, leased, subPc, batch, left, calls, owed>>

\* What decode and dispatch make of a message: a handler call for each known
\* kind, none for a device that is not configured or an unusable payload.
Calls(m) ==
    IF Device[m] \in Devices
    THEN {[msg |-> m, device |-> Device[m], kind |-> k] : k \in Kinds[m] \cap Known}
    ELSE {}

\* At Pub/Sub in any form.
Held == offers \cup leased

SubInit ==
    /\ offers = {}
    /\ leased = {}
    /\ subPc = "pull"
    /\ batch = {}
    /\ left = {}
    /\ calls = {}
    /\ owed = {}

\* Google publishes a message.
PublishMessage(m) ==
    /\ m \notin Held
    /\ m \notin batch
    /\ offers' = offers \cup {m}
    /\ owed' = owed \cup Calls(m)
    /\ UNCHANGED <<leased, subPc, batch, left, calls>>

\* Pub/Sub hands out msgs.
HandOut(msgs) ==
    /\ subPc = "pull"
    /\ offers' = offers \ msgs
    /\ leased' = leased \cup msgs

\* A pull that brings messages.
Pull(msgs) ==
    /\ msgs # {}
    /\ msgs \subseteq offers
    /\ Cardinality(msgs) <= MaxMessages
    /\ HandOut(msgs)
    /\ subPc' = "dispatch"
    /\ batch' = msgs
    /\ left' = msgs
    /\ UNCHANGED <<calls, owed>>

\* A pull that fails after messages were handed out.  One that brings nothing, or
\* fails before, changes nothing; the delay after either is not modelled, as a
\* pull may come at any time anyway.
PullLost(m) ==
    /\ m \in offers
    /\ HandOut({m})
    /\ UNCHANGED <<subPc, batch, left, calls, owed>>

\* The next message of the batch is decoded.
Dispatch(m) ==
    /\ subPc = "dispatch"
    /\ calls = {}
    /\ m \in left
    /\ left' = left \ {m}
    /\ calls' = Calls(m)
    /\ UNCHANGED <<offers, leased, subPc, batch, owed>>

\* The handler is called.
Call(call) ==
    /\ call \in calls
    /\ calls' = calls \ {call}
    /\ UNCHANGED <<offers, leased, subPc, batch, left, owed>>

\* Mutant of Dispatched: the batch is acknowledged while it is dispatched.
DispatchedAny == TRUE

Dispatched == left = {} /\ calls = {}

\* Mutant of ToAcknowledge: only what was of use is acknowledged.
ToAcknowledgeUsed == {m \in batch : Calls(m) # {}}

ToAcknowledge == batch

\* The acknowledgement reaches Pub/Sub; one whose lease is over may not count.
\* Run takes no notice of the answer.
Acknowledge ==
    /\ subPc = "dispatch"
    /\ Dispatched
    /\ \E late \in SUBSET (ToAcknowledge \cap offers) :
          offers' = (offers \ ToAcknowledge) \cup late
    /\ leased' = leased \ ToAcknowledge
    /\ subPc' = "pull"
    /\ batch' = {}
    /\ left' = {}
    /\ UNCHANGED <<calls, owed>>

\* It does not reach Pub/Sub: an error that is only logged.
AcknowledgeFails ==
    /\ subPc = "dispatch"
    /\ Dispatched
    /\ subPc' = "pull"
    /\ batch' = {}
    /\ left' = {}
    /\ UNCHANGED <<offers, leased, calls, owed>>

\* A lease is over.
Expire(m) ==
    /\ m \in leased
    /\ leased' = leased \ {m}
    /\ offers' = offers \cup {m}
    /\ UNCHANGED <<subPc, batch, left, calls, owed>>

\* The process ends; what it had pulled is still leased.
SubForgotten ==
    /\ subPc' = "pull"
    /\ batch' = {}
    /\ left' = {}
    /\ calls' = {}
    /\ UNCHANGED <<offers, leased, owed>>

-----------------------------------------------------------------------------
(* Properties *)

SubTypeOK ==
    /\ offers \subseteq Messages /\ leased \subseteq Messages
    /\ offers \cap leased = {}
    /\ subPc \in {"pull", "dispatch"}
    /\ left \subseteq batch
    /\ batch # {} => subPc = "dispatch"
    /\ Cardinality(batch) <= MaxMessages

\* A detection the tracker has not been told of is still at Pub/Sub, or comes
\* again: a message is given up only when each of its detections has been
\* handled (subscriber.go:257-269), whatever fails or restarts in between.
NoDetectionLost == \A call \in owed : call.msg \in Held

\* Every message is acknowledged in the end, whether it could be used or not ("a
\* payload this process cannot use will never become usable",
\* subscriber.go:260-262): nothing wedges the pull loop for good.
EveryMessageLeaves == \A m \in Messages : m \in Held ~> m \notin Held
=============================================================================
