----------------------------- MODULE EventsService -----------------------------
(***************************************************************************)
(* The ONVIF Events service of one camera (deploy/onvif/events-service.js):*)
(* a motion level set by the bridge through /trigger/motion, and the pull  *)
(* subscriptions that NVRs create, drain and renew over SOAP.              *)
(*                                                                         *)
(* Node runs one handler at a time, and each handler below runs in one     *)
(* piece once the body of its request is complete, so every request is one *)
(* action.  SOAP requests reap abandoned subscriptions before anything     *)
(* else; the trigger does not.  Clients are free: any request may name any *)
(* subscription, existing or not.                                          *)
(*                                                                         *)
(* left is termination minus now, stopped below the reaper's cutoff.       *)
(***************************************************************************)
EXTENDS EventsConstants, FiniteSetsExt

VARIABLES
    subscriptions,  \* this.subscriptions: id -> [left, queue]
    motionState,    \* this.motionState
    subCounter,     \* this.subCounter; "sub" and the number make the id
    handedOut,      \* history: per subscription and topic, the state pulled last
    silent          \* history: per subscription, time since its last contact

vars == <<subscriptions, motionState, subCounter, handedOut, silent>>

Ids == 1 .. MaxSubs

TopicSet == {Topics[i] : i \in DOMAIN Topics}

Message == [topic : TopicSet, state : BOOLEAN]

\* One message per advertised topic.
MotionMessages(state) ==
    [i \in DOMAIN Topics |-> [topic |-> Topics[i], state |-> state]]

\* The grace the reaper gives after the termination time.
Grace == 5 * Lifetime

\* The state of the last message of t in q, or before if there is none.
LastState(q, t, before) ==
    LET of == {i \in DOMAIN q : q[i].topic = t}
    IN  IF of = {} THEN before ELSE {q[Max(of)].state}

\* Nothing tells apart times to termination below the cutoff.
Longest == Grace + Lifetime + 1

-----------------------------------------------------------------------------

\* What reapSubscriptions leaves.
Kept == {s \in DOMAIN subscriptions : subscriptions[s].left >= -Grace}

\* A SOAP request leaves these subscriptions, and has been a contact with s.
Answer(subs, s) ==
    /\ subscriptions' = subs
    /\ silent' = [silent EXCEPT ![s] = 0]
    /\ UNCHANGED motionState

NewId == subCounter + 1

\* createPullPoint seeds the queue with the current state.
Seed == MotionMessages(motionState)

CreatePullPoint ==
    LET s == NewId
    IN  /\ subCounter < MaxSubs
        /\ subCounter' = subCounter + 1
        /\ handedOut' = [handedOut EXCEPT ![s] = [t \in TopicSet |-> {}]]
        /\ Answer([k \in Kept \cup {s} |->
                      IF k = s THEN [left |-> Lifetime, queue |-> Seed]
                               ELSE subscriptions[k]], s)

\* Mutant of Extended: only Renew counts as a sign of life.
ExtendedByRenewOnly(sub, isPull) ==
    IF isPull THEN sub ELSE [sub EXCEPT !.left = Lifetime]

\* PullMessages and Renew alike extend the lifetime.
Extended(sub, isPull) == [sub EXCEPT !.left = Lifetime]

\* The number of messages a pull takes out.
Taken(q) == IF Len(q) < PullLimit THEN Len(q) ELSE PullLimit

\* Mutant of Rest: a pull empties the queue, whatever it handed out.
RestNothing(q) == <<>>

\* What is left in the queue (splice).
Rest(q) == SubSeq(q, Taken(q) + 1, Len(q))

\* pullMessages; a pull of a subscription that is gone is answered like any
\* other, with no messages.
PullMessages(s) ==
    /\ subCounter' = subCounter
    /\ \/ /\ s \in Kept
          /\ LET q == subscriptions[s].queue
             IN  /\ handedOut' = [handedOut EXCEPT ![s] = [t \in TopicSet |->
                       LastState(SubSeq(q, 1, Taken(q)), t, @[t])]]
                 /\ Answer([k \in Kept |->
                       IF k = s
                       THEN Extended([subscriptions[s] EXCEPT !.queue = Rest(q)],
                                     TRUE)
                       ELSE subscriptions[k]], s)
       \/ /\ s \notin Kept
          /\ Answer([k \in Kept |-> subscriptions[k]], s)
          /\ UNCHANGED handedOut

Renew(s) ==
    /\ Answer([k \in Kept |-> IF k = s THEN Extended(subscriptions[k], FALSE)
                                       ELSE subscriptions[k]], s)
    /\ UNCHANGED <<subCounter, handedOut>>

Unsubscribe(s) ==
    /\ Answer([k \in Kept \ {s} |-> subscriptions[k]], s)
    /\ UNCHANGED <<subCounter, handedOut>>

\* GetEventProperties, GetServiceCapabilities and anything unknown only reap.
OtherRequest ==
    /\ subscriptions' = [k \in Kept |-> subscriptions[k]]
    /\ UNCHANGED <<motionState, subCounter, handedOut, silent>>

\* Mutant of Changes: every report of the bridge is queued.
ChangesAlways(state) == TRUE

\* setMotion acts on a change of the level only.
Changes(state) == state # motionState

\* The trigger, with setMotion; it is not a SOAP request and does not reap.
Trigger(state) ==
    /\ \A s \in DOMAIN subscriptions :
          Len(subscriptions[s].queue) + Len(Topics) <= MaxQueue
    /\ Changes(state)
    /\ motionState' = state
    /\ subscriptions' = [s \in DOMAIN subscriptions |->
           [subscriptions[s] EXCEPT !.queue = @ \o MotionMessages(state)]]
    /\ UNCHANGED <<subCounter, handedOut, silent>>

\* The process restarts; clients keep their references to old subscriptions,
\* and the numbers start again.
Restart ==
    /\ subscriptions' = <<>>
    /\ motionState' = FALSE
    /\ subCounter' = 0
    /\ UNCHANGED <<handedOut, silent>>

\* Time passes.
Tick ==
    /\ subscriptions' = [s \in DOMAIN subscriptions |->
           [subscriptions[s] EXCEPT !.left = IF @ < -Grace THEN @ ELSE @ - 1]]
    /\ silent' = [s \in Ids |-> IF s \in DOMAIN subscriptions /\ silent[s] < Longest
                                THEN silent[s] + 1 ELSE silent[s]]
    /\ UNCHANGED <<motionState, subCounter, handedOut>>

Init ==
    /\ subscriptions = <<>>
    /\ motionState = FALSE
    /\ subCounter = 0
    /\ handedOut = [s \in Ids |-> [t \in TopicSet |-> {}]]
    /\ silent = [s \in Ids |-> 0]

\* A SOAP request is complete.
SoapRequest ==
    \/ CreatePullPoint
    \/ \E s \in Ids : PullMessages(s) \/ Renew(s) \/ Unsubscribe(s)
    \/ OtherRequest

Next ==
    \/ SoapRequest
    \/ \E state \in BOOLEAN : Trigger(state)
    \/ Restart
    \/ Tick

Spec == Init /\ [][Next]_vars

-----------------------------------------------------------------------------
(* Properties *)

\* Whatever a subscriber has pulled and will pull, the last word it gets on
\* every topic is the present level, however the edges fall into pulls and
\* whenever it subscribed.
LastWord ==
    \A s \in DOMAIN subscriptions, t \in TopicSet :
        LastState(subscriptions[s].queue, t, handedOut[s][t]) = {motionState}

\* A subscriber never gets the same state of a topic twice in a row ("only
\* queues on an actual change", events-service.js:280-282), also across pulls.
EdgesAlternate ==
    \A s \in DOMAIN subscriptions, t \in TopicSet :
        LET q == subscriptions[s].queue
            of == {i \in DOMAIN q : q[i].topic = t}
        IN  \A i \in of :
                LastState(SubSeq(q, 1, i - 1), t, handedOut[s][t]) # {q[i].state}

\* Only Unsubscribe, a restart or more than six lifetimes of silence take a
\* subscription away: a client that pulls or renews is never reaped from under
\* itself (events-service.js:242-247).
LiveSubscriberKept ==
    [][\A s \in DOMAIN subscriptions \ DOMAIN subscriptions' :
          \/ silent[s] > Grace + Lifetime
          \/ Unsubscribe(s)
          \/ Restart]_vars

\* "Reap on every request ... it cannot run away on its own, since no requests
\* means no growth to reclaim" (events-service.js:338-343).  The trigger is a
\* request too, the one that grows the queues, and it does not reap.
AbandonedNeverGrows ==
    [][\A s \in DOMAIN subscriptions \cap DOMAIN subscriptions' :
          subscriptions[s].left < -Grace =>
              Len(subscriptions'[s].queue) <= Len(subscriptions[s].queue)]_vars
=============================================================================
