---------------------------- MODULE EventsConstants ----------------------------
(***************************************************************************)
(* What an events-service.js process is configured with, and the bounds of *)
(* its model.                                                              *)
(***************************************************************************)
EXTENDS Integers, Sequences

CONSTANTS
    Topics,         \* activeTopics(), a sequence
    PullLimit,      \* messages handed out by one PullMessages
    Lifetime,       \* SUB_TIMEOUT_MS
    MaxSubs,        \* bound: subscriptions created between two restarts
    MaxQueue        \* bound: messages queued for one subscription

\* The list of all motion topics (three), or the one topic configured.
ASSUME TopicsAssumption ==
    /\ Topics \in Seq(STRING) /\ Len(Topics) > 0
    /\ \A i, j \in DOMAIN Topics : Topics[i] = Topics[j] => i = j
ASSUME NumbersAssumption ==
    {PullLimit, Lifetime, MaxSubs, MaxQueue} \subseteq Nat \ {0}
=============================================================================
