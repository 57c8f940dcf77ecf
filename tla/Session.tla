-------------------------------- MODULE Session --------------------------------
(***************************************************************************)
(* The session manager of one camera (internal/session/manager.go): it     *)
(* connects through Google's SDM API, keeps the stream session alive by    *)
(* extending it, tears everything down when anything fails, backs off and  *)
(* starts again, until its context is cancelled.                           *)
(*                                                                         *)
(* Run is one goroutine; pc says where it is.  Two other actors interfere: *)
(* pion's callbacks and the track pumps lose the connection (loseConnection)*)
(* and the owner of the context cancels it.  Google keeps the stream       *)
(* sessions; a command may take effect although its answer is lost.        *)
(*                                                                         *)
(* Commands pass through Scheduler.Do (module Scheduler).  Seen from here, *)
(* Do either runs the command once or returns without it because the       *)
(* context it was given is done; either may take any time.                 *)
(*                                                                         *)
(* Left out: the renewal observer (RenewalObserver), the pumps and the     *)
(* inside of the sink (Publisher), the counters of connections, renewals   *)
(* and packets, which nothing below reads, and the SDP itself.             *)
(***************************************************************************)
EXTENDS Integers, FiniteSets

CONSTANTS
    Sessions,           \* bound: ids of stream sessions at Google
    Lifetimes,          \* session lifetimes Google grants
    RetryAfters,        \* values of Retry-After
    MaxRenewalDelay,    \* maxRenewalDelay
    MinRetryDelay,      \* minRetryDelay
    MaxBackoff,         \* maxBackoff
    FailureCap,         \* failures from which backoffFor is maxBackoff
    StopTimeout         \* stopTimeout

ASSUME SetsAssumption ==
    /\ IsFiniteSet(Sessions) /\ Sessions # {}
    /\ Lifetimes \subseteq Nat \ {0} /\ IsFiniteSet(Lifetimes) /\ Lifetimes # {}
    /\ RetryAfters \subseteq Nat /\ IsFiniteSet(RetryAfters)
ASSUME TimesAssumption ==
    {MaxRenewalDelay, MinRetryDelay, MaxBackoff, FailureCap, StopTimeout}
        \subseteq Nat \ {0}

VARIABLES
    pc,             \* where Run is
    state,          \* Manager.state
    cancelled,      \* the context of Run is done
    peerOpen,       \* the peer connection of runOnce is open
    sink,           \* its media sink: none, or open
    lost,           \* connectionLost is closed
    sess,           \* sess.MediaSessionID: the id, if there is a session
    remote,         \* Google: how long each stream session still lives
    unsettled,      \* history: sessions whose fate an error has left open
    timer,          \* the sleep or timeout Run is in
    failures,       \* Manager.failures, stopped at FailureCap
    lastErr,        \* the error runOnce returns
    throttled,      \* NoteRateLimited was called since this connection began
    lastBackoff     \* history: the last back-off since a renewal

connVars == <<peerOpen, sink, lost>>
googleVars == <<sess, remote, unsettled>>
retryVars == <<failures, lastErr, throttled, lastBackoff>>
vars == <<pc, state, cancelled, connVars, googleVars, timer, retryVars>>

\* Errors by what retryDelay and noteIfRateLimited see in them.
NoRetryAfter == -1
Error == [limited : {TRUE}, retryAfter : RetryAfters \cup {NoRetryAfter}]
             \cup [limited : {FALSE}, retryAfter : {NoRetryAfter}]
Ordinary == [limited |-> FALSE, retryAfter |-> NoRetryAfter]

Alive == {s \in Sessions : remote[s] > 0}

-----------------------------------------------------------------------------
(* RenewalDelay, backoffFor, retryDelay *)

AtMost(n, limit) == IF n > limit THEN limit ELSE n

\* 60% of the lifetime that remains.
RenewalDelay(lifetime) == AtMost((lifetime * 6) \div 10, MaxRenewalDelay)

BackoffFor(n) == IF n >= FailureCap THEN MaxBackoff ELSE AtMost(2 ^ n, MaxBackoff)

RetryDelay(err, n) ==
    IF err.retryAfter = NoRetryAfter THEN BackoffFor(n)
    ELSE IF err.retryAfter < MinRetryDelay THEN MinRetryDelay
    ELSE err.retryAfter

-----------------------------------------------------------------------------
(* runOnce *)

\* noteIfRateLimited.
Note(err) == throttled' = (throttled \/ err.limited)

\* runOnce returns err once its deferred calls are done: first stopRemote, if
\* there is a session to stop, then the peer connection and the sink.
Stop(err) ==
    /\ pc' = "stop"
    /\ timer' = StopTimeout
    /\ lastErr' = err

CloseWith(err) ==
    /\ pc' = "close"
    /\ lastErr' = err
    /\ UNCHANGED timer

\* Run: leave if the context is done, else runOnce makes a peer connection.
Start ==
    /\ pc = "run"
    /\ \/ /\ cancelled
          /\ pc' = "returned"
          /\ UNCHANGED <<state, peerOpen, lastErr, throttled>>
       \/ /\ ~cancelled
          /\ state' = "connecting"
          /\ throttled' = FALSE
          /\ \/ /\ peerOpen' = TRUE
                /\ pc' = "sink"
                /\ UNCHANGED lastErr
             \/ /\ pc' = "failed"
                /\ lastErr' = Ordinary
                /\ UNCHANGED peerOpen
    /\ UNCHANGED <<cancelled, sink, lost, googleVars, timer, failures, lastBackoff>>

\* The sink factory, if there is one, makes a sink or fails.
MakeSink ==
    /\ pc = "sink"
    /\ \/ /\ sink' \in {"none", "open"}
          /\ pc' = "offer"
          /\ UNCHANGED <<timer, lastErr>>
       \/ /\ CloseWith(Ordinary)
          /\ UNCHANGED sink
    /\ UNCHANGED <<state, cancelled, peerOpen, lost, googleVars, failures,
                   throttled, lastBackoff>>

\* CreateOffer, which may fail or be cancelled.
Offer ==
    /\ pc = "offer"
    /\ \/ pc' = "generate" /\ UNCHANGED <<timer, lastErr>>
       \/ CloseWith(Ordinary)
    /\ UNCHANGED <<state, cancelled, connVars, googleVars, failures, throttled,
                   lastBackoff>>

\* Google has the session and its answer arrives.
Generated ==
    /\ pc = "generate"
    /\ \E s \in Sessions \ Alive, life \in Lifetimes :
          /\ remote' = [remote EXCEPT ![s] = life]
          /\ sess' = {s}
          /\ unsettled' = unsettled \ {s}
    /\ pc' = "apply"
    /\ UNCHANGED <<state, cancelled, connVars, timer, retryVars>>

\* Generate fails or is cancelled, or its answer is lost or cannot be parsed:
\* then Google may have a session that the manager has no id of.
GenerateFails ==
    /\ pc = "generate"
    /\ \E err \in Error : CloseWith(err) /\ Note(err)
    /\ \/ UNCHANGED <<remote, unsettled>>
       \/ ~lastErr'.limited /\ \E s \in Sessions \ Alive, life \in Lifetimes :
             /\ remote' = [remote EXCEPT ![s] = life]
             /\ unsettled' = unsettled \cup {s}
    /\ UNCHANGED <<state, cancelled, connVars, sess, failures, lastBackoff>>

\* SetRemoteDescription, which may refuse the answer.  The lifetime has counted
\* since the answer, so part of it may be gone.
Apply ==
    /\ pc = "apply"
    /\ \/ /\ pc' = "wait"
          /\ state' = "live"
          /\ \E s \in sess : timer' = RenewalDelay(remote[s])
          /\ UNCHANGED lastErr
       \/ Stop(Ordinary) /\ UNCHANGED state
    /\ UNCHANGED <<cancelled, connVars, googleVars, failures, throttled,
                   lastBackoff>>

-----------------------------------------------------------------------------
(* renewLoop *)

\* waitForRenewal: the time has come.
WaitOver ==
    /\ pc = "wait"
    /\ timer = 0
    /\ pc' = "extend"
    /\ state' = "renewing"
    /\ UNCHANGED <<cancelled, connVars, googleVars, timer, retryVars>>

\* Mutant of WaitEnds: the select has no case for connectionLost.
WaitEndsByCancelOnly == cancelled

\* waitForRenewal: the context is done or the connection lost, which the
\* select may prefer or not when the time has come as well.
WaitEnds == cancelled \/ lost

WaitBroken ==
    /\ pc = "wait"
    /\ WaitEnds
    /\ Stop(Ordinary)
    /\ UNCHANGED <<state, cancelled, connVars, googleVars, failures, throttled,
                   lastBackoff>>

\* Google extends the session, and may give it a new id.
Extended ==
    /\ pc = "extend"
    /\ \E s \in sess \cap Alive, t \in (Sessions \ Alive) \cup sess,
          life \in Lifetimes :
          /\ remote' = [remote EXCEPT ![s] = 0, ![t] = life]
          /\ sess' = {t}
          /\ unsettled' = unsettled \ {t}
          /\ timer' = RenewalDelay(life)
    /\ pc' = "wait"
    /\ state' = "live"
    /\ failures' = 0
    /\ lastBackoff' = 0
    /\ UNCHANGED <<cancelled, connVars, lastErr, throttled>>

\* Extend fails, with or without effect; also when the context is done.
ExtendFails ==
    /\ pc = "extend"
    /\ \E err \in Error : Stop(err) /\ Note(err)
    /\ \/ UNCHANGED <<remote, unsettled>>
       \/ /\ ~lastErr'.limited
          /\ \E s \in sess \cap Alive, t \in (Sessions \ Alive) \cup sess,
                life \in Lifetimes :
                /\ remote' = [remote EXCEPT ![s] = 0, ![t] = life]
                /\ unsettled' = unsettled \cup ({t} \ sess)
    /\ UNCHANGED <<state, cancelled, connVars, sess, failures, lastBackoff>>

-----------------------------------------------------------------------------
(* The deferred calls, and Run's back-off *)

\* Mutant of StopContextDone: stopRemote uses the context of Run.
StopContextDoneEarly == timer = 0 \/ cancelled

\* Mutant of StopContextDone: stopRemote waits for the scheduler.
StopContextNever == FALSE

\* stopRemote detaches its context from Run's and gives it stopTimeout.
StopContextDone == timer = 0

\* stopRemote is over and the session forgotten.
StopEnds ==
    /\ pc = "stop"
    /\ pc' = "close"
    /\ sess' = {}
    /\ UNCHANGED <<state, cancelled, connVars, timer, failures, lastErr,
                   lastBackoff>>

\* Google stopped the session or did not know it, or Stop failed with or without
\* effect.
StopAnswered ==
    /\ StopEnds
    /\ \/ /\ remote' = [s \in Sessions |-> IF s \in sess THEN 0 ELSE remote[s]]
          /\ UNCHANGED <<unsettled, throttled>>
       \/ /\ \E err \in Error : Note(err)
          /\ unsettled' = unsettled \cup sess
          /\ UNCHANGED remote

\* The context of stopRemote is done before Stop was answered, or even sent.
StopAbandoned ==
    /\ StopContextDone
    /\ StopEnds
    /\ unsettled' = IF timer = 0 THEN unsettled \cup sess ELSE unsettled
    /\ UNCHANGED <<remote, throttled>>

CloseSink == sink' = "none"

\* Closing the peer connection also fires loseConnection, on a channel that
\* nobody reads any more.
Close ==
    /\ pc = "close"
    /\ pc' = "failed"
    /\ peerOpen' = FALSE
    /\ CloseSink
    /\ lost' = FALSE
    /\ UNCHANGED <<state, cancelled, googleVars, timer, retryVars>>

\* Mutant of CountFailure: a connection that went live is no failure.
CountFailureUnlessLive == IF state \in {"live", "renewing"} THEN 1 ELSE failures + 1

CountFailure == failures + 1

\* runOnce has returned an error to Run.
Failed ==
    /\ pc = "failed"
    /\ \/ /\ cancelled
          /\ pc' = "returned"
          /\ UNCHANGED <<state, timer, failures, lastBackoff>>
       \/ /\ ~cancelled
          /\ failures' = AtMost(CountFailure, FailureCap + 1)
          /\ state' = "backoff"
          /\ timer' = RetryDelay(lastErr, failures' - 1)
          /\ lastBackoff' = IF lastErr.retryAfter = NoRetryAfter THEN timer'
                                                               ELSE lastBackoff
          /\ pc' = "backoff"
    /\ UNCHANGED <<cancelled, connVars, googleVars, lastErr, throttled>>

BackoffOver ==
    /\ pc = "backoff"
    /\ \/ timer = 0 /\ pc' = "run"
       \/ cancelled /\ pc' = "returned"
    /\ UNCHANGED <<state, cancelled, connVars, googleVars, timer, retryVars>>

-----------------------------------------------------------------------------
(* The other actors *)

\* The peer connection fails, or a pump finds the sink unusable.
Lose ==
    /\ pc \in {"wait", "extend", "stop"}
    /\ lost' = TRUE
    /\ UNCHANGED <<pc, state, cancelled, peerOpen, sink, googleVars, timer, retryVars>>

Cancel ==
    /\ cancelled' = TRUE
    /\ UNCHANGED <<pc, state, connVars, googleVars, timer, retryVars>>

\* Time passes; the timers Run waits for fire in time.
Tick ==
    /\ pc \in {"wait", "backoff", "stop"} => timer > 0
    /\ timer' = IF pc \in {"wait", "backoff", "stop"} THEN timer - 1 ELSE timer
    /\ remote' = [s \in Sessions |-> IF remote[s] = 0 THEN 0 ELSE remote[s] - 1]
    /\ UNCHANGED <<pc, state, cancelled, connVars, sess, unsettled, retryVars>>

Init ==
    /\ pc = "run"
    /\ state = "idle"
    /\ cancelled = FALSE
    /\ peerOpen = FALSE
    /\ sink = "none"
    /\ lost = FALSE
    /\ sess = {}
    /\ remote = [s \in Sessions |-> 0]
    /\ unsettled = {}
    /\ timer = 0
    /\ failures = 0
    /\ lastErr = Ordinary
    /\ throttled = FALSE
    /\ lastBackoff = 0

\* What Run does without waiting for the scheduler or Google.
Local ==
    \/ Start \/ MakeSink \/ Offer \/ Apply \/ WaitOver \/ WaitBroken
    \/ StopAbandoned \/ Close \/ Failed \/ BackoffOver

\* Do returns from Generate or Extend.
Answered == Generated \/ GenerateFails \/ Extended \/ ExtendFails

Next == Local \/ Answered \/ StopAnswered \/ Lose \/ Cancel \/ Tick

Spec == Init /\ [][Next]_vars

\* Run is scheduled and the clock runs.  Generate and Extend return, by
\* Scheduler!EveryCallReturns and the timeout of the HTTP client; the answer to
\* Stop is promised by nobody, since Do may wait longer than stopTimeout.  When
\* the time to renew has come and the connection is lost as well, select takes
\* either case with the same chance, so it does not prefer the renewal for ever.
FairSpec ==
    /\ Spec
    /\ WF_vars(Local) /\ WF_vars(Answered) /\ WF_vars(Tick)
    /\ SF_vars(WaitBroken)

-----------------------------------------------------------------------------
(* Properties *)

\* The types of the variables.
TypeOK ==
    /\ pc \in {"run", "sink", "offer", "generate", "apply", "wait", "extend",
               "stop", "close", "failed", "backoff", "returned"}
    /\ state \in {"idle", "connecting", "live", "renewing", "backoff"}
    /\ sink \in {"none", "open"}
    /\ cancelled \in BOOLEAN /\ peerOpen \in BOOLEAN /\ lost \in BOOLEAN
    /\ sess \subseteq Sessions /\ unsettled \subseteq Sessions
    /\ remote \in [Sessions -> Nat]

\* Every session that lives at Google is the one the manager holds, unless a
\* command's lost answer, its error or the stop's timeout left it open.  So a
\* reconnect never leaves a stream behind, whichever step failed before it, and
\* also not when the process is told to stop.  Peer connection and sink end with
\* the connection, on every path out of runOnce.
NothingLeftBehind ==
    /\ Alive \subseteq sess \cup unsettled
    /\ pc \notin {"apply", "wait", "extend", "stop"} => sess = {}
    /\ pc \in {"run", "failed", "backoff", "returned"} => ~peerOpen /\ sink = "none"

\* Back-offs do not shrink until a renewal has succeeded, also when every
\* connection goes live before it is lost
\* (TestRunEscalatesBackoffAcrossImmediateLiveConnectionLosses).  Only the waits
\* that backoffFor computes are back-offs: one that a 429's Retry-After asks for
\* may be shorter and does not count, nor does it lower the next back-off.
BackoffEscalates ==
    [][lastBackoff' >= lastBackoff \/ Extended]_vars

\* A cancelled manager returns, from wherever it is, also when the scheduler does
\* not admit its last command.
CancelReturns == cancelled ~> pc = "returned"

\* A lost connection is torn down; the manager does not go on renewing a session
\* that carries no media.
LossEndsConnection == lost ~> ~lost
=============================================================================
