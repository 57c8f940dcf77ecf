---------------------------- MODULE SessionProofs ----------------------------
(***************************************************************************)
(* Proofs about Session: for any sessions, lifetimes, Retry-Afters and     *)
(* limits, nothing is left behind.                                         *)
(*                                                                         *)
(* NothingLeftBehind is inductive once two facts are added: TypeOK, and    *)
(* that the manager holds at most one session, so that an extension under  *)
(* a new id replaces all it holds.                                         *)
(***************************************************************************)
EXTENDS Session, FiniteSetTheorems, TLAPS

\* The manager's one stream session, by its id.
OneSession == \A s, t \in sess : s = t

\* NothingLeftBehind as far as it is about Google's sessions, strengthened.
HeldInv ==
    /\ TypeOK
    /\ Alive \subseteq sess \cup unsettled
    /\ pc \notin {"apply", "wait", "extend", "stop"} => sess = {}
    /\ OneSession

\* And as far as it is about the connection.
ConnInv == pc \in {"run", "failed", "backoff", "returned"} => ~peerOpen /\ sink = "none"

SessionInv == HeldInv /\ ConnInv

LEMMA InitInv == Init => SessionInv
<1> SUFFICES ASSUME Init PROVE SessionInv
  OBVIOUS
<1>1. HeldInv
  <2>1. cancelled \in BOOLEAN /\ peerOpen \in BOOLEAN /\ lost \in BOOLEAN
    BY DEF Init
  <2> QED BY <2>1 DEF Init, HeldInv, TypeOK, OneSession, Alive
<1>2. ConnInv
  BY DEF Init, ConnInv
<1> QED
  BY <1>1, <1>2 DEF SessionInv

LEMMA LocalInv == SessionInv /\ Local => SessionInv'
<1> SUFFICES ASSUME SessionInv, Local PROVE SessionInv'
  OBVIOUS
<1>1. CASE Start
  <2>1. HeldInv'
    BY <1>1 DEF SessionInv, HeldInv, TypeOK, OneSession, Alive, Start, googleVars,
           connVars, CloseSink, retryVars
  <2>2. ConnInv'
    BY <1>1 DEF SessionInv, ConnInv, Start
  <2> QED BY <2>1, <2>2 DEF SessionInv
<1>2. CASE MakeSink
  <2>1. HeldInv'
    BY <1>2 DEF SessionInv, HeldInv, TypeOK, OneSession, Alive, MakeSink,
           CloseWith, googleVars, connVars, CloseSink, retryVars
  <2>2. ConnInv'
    BY <1>2 DEF SessionInv, ConnInv, MakeSink, CloseWith
  <2> QED BY <2>1, <2>2 DEF SessionInv
<1>3. CASE Offer
  <2>1. HeldInv'
    BY <1>3 DEF SessionInv, HeldInv, TypeOK, OneSession, Alive, Offer, CloseWith,
           googleVars, connVars, CloseSink, retryVars
  <2>2. ConnInv'
    BY <1>3 DEF SessionInv, ConnInv, Offer, CloseWith, connVars
  <2> QED BY <2>1, <2>2 DEF SessionInv
<1>4. CASE Apply
  <2>1. HeldInv'
    BY <1>4 DEF SessionInv, HeldInv, TypeOK, OneSession, Alive, Apply, Stop,
           googleVars, connVars, CloseSink, retryVars
  <2>2. ConnInv'
    BY <1>4 DEF SessionInv, ConnInv, Apply, Stop, connVars
  <2> QED BY <2>1, <2>2 DEF SessionInv
<1>5. CASE WaitOver
  <2>1. HeldInv'
    BY <1>5 DEF SessionInv, HeldInv, TypeOK, OneSession, Alive, WaitOver,
           googleVars, connVars, CloseSink, retryVars
  <2>2. ConnInv'
    BY <1>5 DEF SessionInv, ConnInv, WaitOver, connVars
  <2> QED BY <2>1, <2>2 DEF SessionInv
<1>6. CASE WaitBroken
  <2>1. HeldInv'
    BY <1>6 DEF SessionInv, HeldInv, TypeOK, OneSession, Alive, WaitBroken, Stop,
           googleVars, connVars, CloseSink, retryVars
  <2>2. ConnInv'
    BY <1>6 DEF SessionInv, ConnInv, WaitBroken, Stop, connVars
  <2> QED BY <2>1, <2>2 DEF SessionInv
<1>7. CASE StopAbandoned
  <2>1. HeldInv'
    BY <1>7 DEF SessionInv, HeldInv, TypeOK, OneSession, Alive, StopAbandoned,
           StopContextDone, StopEnds, connVars, CloseSink, retryVars
  <2>2. ConnInv'
    BY <1>7 DEF SessionInv, ConnInv, StopAbandoned, StopEnds, connVars
  <2> QED BY <2>1, <2>2 DEF SessionInv
<1>8. CASE Close
  <2>1. HeldInv'
    BY <1>8 DEF SessionInv, HeldInv, TypeOK, OneSession, Alive, Close, googleVars,
           connVars, CloseSink, retryVars
  <2>2. ConnInv'
    BY <1>8 DEF SessionInv, ConnInv, Close, CloseSink
  <2> QED BY <2>1, <2>2 DEF SessionInv
<1>9. CASE Failed
  <2>1. HeldInv'
    BY <1>9 DEF SessionInv, HeldInv, TypeOK, OneSession, Alive, Failed, googleVars,
           connVars, CloseSink, retryVars
  <2>2. ConnInv'
    BY <1>9 DEF SessionInv, ConnInv, Failed, connVars
  <2> QED BY <2>1, <2>2 DEF SessionInv
<1>10. CASE BackoffOver
  <2>1. HeldInv'
    BY <1>10 DEF SessionInv, HeldInv, TypeOK, OneSession, Alive, BackoffOver,
           googleVars, connVars, CloseSink, retryVars
  <2>2. ConnInv'
    BY <1>10 DEF SessionInv, ConnInv, BackoffOver, connVars
  <2> QED BY <2>1, <2>2 DEF SessionInv
<1> QED
  BY <1>1, <1>2, <1>3, <1>4, <1>5, <1>6, <1>7, <1>8, <1>9, <1>10 DEF Local

LEMMA AnsweredInv == SessionInv /\ Answered => SessionInv'
<1> SUFFICES ASSUME SessionInv, Answered PROVE SessionInv'
  OBVIOUS
<1>1. CASE Generated
  <2>1. HeldInv'
    BY SetsAssumption, <1>1 DEF SessionInv, HeldInv, TypeOK, OneSession, Alive,
           Generated, connVars, CloseSink, retryVars
  <2>2. ConnInv'
    BY <1>1 DEF SessionInv, ConnInv, Generated, connVars
  <2> QED BY <2>1, <2>2 DEF SessionInv
<1>2. CASE GenerateFails
  <2>1. HeldInv'
    BY SetsAssumption, <1>2 DEF SessionInv, HeldInv, TypeOK, OneSession, Alive,
           GenerateFails, CloseWith, connVars, CloseSink, retryVars
  <2>2. ConnInv'
    BY <1>2 DEF SessionInv, ConnInv, GenerateFails, CloseWith, connVars
  <2> QED BY <2>1, <2>2 DEF SessionInv
<1>3. CASE Extended
  <2>1. HeldInv'
    BY SetsAssumption, <1>3 DEF SessionInv, HeldInv, TypeOK, OneSession, Alive,
           Extended, connVars, CloseSink, retryVars
  <2>2. ConnInv'
    BY <1>3 DEF SessionInv, ConnInv, Extended, connVars
  <2> QED BY <2>1, <2>2 DEF SessionInv
<1>4. CASE ExtendFails
  <2>1. HeldInv'
    BY SetsAssumption, <1>4 DEF SessionInv, HeldInv, TypeOK, OneSession, Alive,
           ExtendFails, Stop, connVars, CloseSink, retryVars
  <2>2. ConnInv'
    BY <1>4 DEF SessionInv, ConnInv, ExtendFails, Stop, connVars
  <2> QED BY <2>1, <2>2 DEF SessionInv
<1> QED
  BY <1>1, <1>2, <1>3, <1>4 DEF Answered

LEMMA OthersInv == SessionInv /\ (StopAnswered \/ Lose \/ Cancel \/ Tick) => SessionInv'
<1> SUFFICES ASSUME SessionInv, (StopAnswered \/ Lose \/ Cancel \/ Tick) PROVE SessionInv'
  OBVIOUS
<1>1. CASE StopAnswered
  <2>1. HeldInv'
    BY <1>1 DEF SessionInv, HeldInv, TypeOK, OneSession, Alive, StopAnswered,
           StopEnds, connVars, CloseSink, retryVars
  <2>2. ConnInv'
    BY <1>1 DEF SessionInv, ConnInv, StopAnswered, StopEnds, connVars
  <2> QED BY <2>1, <2>2 DEF SessionInv
<1>2. CASE Lose
  <2>1. HeldInv'
    BY <1>2 DEF SessionInv, HeldInv, TypeOK, OneSession, Alive, Lose, googleVars,
           connVars, CloseSink, retryVars
  <2>2. ConnInv'
    BY <1>2 DEF SessionInv, ConnInv, Lose
  <2> QED BY <2>1, <2>2 DEF SessionInv
<1>3. CASE Cancel
  <2>1. HeldInv'
    BY <1>3 DEF SessionInv, HeldInv, TypeOK, OneSession, Alive, Cancel, googleVars,
           connVars, CloseSink, retryVars
  <2>2. ConnInv'
    BY <1>3 DEF SessionInv, ConnInv, Cancel, connVars
  <2> QED BY <2>1, <2>2 DEF SessionInv
<1>4. CASE Tick
  <2>1. HeldInv'
    BY <1>4 DEF SessionInv, HeldInv, TypeOK, OneSession, Alive, Tick, connVars,
           CloseSink, retryVars
  <2>2. ConnInv'
    BY <1>4 DEF SessionInv, ConnInv, Tick, connVars
  <2> QED BY <2>1, <2>2 DEF SessionInv
<1> QED
  BY <1>1, <1>2, <1>3, <1>4

LEMMA StepInv == SessionInv /\ [Next]_vars => SessionInv'
<1>1. SessionInv /\ UNCHANGED vars => SessionInv'
  BY DEF SessionInv, HeldInv, ConnInv, TypeOK, OneSession, Alive, vars, connVars, googleVars
<1> QED
  BY <1>1, LocalInv, AnsweredInv, OthersInv DEF Next

\* No reconnect and no shutdown leaves a stream session, a peer connection or a
\* sink behind, whatever fails (manager.go:471-482, :548): runOnce stops the
\* session under the id the last extension gave it, on every path.
THEOREM SessionCorrect == Spec => []NothingLeftBehind
<1>1. SessionInv => NothingLeftBehind
  BY DEF SessionInv, HeldInv, ConnInv, NothingLeftBehind
<1> QED
  BY <1>1, InitInv, StepInv, PTL DEF Spec

\* The variables of a session manager keep their types.
THEOREM TypeCorrect == Spec => []TypeOK
<1>1. SessionInv => TypeOK
  BY DEF SessionInv, HeldInv
<1> QED
  BY <1>1, InitInv, StepInv, PTL DEF Spec
-----------------------------------------------------------------------------
(* Back-off *)

\* A set of n + 1 elements has at least as many subsets as one of n.
LEMMA PowersGrow == ASSUME NEW n \in Nat PROVE 2 ^ n \in Nat /\ 2 ^ n <= 2 ^ (n + 1)
<1>1. /\ IsFiniteSet(1 .. n) /\ Cardinality(1 .. n) = n
      /\ IsFiniteSet(1 .. (n + 1)) /\ Cardinality(1 .. (n + 1)) = n + 1
  BY FS_Interval
<1>2. /\ IsFiniteSet(SUBSET (1 .. n)) /\ Cardinality(SUBSET (1 .. n)) = 2 ^ n
      /\ IsFiniteSet(SUBSET (1 .. (n + 1)))
      /\ Cardinality(SUBSET (1 .. (n + 1))) = 2 ^ (n + 1)
  BY <1>1, FS_SUBSET
<1>3. SUBSET (1 .. n) \in SUBSET SUBSET (1 .. (n + 1))
  OBVIOUS
<1>4. Cardinality(SUBSET (1 .. n)) <= Cardinality(SUBSET (1 .. (n + 1)))
  BY <1>2, <1>3, FS_Subset
<1> QED
  BY <1>2, <1>4, FS_CardinalityType

\* backoffFor grows with the failures, up to maxBackoff.
LEMMA BackoffGrows ==
  ASSUME NEW n \in Nat
  PROVE  BackoffFor(n) \in Nat /\ BackoffFor(n) <= BackoffFor(n + 1)
<1>1. 2 ^ n \in Nat /\ 2 ^ n <= 2 ^ (n + 1) /\ 2 ^ (n + 1) \in Nat
  BY PowersGrow
<1>2. MaxBackoff \in Nat /\ FailureCap \in Nat
  BY TimesAssumption
<1> QED
  BY <1>1, <1>2 DEF BackoffFor, AtMost

\* The last back-off is no longer than the one that the failures so far earn,
\* so the next one, after one more failure, is no shorter.
BackoffInv ==
    /\ failures \in 0 .. FailureCap + 1
    /\ lastBackoff \in Nat
    /\ lastBackoff > 0 => failures > 0 /\ lastBackoff <= BackoffFor(failures - 1)

\* runOnce has failed once more.
LEMMA BackoffFailed ==
  ASSUME BackoffInv, Failed
  PROVE  BackoffInv' /\ lastBackoff' >= lastBackoff
<1>1. CASE ~cancelled
  <2>0. FailureCap \in Nat \ {0} /\ failures \in 0 .. FailureCap + 1 /\ lastBackoff \in Nat
    BY TimesAssumption DEF BackoffInv
  <2>1. failures' = AtMost(failures + 1, FailureCap + 1)
    BY <1>1 DEF Failed, CountFailure
  <2>2. /\ failures' \in 1 .. FailureCap + 1 /\ failures' - 1 \in Nat
        /\ failures' - 1 = failures \/ failures' - 1 = failures - 1
    BY <2>0, <2>1 DEF AtMost
  <2>3. BackoffFor(failures' - 1) \in Nat
    BY <2>2, BackoffGrows
  <2>4. lastBackoff <= BackoffFor(failures' - 1)
    <3>1. CASE lastBackoff = 0
      BY <2>3, <3>1
    <3>2. CASE lastBackoff # 0
      <4>1. failures - 1 \in Nat /\ lastBackoff <= BackoffFor(failures - 1)
        BY <2>0, <3>2 DEF BackoffInv
      <4>2. /\ BackoffFor(failures - 1) \in Nat /\ BackoffFor(failures) \in Nat
            /\ BackoffFor(failures - 1) <= BackoffFor(failures)
        <5>1. (failures - 1) + 1 = failures /\ failures \in Nat
          BY <2>0
        <5>2. BackoffFor(failures - 1) \in Nat
          BY <4>1, BackoffGrows
        <5>3. BackoffFor(failures - 1) <= BackoffFor((failures - 1) + 1)
          BY <4>1, BackoffGrows
        <5>4. BackoffFor(failures) \in Nat
          BY <5>1, BackoffGrows
        <5> QED BY <5>1, <5>2, <5>3, <5>4
      <4>3. CASE failures' - 1 = failures
        BY <2>0, <4>1, <4>2, <4>3
      <4>4. CASE failures' - 1 = failures - 1
        BY <4>1, <4>4
      <4> QED BY <2>2, <4>3, <4>4
    <3> QED BY <3>1, <3>2
  <2>5. lastBackoff' = lastBackoff \/ lastBackoff' = BackoffFor(failures' - 1)
    BY <1>1 DEF Failed, RetryDelay
  <2> QED
    BY <2>0, <2>2, <2>3, <2>4, <2>5 DEF BackoffInv
<1>2. CASE UNCHANGED <<failures, lastBackoff>>
  BY <1>2 DEF BackoffInv
<1> QED
  BY <1>1, <1>2 DEF Failed

LEMMA BackoffStep ==
  ASSUME BackoffInv, [Next]_vars
  PROVE  BackoffInv' /\ (lastBackoff' >= lastBackoff \/ Extended)
<1>1. CASE Failed
  BY <1>1, BackoffFailed
<1>2. CASE Extended
  <2>1. failures' = 0 /\ lastBackoff' = 0
    BY <1>2 DEF Extended
  <2> QED BY <1>2, <2>1, TimesAssumption DEF BackoffInv
<1>3. CASE UNCHANGED <<failures, lastBackoff>>
  BY <1>3 DEF BackoffInv
<1>4. UNCHANGED <<failures, lastBackoff>> \/ Failed \/ Extended
  <2>1. CASE Local
    BY <2>1 DEF Local, Start, MakeSink, Offer, Apply, WaitOver, WaitBroken,
                StopAbandoned, StopEnds, Close, BackoffOver, retryVars
  <2>2. CASE Answered
    BY <2>2 DEF Answered, Generated, GenerateFails, ExtendFails, retryVars
  <2>3. CASE StopAnswered \/ Lose \/ Cancel \/ Tick \/ UNCHANGED vars
    BY <2>3 DEF StopAnswered, StopEnds, Lose, Cancel, Tick, vars, retryVars
  <2> QED BY <2>1, <2>2, <2>3 DEF Next
<1> QED
  BY <1>1, <1>2, <1>3, <1>4

\* Until a renewal has succeeded no back-off is shorter than the one before it,
\* whichever errors lie between them (manager.go:447-453, :683): going live does
\* not reset the failures, and a Retry-After does not count as a back-off.
THEOREM EscalationCorrect == Spec => BackoffEscalates
<1>1. Init => BackoffInv
  BY TimesAssumption DEF Init, BackoffInv
<1>2. BackoffInv /\ [Next]_vars => [lastBackoff' >= lastBackoff \/ Extended]_vars
  BY BackoffStep
<1>3. BackoffInv /\ [Next]_vars => BackoffInv'
  BY BackoffStep
<1> QED
  BY <1>1, <1>2, <1>3, PTL DEF Spec, BackoffEscalates
==============================================================================
