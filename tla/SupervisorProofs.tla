--------------------------- MODULE SupervisorProofs ---------------------------
(***************************************************************************)
(* Theorems about the token source under the supervisor, and about its     *)
(* restarts, for any cameras, tokens and delays.                           *)
(***************************************************************************)
EXTENDS Supervisor, TLAPS

\* What a call of Token may rely on at each of its steps.  The second conjunct
\* is the heart: last is never a token that was not saved.
TokenInv ==
    /\ memory \in Tokens /\ file \in Tokens
    /\ last \in {NoToken, file}
    /\ call = "rename" => temp = memory
    /\ call = "ok" => file = memory

\* Whatever inner.Token returns, a call that goes straight on to "ok" returns
\* the token in the file.
LEMMA ObtainedIsSaved ==
    ASSUME NEW t \in Tokens, last \in {NoToken, file}, Obtained(t)
    PROVE  call' # "rename" /\ (call' = "ok" => file = t)
  BY TokensAssumption DEF Obtained

\* The steps of a call of Token (auth.go:94-159) preserve the invariant.
LEMMA ObtainKeepsInv == TokenInv /\ Obtain => TokenInv'
  <1> SUFFICES ASSUME TokenInv, Obtain PROVE TokenInv'
    OBVIOUS
  <1>1. CASE StillValid
    BY <1>1, ObtainedIsSaved DEF TokenInv, StillValid
  <1>2. CASE Refresh
    <2>1. memory' \in Tokens
      BY <1>2 DEF Refresh
    <2>2. call' # "rename" /\ (call' = "ok" => file = memory')
      BY <1>2, <2>1, ObtainedIsSaved DEF TokenInv, Refresh
    <2> QED BY <1>2, <2>1, <2>2 DEF TokenInv, Refresh
  <1>3. CASE RefreshFails
    BY <1>3 DEF TokenInv, RefreshFails
  <1>4. CASE WriteTemp
    BY <1>4 DEF TokenInv, WriteTemp
  <1>5. CASE Rename
    <2>1. temp = memory
      BY <1>5 DEF TokenInv, Rename
    <2>2. CASE file' = temp /\ last' = Remembered(TRUE)
      BY <1>5, <2>1, <2>2 DEF TokenInv, Rename, Remembered
    <2>3. CASE last' = Remembered(FALSE) /\ call' = "failed" /\ UNCHANGED file
      BY <1>5, <2>3 DEF TokenInv, Rename, Remembered
    <2> QED BY <1>5, <2>2, <2>3 DEF Rename
  <1> QED BY <1>1, <1>2, <1>3, <1>4, <1>5 DEF Obtain

LEMMA InitEstablishesInv == Init => TokenInv
  <1> SUFFICES ASSUME Init PROVE TokenInv
    OBVIOUS
  <1>1. file \in Tokens
    BY TokensAssumption DEF Init, SourceInit
  <1> QED BY <1>1 DEF Init, SourceInit, TokenInv

LEMMA NextKeepsInv == TokenInv /\ [Next]_vars => TokenInv'
  <1> SUFFICES ASSUME TokenInv, [Next]_vars PROVE TokenInv'
    OBVIOUS
  <1>1. ASSUME NEW c \in Cameras, Step(c) PROVE TokenInv'
    <2>1. CASE Start(c) \/ Ended(c) \/ SleepOver(c) \/ Leave(c)
      BY <2>1 DEF TokenInv, Start, Ended, SleepOver, Leave, sourceVars, tokenVars
    <2>2. CASE Command(c)
      BY <2>2 DEF TokenInv, Command, Ask
    <2>3. CASE Sent(c)
      BY <2>3 DEF TokenInv, Sent
    <2>4. CASE Unsent(c)
      BY <2>4 DEF TokenInv, Unsent
    <2> QED BY <1>1, <2>1, <2>2, <2>3, <2>4 DEF Step
  <1>2. ASSUME NEW c \in Cameras, StopTimesOut(c) PROVE TokenInv'
    BY <1>2 DEF TokenInv, StopTimesOut, tokenVars
  <1>3. CASE Token
    BY <1>3, ObtainKeepsInv DEF Token
  <1>4. CASE Return \/ Tick \/ UNCHANGED vars
    BY <1>4 DEF TokenInv, Return, Tick, vars, sourceVars, tokenVars
  <1>5. CASE Restart
    BY <1>5 DEF TokenInv, Restart, Load
  <1>6. CASE Elsewhere
    BY <1>6 DEF TokenInv, Elsewhere, Expire, Cancel, tokenVars
  <1> QED BY <1>1, <1>2, <1>3, <1>4, <1>5, <1>6 DEF Next

\* No command goes out with a token that a restart would not find in the file,
\* whichever saves failed before and wherever the process was killed.
THEOREM TokenCorrect == Spec => []UsedTokenIsSaved
  <1>1. TokenInv => UsedTokenIsSaved
    BY DEF TokenInv, UsedTokenIsSaved
  <1> QED BY <1>1, InitEstablishesInv, NextKeepsInv, PTL DEF Spec

-----------------------------------------------------------------------------
(* Restarts *)

\* Between two sleeps the delay is at least twice the last one, or the ceiling.
DelayInv ==
    \A c \in Cameras : pc[c] \notin {"sleep", "done"} =>
        delay[c] >= Smaller(2 * slept[c], MaxRestartDelay)

RestartInv == TypeOK /\ DelayInv

LEMMA InitRestart == Init => RestartInv
  BY DelayAssumption DEF Init, RestartInv, TypeOK, DelayInv, Smaller

\* Steps within a run.
LEMMA RunnerRestart ==
    ASSUME RestartInv, NEW c \in Cameras,
           Command(c) \/ Sent(c) \/ Unsent(c) \/ Leave(c) \/ StopTimesOut(c)
    PROVE  RestartInv'
  <1> USE DEF RestartInv, TypeOK, DelayInv, Goto, InRun, LeaveRun
  <1>1. CASE Command(c)
    BY <1>1 DEF Command, loopVars
  <1>2. CASE Sent(c)
    BY <1>2 DEF Sent
  <1>3. CASE Unsent(c)
    BY <1>3 DEF Unsent
  <1>4. CASE Leave(c)
    BY <1>4 DEF Leave
  <1>5. CASE StopTimesOut(c)
    BY <1>5 DEF StopTimesOut
  <1> QED BY <1>1, <1>2, <1>3, <1>4, <1>5

\* Steps of superviseOne.
LEMMA LoopRestart ==
    ASSUME RestartInv, NEW c \in Cameras, Start(c) \/ Ended(c) \/ SleepOver(c)
    PROVE  RestartInv'
  <1> USE DelayAssumption DEF RestartInv, TypeOK, DelayInv, Goto, InRun
  <1>1. CASE Start(c)
    BY <1>1 DEF Start
  <1>2. CASE Ended(c)
    BY <1>2 DEF Ended
  <1>3. CASE SleepOver(c)
    <2>1. /\ delay' \in [Cameras -> Nat] /\ slept' \in [Cameras -> Nat]
          /\ timer' \in [Cameras -> Nat]
      BY <1>3 DEF SleepOver, NextDelay, Smaller
    <2>2. ASSUME NEW d \in Cameras, pc'[d] \notin {"sleep", "done"}
          PROVE  delay'[d] >= Smaller(2 * slept'[d], MaxRestartDelay)
      <3>1. CASE d = c
        <4>1. delay' = [delay EXCEPT ![c] = NextDelay(@)] /\ slept' = [slept EXCEPT ![c] = delay[c]]
          BY <1>3, <2>2, <3>1 DEF SleepOver
        <4>2. delay'[c] = Smaller(2 * slept'[c], MaxRestartDelay)
          BY <4>1 DEF NextDelay
        <4>3. 2 * slept'[c] \in Nat
          BY <4>1
        <4> QED BY <3>1, <4>2, <4>3 DEF Smaller
      <3>2. CASE d # c
        BY <1>3, <2>2, <3>2 DEF SleepOver
      <3> QED BY <3>1, <3>2
    <2> QED BY <1>3, <2>1, <2>2 DEF SleepOver
  <1> QED BY <1>1, <1>2, <1>3

LEMMA StepRestart == RestartInv /\ [Next]_vars => RestartInv'
  <1> SUFFICES ASSUME RestartInv, [Next]_vars PROVE RestartInv'
    OBVIOUS
  <1>1. CASE UNCHANGED <<loopVars, slot, served>>
    BY <1>1 DEF RestartInv, TypeOK, DelayInv, InRun, loopVars
  <1>2. CASE Return
    BY <1>2 DEF Return, RestartInv, TypeOK, DelayInv, InRun, loopVars
  <1>3. CASE Restart
    BY <1>3, DelayAssumption DEF Restart, RestartInv, TypeOK, DelayInv, InRun, Smaller
  <1>4. CASE Tick
    <2>1. lasted' \in [Cameras -> Nat] /\ timer' \in [Cameras -> Nat]
      BY <1>4, DelayAssumption DEF Tick, RestartInv, TypeOK, Smaller
    <2>2. UNCHANGED <<pc, delay, slept, slot, served>>
      BY <1>4 DEF Tick
    <2> QED BY <2>1, <2>2 DEF RestartInv, TypeOK, DelayInv, InRun
  <1>5. CASE \E c \in Cameras : Step(c) \/ StopTimesOut(c)
    BY <1>5, RunnerRestart, LoopRestart DEF Step
  <1>6. CASE Token \/ Elsewhere \/ UNCHANGED vars
    BY <1>1, <1>6 DEF Token, Elsewhere, vars
  <1> QED BY <1>2, <1>3, <1>4, <1>5, <1>6 DEF Next

\* The variables of the supervisor keep their types.
THEOREM TypeCorrect == Spec => []TypeOK
  <1>1. RestartInv => TypeOK
    BY DEF RestartInv
  <1> QED BY <1>1, InitRestart, StepRestart, PTL DEF Spec

\* A camera that keeps failing backs off up to the ceiling (supervisor.go:121-163),
\* for any delays.
THEOREM BackOffCorrect == Spec => RestartsBackOff
  <1> DEFINE Backs == \A c \in Cameras :
                pc[c] = "back" /\ pc'[c] = "sleep" /\ lasted[c] < HealthyAfter =>
                    timer'[c] >= Smaller(2 * slept[c], MaxRestartDelay)
  <1>1. ASSUME RestartInv, Next, NEW c \in Cameras,
               pc[c] = "back", pc'[c] = "sleep", lasted[c] < HealthyAfter
        PROVE  Ended(c) /\ timer'[c] = delay[c]
    <2> USE <1>1 DEF RestartInv, TypeOK
    <2>1. ~(Token \/ Elsewhere \/ Return \/ Restart \/ Tick)
      BY DEF Token, Elsewhere, Return, Restart, Tick, loopVars
    <2>2. PICK d \in Cameras : Step(d) \/ StopTimesOut(d)
      BY <2>1 DEF Next
    <2>3. d = c
      <3>1. \E label : Goto(d, label) \/ UNCHANGED pc
        BY <2>2 DEF Step, Start, Ended, SleepOver, Command, Sent, Unsent, Leave,
                    StopTimesOut, loopVars
      <3> QED BY <3>1 DEF Goto
    <2>4. Ended(c)
      BY <2>2, <2>3 DEF Step, Start, SleepOver, Command, Sent, Unsent, Leave, StopTimesOut,
                        InRun
    <2> QED BY <2>4, DelayAssumption DEF Ended, Recovered, Goto
  <1>2. RestartInv /\ [Next]_vars => [Backs]_vars
    BY <1>1 DEF RestartInv, DelayInv
  <1> QED BY <1>2, InitRestart, StepRestart, PTL DEF Spec, RestartsBackOff
=============================================================================
