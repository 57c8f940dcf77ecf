--------------------------- MODULE SchedulerProofs ---------------------------
(***************************************************************************)
(* Theorems about Scheduler, for every value of its constants.             *)
(***************************************************************************)
EXTENDS Scheduler, TLAPS, FiniteSetTheorems, WellFoundedInduction

USE DeviceAssumption, PriorityAssumption, QuotaAssumption, TimeAssumption

-----------------------------------------------------------------------------
(* The oldest call of a window *)

NatLess == {ss \in Nat \X Nat : ss[1] < ss[2]}

LEMMA NatLessWellFounded == IsWellFoundedOn(NatLess, Nat)
<1>1. OpToRel(<, Nat) = NatLess
  BY DEF OpToRel, NatLess
<1> QED
  BY <1>1, NatLessThanWellFounded, Zenon

\* A nonempty set of naturals has a least element.
LEMMA LeastNatural ==
    ASSUME NEW T \in SUBSET Nat, T # {}
    PROVE  \E t \in T : \A u \in T : t <= u
<1>1. PICK t \in T : \A u \in T : <<u, t>> \notin NatLess
  BY NatLessWellFounded, WFMin
<1>2. ASSUME NEW u \in T PROVE t <= u
  <2>1. t \in Nat /\ u \in Nat /\ ~(u < t)
    BY <1>1, <1>2 DEF NatLess
  <2> QED
    BY <2>1
<1> QED
  BY <1>2

\* A nonempty set of calls has an oldest one: what globalCalls[0] is.
LEMMA OldestCall ==
    ASSUME NEW calls \in SUBSET Admission, calls # {}
    PROVE  \E a \in calls : Oldest(calls) = a.at
<1> DEFINE T == {a.at : a \in calls}
<1>1. T \subseteq Nat /\ T # {}
  BY DEF Admission
<1>2. \E t \in T : \A u \in T : t <= u
  <2> HIDE DEF T
  <2> QED BY <1>1, LeastNatural
<1>3. Oldest(calls) \in T
  BY <1>2 DEF Oldest
<1> QED
  BY <1>3

-----------------------------------------------------------------------------
(* Type correctness *)

\* The recovered rate stays within 1 .. GlobalQPM.
LEMMA RecoveredType ==
    ASSUME TypeOK, NEW r \in Recovered
    PROVE  /\ r.qpm \in 1 .. GlobalQPM
           /\ RecoveredAt(r) \in Nat \cup {NoTime}
           /\ Halved(r.qpm) \in 1 .. GlobalQPM
<1>1. r.qpm \in qpm .. GlobalQPM /\ r.steps \in 0 .. QuietIntervals
  BY DEF Recovered
<1>2. r.steps \in Nat
  BY <1>1
<1>3. r.qpm \in 1 .. GlobalQPM /\ Halved(r.qpm) \in 1 .. GlobalQPM
  BY <1>1, QuotaAssumption DEF TypeOK, Halved
<1>4. CASE lastRateLimited = NoTime
  BY <1>1, <1>2, <1>3, <1>4 DEF QuietIntervals, RecoveredAt, NoTime
<1>5. CASE lastRateLimited # NoTime
  <2>1. lastRateLimited \in Nat
    BY <1>5 DEF TypeOK
  <2>2. r.steps * RecoveryInterval \in Nat
    BY <1>2
  <2> QED
    BY <2>1, <2>2, <1>3 DEF RecoveredAt
<1> QED
  BY <1>4, <1>5

\* Pruning keeps calls.
LEMMA PrunedType ==
    ASSUME TypeOK, NEW c \in Callers
    PROVE  /\ RecentCalls \in SUBSET Admission
           /\ RecentDeviceCalls(c) \in [Devices -> SUBSET Admission]
BY DEF TypeOK, RecentCalls, RecentDeviceCalls, Prune

\* waitFor's duration is positive whenever a window is full: waitFor returns
\* zero exactly when the call may be admitted.
LEMMA WaitPositive ==
    ASSUME TypeOK, NEW c \in Callers, NEW rate \in 1 .. GlobalQPM,
           GlobalFull(rate) \/ DeviceFull(c)
    PROVE  WaitFor(c, rate) \in Nat \ {0}
<1> DEFINE mine == RecentDeviceCalls(c)[DeviceOf[c]]
           gw == IF GlobalFull(rate)
                 THEN Minute - (now - Oldest(RecentCalls)) ELSE 0
           dw == IF DeviceFull(c) THEN Hour - (now - Oldest(mine)) ELSE 0
<1>1. mine \in SUBSET Admission /\ RecentCalls \in SUBSET Admission
  BY PrunedType
<1>2. now \in Nat
  BY DEF TypeOK
<1>3. ASSUME GlobalFull(rate) PROVE gw \in Nat \ {0}
  <2>1. RecentCalls # {}
    BY <1>3, FS_EmptySet DEF GlobalFull
  <2>2. PICK a \in RecentCalls : Oldest(RecentCalls) = a.at
    BY <1>1, <2>1, OldestCall
  <2>3. a.at \in Nat /\ a.at > now - Minute
    BY <1>1, <2>2 DEF RecentCalls, Prune, Admission
  <2> QED
    BY <1>2, <1>3, <2>2, <2>3
<1>4. ASSUME DeviceFull(c) PROVE dw \in Nat \ {0}
  <2>1. mine # {}
    BY <1>4, FS_EmptySet DEF DeviceFull
  <2>2. PICK a \in mine : Oldest(mine) = a.at
    BY <1>1, <2>1, OldestCall
  <2>3. a.at \in Nat /\ a.at > now - Hour
    <3>1. mine = Prune(deviceCalls[DeviceOf[c]], now - Hour)
      BY DEF RecentDeviceCalls
    <3> QED
      BY <1>1, <2>2, <3>1 DEF Prune, Admission
  <2> QED
    BY <1>2, <1>4, <2>2, <2>3
<1>5. gw \in Nat /\ dw \in Nat /\ (gw # 0 \/ dw # 0)
  BY <1>3, <1>4
<1>6. WaitFor(c, rate) = Larger(gw, dw)
  BY DEF WaitFor
<1> QED
  <2> HIDE DEF gw, dw
  <2> QED BY <1>5, <1>6 DEF Larger

LEMMA ReleaseType ==
    ASSUME TypeOK, Release
    PROVE  /\ queue' \in SUBSET Callers
           /\ holder' \in BOOLEAN
           /\ granted' \in [Callers -> BOOLEAN]
BY DEF TypeOK, Release

LEMMA ForgetType ==
    ASSUME TypeOK, NEW c \in Callers, Forget(c)
    PROVE  /\ seq' \in Nat
           /\ seqOf' \in [Callers -> Nat]
           /\ wait' \in [Callers -> Nat]
           /\ cancelled' \in [Callers -> BOOLEAN]
BY DEF TypeOK, Forget

LEMMA TypeInit == Init => TypeOK
<1> SUFFICES ASSUME Init PROVE TypeOK
  OBVIOUS
<1>1. now \in Nat /\ qpm \in 1 .. GlobalQPM /\ seq \in Nat
  BY DEF Init
<1>2. pc \in [Callers -> Labels] /\ seqOf \in [Callers -> Nat]
      /\ wait \in [Callers -> Nat]
  BY DEF Init, Labels
<1>3. granted \in [Callers -> BOOLEAN] /\ cancelled \in [Callers -> BOOLEAN]
  BY DEF Init
<1>4. deviceCalls \in [Devices -> SUBSET Admission]
  BY DEF Init
<1>5. quietTime \in 0 .. RecoveryInterval - 1 /\ earned \in 1 .. GlobalQPM
  BY TimeAssumption, QuotaAssumption DEF Init
<1> QED
  BY <1>1, <1>2, <1>3, <1>4, <1>5 DEF Init, TypeOK

LEMMA TypeStep == TypeOK /\ [Next]_vars => TypeOK'
<1> SUFFICES ASSUME TypeOK, [Next]_vars PROVE TypeOK'
  OBVIOUS
<1> USE DEF Goto, clockVars, windowVars, slotVars, callVars, historyVars, rateHistory
<1>1. ASSUME NEW c \in Callers, Call(c) PROVE TypeOK'
  BY <1>1 DEF TypeOK, Call, Labels
<1>2. ASSUME NEW c \in Callers, Cancel(c) PROVE TypeOK'
  BY <1>2 DEF TypeOK, Cancel
<1>3. ASSUME NEW c \in Callers, Acquire(c) PROVE TypeOK'
  <2>1. seq' \in Nat /\ seqOf' \in [Callers -> Nat]
    BY <1>3 DEF TypeOK, Acquire
  <2>2. holder' = TRUE
    BY <1>3, Zenon DEF TypeOK, Acquire
  <2>3. queue' \in SUBSET Callers /\ pc' \in [Callers -> Labels]
    BY <1>3 DEF TypeOK, Acquire, Labels
  <2>4. UNCHANGED <<now, qpm, lastRateLimited, globalCalls, deviceCalls,
                    lastDeviceSweep, granted, wait, cancelled, admitted, wire,
                    limited, quietTime, earned>>
    BY <1>3 DEF Acquire
  <2> QED
    BY <2>1, <2>2, <2>3, <2>4 DEF TypeOK
<1>4. ASSUME NEW c \in Callers, Ready(c) PROVE TypeOK'
  BY <1>4 DEF TypeOK, Ready, Labels
<1>5. ASSUME NEW c \in Callers, QueueDone(c) PROVE TypeOK'
  BY <1>5 DEF TypeOK, QueueDone, Labels
<1>6. ASSUME NEW c \in Callers, Withdraw(c) PROVE TypeOK'
  BY <1>6, ForgetType DEF TypeOK, Withdraw, Labels
<1>7. ASSUME NEW c \in Callers, FoundGranted(c) PROVE TypeOK'
  BY <1>7 DEF TypeOK, FoundGranted, Labels
<1>8. ASSUME NEW c \in Callers, HandBack(c) PROVE TypeOK'
  BY <1>8, ForgetType, ReleaseType DEF TypeOK, HandBack, Labels
<1>9. ASSUME NEW c \in Callers, OwnerDone(c) PROVE TypeOK'
  BY <1>9 DEF TypeOK, OwnerDone, Labels
<1>10. ASSUME NEW c \in Callers, Admit(c) PROVE TypeOK'
  <2> DEFINE call == [at |-> now, seq |-> seqOf[c], dev |-> DeviceOf[c]]
  <2>1. call \in Admission
    BY DEF TypeOK, Admission
  <2>2. qpm' \in 1 .. GlobalQPM /\ lastRateLimited' \in Nat \cup {NoTime}
    BY <1>10, RecoveredType DEF Admit, Recover
  <2>3. lastDeviceSweep' \in Nat \cup {NoTime}
    BY <1>10 DEF TypeOK, Admit, Sweep
  <2>4. /\ globalCalls' \in SUBSET Admission
        /\ deviceCalls' \in [Devices -> SUBSET Admission]
        /\ admitted' \in SUBSET Admission
    <3> HIDE DEF call
    <3>1. /\ globalCalls' = RecentCalls \cup {call}
          /\ deviceCalls' = [RecentDeviceCalls(c) EXCEPT
                                ![DeviceOf[c]] = @ \cup {call}]
          /\ admitted' = admitted \cup {call}
      BY <1>10 DEF Admit, call
    <3> QED BY <2>1, <3>1, PrunedType DEF TypeOK
  <2>5. pc' \in [Callers -> Labels]
    BY <1>10 DEF TypeOK, Admit, Labels
  <2> QED
    BY <1>10, <2>2, <2>3, <2>4, <2>5 DEF TypeOK, Admit
<1>11. ASSUME NEW c \in Callers, Full(c) PROVE TypeOK'
  <2>1. PICK r \in Recovered :
          /\ GlobalFull(r.qpm) \/ DeviceFull(c)
          /\ Recover(r)
          /\ wait' = [wait EXCEPT ![c] = WaitFor(c, r.qpm)]
    BY <1>11 DEF Full
  <2>2. qpm' \in 1 .. GlobalQPM /\ lastRateLimited' \in Nat \cup {NoTime}
    BY <2>1, RecoveredType DEF Recover
  <2>3. wait' \in [Callers -> Nat]
    <3>1. WaitFor(c, r.qpm) \in Nat
      BY <2>1, RecoveredType, WaitPositive
    <3> QED
      BY <2>1, <3>1 DEF TypeOK
  <2>4. lastDeviceSweep' \in Nat \cup {NoTime}
    BY <1>11 DEF TypeOK, Full, Sweep
  <2>5. /\ globalCalls' \in SUBSET Admission
        /\ deviceCalls' \in [Devices -> SUBSET Admission]
    BY <1>11, PrunedType DEF Full
  <2>6. pc' \in [Callers -> Labels]
    BY <1>11 DEF TypeOK, Full, Labels
  <2> QED
    BY <1>11, <2>2, <2>3, <2>4, <2>5, <2>6 DEF TypeOK, Full
<1>12. ASSUME NEW c \in Callers, GiveUp(c) PROVE TypeOK'
  BY <1>12, ReleaseType DEF TypeOK, GiveUp, Labels
<1>13. ASSUME NEW c \in Callers, WakeUp(c) PROVE TypeOK'
  BY <1>13 DEF TypeOK, WakeUp, Labels
<1>14. ASSUME NEW c \in Callers, SleepDone(c) PROVE TypeOK'
  BY <1>14, ForgetType DEF TypeOK, SleepDone, Labels
<1>15. ASSUME NEW c \in Callers, Send(c) PROVE TypeOK'
  BY <1>15 DEF TypeOK, Send, Command
<1>16. ASSUME NEW c \in Callers, FnReturns(c) PROVE TypeOK'
  BY <1>16 DEF TypeOK, FnReturns, Labels
<1>17. ASSUME NEW c \in Callers, Return(c) PROVE TypeOK'
  BY <1>17, ForgetType, ReleaseType DEF TypeOK, Return, Labels
<1>18. ASSUME NEW c \in Callers, NoteRateLimited(c) PROVE TypeOK'
  <2>1. PICK r \in Recovered : qpm' = Halved(r.qpm)
    BY <1>18 DEF NoteRateLimited
  <2>2. qpm' \in 1 .. GlobalQPM
    BY <2>1, RecoveredType
  <2>3. /\ limited' \in Nat /\ quietTime' \in 0 .. RecoveryInterval - 1
        /\ earned' \in 1 .. GlobalQPM
    BY <1>18, TimeAssumption, QuotaAssumption
       DEF TypeOK, NoteRateLimited, RateEarned, Halved
  <2> QED
    BY <1>18, <2>2, <2>3 DEF TypeOK, NoteRateLimited, Labels
<1>19. ASSUME NEW c \in Callers, CurrentQPM(c) PROVE TypeOK'
  <2>1. qpm' \in 1 .. GlobalQPM /\ lastRateLimited' \in Nat \cup {NoTime}
    BY <1>19, RecoveredType DEF CurrentQPM, Recover
  <2> QED
    BY <1>19, <2>1 DEF TypeOK, CurrentQPM, Labels
<1>20. ASSUME Tick PROVE TypeOK'
  <2>1. /\ limited' \in Nat \cup {NoTime} /\ quietTime' \in 0 .. RecoveryInterval - 1
        /\ earned' \in 1 .. GlobalQPM
    BY <1>20, TimeAssumption, QuotaAssumption DEF TypeOK, Tick, RateEarned, Doubled
  <2> QED BY <1>20, <2>1 DEF TypeOK, Tick
<1>21. ASSUME UNCHANGED vars PROVE TypeOK'
  BY <1>21 DEF TypeOK, vars
<1> QED
  BY <1>1, <1>2, <1>3, <1>4, <1>5, <1>6, <1>7, <1>8, <1>9, <1>10, <1>11,
     <1>12, <1>13, <1>14, <1>15, <1>16, <1>17, <1>18, <1>19, <1>20, <1>21
     DEF Next, Step, Quiet

\* The variables keep their types.
THEOREM TypeCorrect == Spec => []TypeOK
BY TypeInit, TypeStep, PTL DEF Spec

-----------------------------------------------------------------------------
(* The slot *)

\* Where a caller's waiter may be in the queue or hold a fresh grant.
Waiting == {"queued", "withdraw"}

\* The inductive invariant behind SlotKept: the queue
\* holds exactly the waiters without a grant, only waiters hold a grant, and
\* holder tells whether one of the callers owns the slot.
SlotInv ==
    /\ \A c \in Callers : granted[c] => pc[c] \in Waiting
    /\ \A c \in Callers : c \in queue <=> pc[c] \in Waiting /\ ~granted[c]
    /\ \A c, d \in Callers : Owns(c) /\ Owns(d) => c = d
    /\ holder <=> \E c \in Callers : Owns(c)
    /\ holder \/ queue = {}

LEMMA SlotInit == Init => SlotInv
BY DEF Init, SlotInv, Owns, Owning, Waiting

\* A caller that moves without the slot, and not in the queue, disturbs nothing.
LEMMA MoveOutside ==
    ASSUME TypeOK, SlotInv, NEW c \in Callers, NEW label,
           Goto(c, label), UNCHANGED slotVars,
           pc[c] \notin Owning \cup Waiting,
           label \notin Owning \cup Waiting
    PROVE  SlotInv'
<1>1. \A d \in Callers : Owns(d)' <=> Owns(d)
  BY DEF TypeOK, Owns, Goto, slotVars
<1>2. \A d \in Callers : pc'[d] \in Waiting <=> pc[d] \in Waiting
  BY DEF TypeOK, Goto
<1> QED
  BY <1>1, <1>2 DEF SlotInv, slotVars

\* The owner moves on inside the slot.
LEMMA MoveInside ==
    ASSUME TypeOK, SlotInv, NEW c \in Callers, NEW label,
           Goto(c, label), UNCHANGED slotVars,
           pc[c] \in Owning, label \in Owning
    PROVE  SlotInv'
<1>1. \A d \in Callers : Owns(d)' <=> Owns(d)
  BY DEF TypeOK, Owns, Goto, slotVars
<1>2. \A d \in Callers : pc'[d] \in Waiting <=> pc[d] \in Waiting
  BY DEF TypeOK, Goto, Owning, Waiting
<1> QED
  BY <1>1, <1>2 DEF SlotInv, slotVars

\* The owner takes a fresh grant.
LEMMA TakeGrant ==
    ASSUME TypeOK, SlotInv, NEW c \in Callers, NEW label,
           pc[c] \in Waiting, granted[c],
           granted' = [granted EXCEPT ![c] = FALSE],
           Goto(c, label), label \in Owning,
           UNCHANGED <<queue, holder>>
    PROVE  SlotInv'
<1>1. \A d \in Callers : Owns(d)' <=> Owns(d)
  BY DEF TypeOK, Owns, Goto
<1>2. label \notin Waiting /\ c \notin queue
  BY DEF SlotInv, Owning, Waiting
<1>3. \A d \in Callers : d # c => (pc'[d] = pc[d] /\ granted'[d] = granted[d])
  BY DEF TypeOK, Goto
<1>4. pc'[c] = label /\ ~granted'[c]
  BY DEF TypeOK, Goto
<1> QED
  BY <1>1, <1>2, <1>3, <1>4 DEF SlotInv

\* The owner releases: either nobody waits and the slot is free, or exactly
\* one waiter leaves the queue with the grant.
LEMMA ReleaseHandsOn ==
    ASSUME TypeOK, SlotInv, NEW c \in Callers, NEW label,
           Release, Goto(c, label),
           pc[c] \in Owning, label \notin Owning \cup Waiting
    PROVE  SlotInv'
<1>1. pc'[c] = label /\ \A d \in Callers : d # c => pc'[d] = pc[d]
  BY DEF TypeOK, Goto
<1>2. Owns(c) /\ ~granted[c] /\ holder /\ c \notin queue
  BY DEF SlotInv, Owns, Owning, Waiting
<1>3. \A d \in Callers : Owns(d) => d = c
  BY <1>2 DEF SlotInv
<1>4. CASE queue = {} /\ holder' = FALSE /\ UNCHANGED <<queue, granted>>
  <2>1. \A d \in Callers : ~Owns(d)'
    BY <1>1, <1>2, <1>3, <1>4 DEF Owns
  <2>2. \A d \in Callers : pc'[d] \in Waiting <=> pc[d] \in Waiting
    BY <1>1 DEF Owning, Waiting
  <2> QED
    BY <1>4, <2>1, <2>2 DEF SlotInv
<1>5. ASSUME NEW w \in queue,
             queue' = queue \ {w},
             granted' = [granted EXCEPT ![w] = TRUE],
             UNCHANGED holder
      PROVE  SlotInv'
  <2>1. w \in Callers /\ w # c /\ pc[w] \in Waiting /\ ~granted[w]
    BY <1>2, <1>5 DEF TypeOK, SlotInv
  <2>2. granted'[w] /\ \A d \in Callers : d # w => granted'[d] = granted[d]
    BY <1>5, <2>1 DEF TypeOK
  <2>3. Owns(w)' /\ \A d \in Callers : Owns(d)' => d = w
    BY <1>1, <1>2, <1>3, <2>1, <2>2 DEF Owns
  <2>4. \A d \in Callers : granted'[d] => pc'[d] \in Waiting
    BY <1>1, <1>2, <2>1, <2>2 DEF SlotInv
  <2>5. \A d \in Callers : d \in queue' <=> pc'[d] \in Waiting /\ ~granted'[d]
    BY <1>1, <1>2, <1>5, <2>1, <2>2 DEF SlotInv, Owning, Waiting
  <2> QED
    BY <1>2, <1>5, <2>1, <2>3, <2>4, <2>5 DEF SlotInv
<1> QED
  BY <1>4, <1>5 DEF Release

LEMMA SlotStep == TypeOK /\ SlotInv /\ [Next]_vars => SlotInv'
<1> SUFFICES ASSUME TypeOK, SlotInv, [Next]_vars PROVE SlotInv'
  OBVIOUS
<1>1. ASSUME NEW c \in Callers,
             Call(c) \/ WakeUp(c) \/ SleepDone(c) \/ NoteRateLimited(c)
                 \/ CurrentQPM(c)
      PROVE  SlotInv'
  BY <1>1, MoveOutside
     DEF Call, WakeUp, SleepDone, NoteRateLimited, CurrentQPM, Owning, Waiting
<1>2. ASSUME NEW c \in Callers,
             OwnerDone(c) \/ Admit(c) \/ Full(c) \/ FnReturns(c)
      PROVE  SlotInv'
  BY <1>2, MoveInside DEF OwnerDone, Admit, Full, FnReturns, Owning
<1>3. ASSUME NEW c \in Callers, Ready(c) \/ FoundGranted(c)
      PROVE  SlotInv'
  BY <1>3, TakeGrant DEF Ready, FoundGranted, Owning, Waiting
<1>4. ASSUME NEW c \in Callers, HandBack(c) \/ GiveUp(c) \/ Return(c)
      PROVE  SlotInv'
  BY <1>4, ReleaseHandsOn DEF HandBack, GiveUp, Return, Owning, Waiting
<1>5. ASSUME NEW c \in Callers, Acquire(c)
      PROVE  SlotInv'
  <2>1. \A d \in Callers : d # c => pc'[d] = pc[d]
    BY <1>5 DEF TypeOK, Acquire, Goto
  <2>2. pc[c] = "acquire" /\ granted' = granted /\ ~granted[c] /\ c \notin queue
    BY <1>5 DEF Acquire, SlotInv, Waiting
  <2>3. CASE ~holder /\ holder' = TRUE /\ Goto(c, "owner") /\ UNCHANGED queue
    <3>1. pc'[c] = "owner" /\ queue = {}
      BY <2>3 DEF TypeOK, Goto, SlotInv
    <3>2. Owns(c)' /\ \A d \in Callers : Owns(d)' => d = c
      BY <2>1, <2>2, <2>3, <3>1 DEF SlotInv, Owns, Owning
    <3> QED
      BY <2>1, <2>2, <2>3, <3>1, <3>2 DEF SlotInv, Waiting
  <2>4. CASE holder /\ queue' = queue \cup {c} /\ Goto(c, "queued")
                 /\ UNCHANGED holder
    <3>1. pc'[c] = "queued"
      BY <2>4 DEF TypeOK, Goto
    <3>2. \A d \in Callers : Owns(d)' <=> Owns(d)
      BY <2>1, <2>2, <3>1 DEF Owns, Owning
    <3> QED
      BY <2>1, <2>2, <2>4, <3>1, <3>2 DEF SlotInv, Waiting
  <2> QED
    BY <1>5, <2>3, <2>4 DEF Acquire
<1>6. ASSUME NEW c \in Callers, QueueDone(c)
      PROVE  SlotInv'
  <2>1. pc[c] = "queued" /\ pc'[c] = "withdraw"
        /\ \A d \in Callers : d # c => pc'[d] = pc[d]
    BY <1>6 DEF TypeOK, QueueDone, Goto
  <2>2. UNCHANGED <<queue, holder, granted>>
    BY <1>6 DEF QueueDone, slotVars
  <2>3. \A d \in Callers : Owns(d)' <=> Owns(d)
    BY <2>1, <2>2 DEF Owns, Owning
  <2> QED
    BY <2>1, <2>2, <2>3 DEF SlotInv, Waiting
<1>7. ASSUME NEW c \in Callers, Withdraw(c)
      PROVE  SlotInv'
  <2>1. pc[c] = "withdraw" /\ pc'[c] = "idle" /\ ~granted[c]
        /\ \A d \in Callers : d # c => pc'[d] = pc[d]
    BY <1>7 DEF TypeOK, Withdraw, Goto
  <2>2. queue' = queue \ {c} /\ UNCHANGED <<holder, granted>>
    BY <1>7 DEF Withdraw
  <2>3. \A d \in Callers : Owns(d)' <=> Owns(d)
    BY <2>1, <2>2 DEF Owns, Owning
  <2> QED
    BY <2>1, <2>2, <2>3 DEF SlotInv, Waiting
<1>8. CASE UNCHANGED <<slotVars, pc>>
  BY <1>8 DEF SlotInv, Owns, slotVars
<1> QED
  BY <1>1, <1>2, <1>3, <1>4, <1>5, <1>6, <1>7, <1>8
     DEF Next, Step, Cancel, Send, Tick, Quiet, vars

\* At most one caller owns the slot, and the slot cannot be lost.
THEOREM SlotCorrect == Spec => []SlotKept
<1>1. SlotInv => SlotKept
  BY DEF SlotInv, SlotKept, SlotExclusion, SlotNeverLost
<1> QED
  BY <1>1, TypeInit, TypeStep, SlotInit, SlotStep, PTL DEF Spec

-----------------------------------------------------------------------------
(* The quota windows *)

\* The inductive invariant behind both quotas: the windows hold admissions
\* only, and every admission that still counts; nothing was admitted in the
\* future; and up to now no window was overdrawn.
QuotaInv ==
    /\ IsFiniteSet(admitted)
    /\ \A a \in admitted : a.at <= now
    /\ globalCalls \subseteq admitted
    /\ \A d \in Devices : deviceCalls[d] \subseteq {a \in admitted : a.dev = d}
    /\ WindowsComplete
    /\ GlobalQuota
    /\ DeviceQuota

LEMMA QuotaInit == Init => QuotaInv
<1> SUFFICES ASSUME Init PROVE QuotaInv
  OBVIOUS
<1>1. admitted = {} /\ IsFiniteSet(admitted)
  BY FS_EmptySet DEF Init
<1>2. GlobalQuota
  <2>1. \A t : InMinute(admitted, t) = {}
    BY <1>1 DEF InMinute
  <2> QED BY <2>1, FS_EmptySet DEF GlobalQuota
<1>3. DeviceQuota
  <2>1. \A d, t : InHour(admitted, d, t) = {}
    BY <1>1 DEF InHour
  <2> QED BY <2>1, FS_EmptySet DEF DeviceQuota
<1>4. WindowsComplete
  BY <1>1 DEF WindowsComplete, Prune
<1> QED
  BY <1>1, <1>2, <1>3, <1>4 DEF QuotaInv, Init

\* An admission overdraws no Minute: at its own instant the pruned window was
\* not full, and earlier Minutes do not see it.
LEMMA AdmitGlobal ==
    ASSUME TypeOK, QuotaInv, NEW c \in Callers, NEW rate \in 1 .. GlobalQPM,
           ~GlobalFull(rate), NEW call \in Admission, call.at = now,
           NEW t \in 0 .. now
    PROVE  Cardinality(InMinute(admitted \cup {call}, t)) <= GlobalQPM
<1>1. now \in Nat /\ t \in Nat /\ \A a \in admitted : a.at \in Nat /\ a.at <= now
  BY DEF TypeOK, QuotaInv, Admission
<1>2. CASE t < now
  <2>1. InMinute(admitted \cup {call}, t) = InMinute(admitted, t)
    BY <1>1, <1>2 DEF InMinute
  <2> QED
    BY <2>1 DEF QuotaInv, GlobalQuota
<1>3. CASE t = now
  <2>1. InMinute(admitted \cup {call}, t) \subseteq RecentCalls \cup {call}
    BY <1>1, <1>3 DEF InMinute, RecentCalls, Prune, QuotaInv, WindowsComplete
  <2>2. IsFiniteSet(RecentCalls)
    <3>1. RecentCalls \subseteq admitted
      BY DEF QuotaInv, RecentCalls, Prune
    <3> QED
      BY <3>1, FS_Subset DEF QuotaInv
  <2>3. Cardinality(RecentCalls) \in Nat /\ Cardinality(RecentCalls) < rate
    BY <2>2, FS_CardinalityType DEF GlobalFull
  <2>4. /\ IsFiniteSet(RecentCalls \cup {call})
        /\ Cardinality(RecentCalls \cup {call}) <= GlobalQPM
    <3>1. /\ IsFiniteSet(RecentCalls \cup {call})
          /\ \/ Cardinality(RecentCalls \cup {call}) = Cardinality(RecentCalls)
             \/ Cardinality(RecentCalls \cup {call}) = Cardinality(RecentCalls) + 1
      BY <2>2, FS_AddElement, Zenon
    <3> QED
      BY <2>3, <3>1
  <2>5. /\ Cardinality(InMinute(admitted \cup {call}, t))
               <= Cardinality(RecentCalls \cup {call})
        /\ IsFiniteSet(InMinute(admitted \cup {call}, t))
    BY <2>1, <2>4, FS_Subset
  <2> QED
    BY <2>4, <2>5, FS_CardinalityType
<1> QED
  BY <1>1, <1>2, <1>3

\* The same for the Hour of the camera, and no other camera's Hour sees it.
LEMMA AdmitDevice ==
    ASSUME TypeOK, QuotaInv, NEW c \in Callers, ~DeviceFull(c),
           NEW call \in Admission, call.at = now, call.dev = DeviceOf[c],
           NEW d \in Devices, NEW t \in 0 .. now
    PROVE  Cardinality(InHour(admitted \cup {call}, d, t)) <= DeviceQPH
<1> DEFINE mine == RecentDeviceCalls(c)[DeviceOf[c]]
<1>1. now \in Nat /\ t \in Nat /\ \A a \in admitted : a.at \in Nat /\ a.at <= now
  BY DEF TypeOK, QuotaInv, Admission
<1>2. CASE t < now \/ d # DeviceOf[c]
  <2>1. InHour(admitted \cup {call}, d, t) = InHour(admitted, d, t)
    BY <1>1, <1>2 DEF InHour
  <2> QED
    BY <2>1 DEF QuotaInv, DeviceQuota
<1>3. CASE t = now /\ d = DeviceOf[c]
  <2>1. mine = Prune(deviceCalls[d], now - Hour)
    BY <1>3 DEF RecentDeviceCalls
  <2>2. InHour(admitted \cup {call}, d, t) \subseteq mine \cup {call}
    BY <1>1, <1>3, <2>1 DEF InHour, Prune, QuotaInv, WindowsComplete
  <2>3. IsFiniteSet(mine)
    <3>1. mine \subseteq admitted
      BY <2>1 DEF QuotaInv, Prune
    <3> QED
      BY <3>1, FS_Subset DEF QuotaInv
  <2>4. Cardinality(mine) \in Nat /\ Cardinality(mine) < DeviceQPH
    BY <2>3, FS_CardinalityType DEF DeviceFull
  <2>5. /\ IsFiniteSet(mine \cup {call})
        /\ Cardinality(mine \cup {call}) <= DeviceQPH
    <3> HIDE DEF mine
    <3>1. /\ IsFiniteSet(mine \cup {call})
          /\ \/ Cardinality(mine \cup {call}) = Cardinality(mine)
             \/ Cardinality(mine \cup {call}) = Cardinality(mine) + 1
      BY <2>3, FS_AddElement, Zenon
    <3> QED
      BY <2>4, <3>1
  <2>6. /\ Cardinality(InHour(admitted \cup {call}, d, t))
               <= Cardinality(mine \cup {call})
        /\ IsFiniteSet(InHour(admitted \cup {call}, d, t))
    BY <2>2, <2>5, FS_Subset
  <2> QED
    BY <2>5, <2>6, FS_CardinalityType
<1> QED
  BY <1>1, <1>2, <1>3

\* When time moves on, the windows that end now lie in those of an instant ago.
LEMMA QuotaTick ==
    ASSUME TypeOK, QuotaInv, Tick
    PROVE  QuotaInv'
<1>1. now \in Nat /\ now' = now + 1 /\ \A a \in admitted : a.at \in Nat
  BY DEF TypeOK, Tick, Admission
<1>2. UNCHANGED <<admitted, globalCalls, deviceCalls>>
  BY DEF Tick, windowVars, historyVars
<1>3. WindowsComplete'
  BY <1>1, <1>2 DEF QuotaInv, WindowsComplete, Prune
<1>4. GlobalQuota'
  <2> SUFFICES ASSUME NEW t \in 0 .. now + 1
               PROVE  Cardinality(InMinute(admitted, t)) <= GlobalQPM
    BY <1>1, <1>2 DEF GlobalQuota, InMinute
  <2>1. CASE t \in 0 .. now
    BY <2>1 DEF QuotaInv, GlobalQuota
  <2>2. CASE t = now + 1
    <3>1. InMinute(admitted, t) \subseteq InMinute(admitted, now)
      BY <1>1, <2>2 DEF InMinute, QuotaInv
    <3>2. IsFiniteSet(InMinute(admitted, now))
      BY FS_Subset DEF InMinute, QuotaInv
    <3>3. /\ Cardinality(InMinute(admitted, t))
                 <= Cardinality(InMinute(admitted, now))
          /\ IsFiniteSet(InMinute(admitted, t))
      BY <3>1, <3>2, FS_Subset
    <3>4. Cardinality(InMinute(admitted, now)) <= GlobalQPM
      BY <1>1 DEF QuotaInv, GlobalQuota
    <3> QED
      BY <3>2, <3>3, <3>4, FS_CardinalityType
  <2> QED
    BY <1>1, <2>1, <2>2
<1>5. DeviceQuota'
  <2> SUFFICES ASSUME NEW d \in Devices, NEW t \in 0 .. now + 1
               PROVE  Cardinality(InHour(admitted, d, t)) <= DeviceQPH
    BY <1>1, <1>2 DEF DeviceQuota, InHour
  <2>1. CASE t \in 0 .. now
    BY <2>1 DEF QuotaInv, DeviceQuota
  <2>2. CASE t = now + 1
    <3>1. InHour(admitted, d, t) \subseteq InHour(admitted, d, now)
      BY <1>1, <2>2 DEF InHour, QuotaInv
    <3>2. IsFiniteSet(InHour(admitted, d, now))
      BY FS_Subset DEF InHour, QuotaInv
    <3>3. /\ Cardinality(InHour(admitted, d, t))
                 <= Cardinality(InHour(admitted, d, now))
          /\ IsFiniteSet(InHour(admitted, d, t))
      BY <3>1, <3>2, FS_Subset
    <3>4. Cardinality(InHour(admitted, d, now)) <= DeviceQPH
      BY <1>1 DEF QuotaInv, DeviceQuota
    <3> QED
      BY <3>2, <3>3, <3>4, FS_CardinalityType
  <2> QED
    BY <1>1, <2>1, <2>2
<1> QED
  BY <1>1, <1>2, <1>3, <1>4, <1>5 DEF QuotaInv

LEMMA QuotaAdmit ==
    ASSUME TypeOK, QuotaInv, NEW c \in Callers, Admit(c)
    PROVE  QuotaInv'
<1> DEFINE call == [at |-> now, seq |-> seqOf[c], dev |-> DeviceOf[c]]
<1>1. call \in Admission /\ call.at = now /\ call.dev = DeviceOf[c]
  BY DEF TypeOK, Admission
<1>2. /\ globalCalls' = RecentCalls \cup {call}
      /\ deviceCalls' = [RecentDeviceCalls(c) EXCEPT
                            ![DeviceOf[c]] = @ \cup {call}]
      /\ admitted' = admitted \cup {call}
      /\ now' = now
  BY DEF Admit
<1>3. PICK r \in Recovered : ~GlobalFull(r.qpm)
  BY DEF Admit
<1>4. r.qpm \in 1 .. GlobalQPM /\ ~DeviceFull(c)
  BY RecoveredType DEF Admit
<1> HIDE DEF call
<1>5. now \in Nat /\ \A a \in admitted : a.at \in Nat /\ a.at <= now
  BY DEF TypeOK, QuotaInv, Admission
<1>6. IsFiniteSet(admitted')
  BY <1>2, FS_AddElement DEF QuotaInv
<1>7. /\ \A a \in admitted' : a.at <= now'
      /\ globalCalls' \subseteq admitted'
  BY <1>1, <1>2, <1>5 DEF QuotaInv, RecentCalls, Prune
<1>8. \A d \in Devices :
        deviceCalls'[d] = RecentDeviceCalls(c)[d]
                             \cup (IF d = DeviceOf[c] THEN {call} ELSE {})
  BY <1>2, PrunedType
<1>9. \A d \in Devices : deviceCalls'[d] \subseteq {a \in admitted' : a.dev = d}
  BY <1>1, <1>2, <1>8 DEF QuotaInv, RecentDeviceCalls, Prune
<1>10. WindowsComplete'
  <2>1. Prune(admitted', now' - Minute) \subseteq globalCalls'
    BY <1>2, <1>5 DEF QuotaInv, WindowsComplete, RecentCalls, Prune
  <2>2. ASSUME NEW d \in Devices
        PROVE  {a \in Prune(admitted', now' - Hour) : a.dev = d}
                   \subseteq deviceCalls'[d]
    BY <1>1, <1>2, <1>5, <1>8
       DEF QuotaInv, WindowsComplete, RecentDeviceCalls, Prune
  <2> QED
    BY <2>1, <2>2 DEF WindowsComplete
<1>11. GlobalQuota'
  BY <1>1, <1>2, <1>3, <1>4, AdmitGlobal DEF GlobalQuota
<1>12. DeviceQuota'
  BY <1>1, <1>2, <1>4, AdmitDevice DEF DeviceQuota
<1> QED
  BY <1>6, <1>7, <1>9, <1>10, <1>11, <1>12 DEF QuotaInv

LEMMA QuotaFull ==
    ASSUME TypeOK, QuotaInv, NEW c \in Callers, Full(c)
    PROVE  QuotaInv'
<1>1. /\ globalCalls' = RecentCalls
      /\ deviceCalls' = RecentDeviceCalls(c)
      /\ UNCHANGED <<admitted, now>>
  BY DEF Full, historyVars
<1>2. GlobalQuota' /\ DeviceQuota'
  BY <1>1 DEF QuotaInv, GlobalQuota, DeviceQuota, InMinute, InHour
<1>3. WindowsComplete'
  BY <1>1 DEF QuotaInv, WindowsComplete, RecentCalls, RecentDeviceCalls, Prune
<1>4. /\ globalCalls' \subseteq admitted'
      /\ \A d \in Devices :
            deviceCalls'[d] \subseteq {a \in admitted' : a.dev = d}
  BY <1>1 DEF QuotaInv, RecentCalls, RecentDeviceCalls, Prune
<1> QED
  BY <1>1, <1>2, <1>3, <1>4 DEF QuotaInv

LEMMA QuotaStep == TypeOK /\ QuotaInv /\ [Next]_vars => QuotaInv'
<1> SUFFICES ASSUME TypeOK, QuotaInv, [Next]_vars PROVE QuotaInv'
  OBVIOUS
<1>1. CASE UNCHANGED <<now, windowVars, admitted>>
  BY <1>1 DEF QuotaInv, WindowsComplete, GlobalQuota, DeviceQuota,
              InMinute, InHour, Prune, windowVars
<1>2. CASE Tick
  BY <1>2, QuotaTick
<1>3. CASE \E c \in Callers : Admit(c) \/ Full(c)
  BY <1>3, QuotaAdmit, QuotaFull
<1> QED
  BY <1>1, <1>2, <1>3
     DEF Next, Step, Call, Cancel, Acquire, Ready, QueueDone, Withdraw,
         FoundGranted, HandBack, OwnerDone, GiveUp, WakeUp, SleepDone, Send,
         FnReturns, Return, NoteRateLimited, CurrentQPM, Quiet, vars,
         historyVars

\* Whatever the interleaving, no Minute and no Hour is overdrawn, and the
\* pruned windows lose no call that still counts.
THEOREM QuotaCorrect ==
    Spec => [](QuotaKept /\ WindowsComplete)
<1>1. QuotaInv => QuotaKept /\ WindowsComplete
  BY DEF QuotaInv, QuotaKept
<1> QED
  BY <1>1, TypeInit, TypeStep, QuotaInit, QuotaStep, PTL DEF Spec

-----------------------------------------------------------------------------
(* The order of the queue *)

\* Who gets the slot in a step was granted it, or found it free.
LEMMA NewOwner ==
    ASSUME TypeOK, SlotInv, [Next]_vars, NEW d \in Callers, ~Owns(d), Owns(d)'
    PROVE  \/ d \in queue /\ \A v \in queue \ {d} : Less(d, v)
           \/ ~holder
<1>1. CASE \E c \in Callers : Acquire(c)
  <2>1. PICK c \in Callers : Acquire(c)
    BY <1>1
  <2>2. CASE ~holder
    BY <2>2
  <2>3. CASE Goto(c, "queued")
    BY <2>1, <2>3 DEF TypeOK, Acquire, Owns, Owning, Goto
  <2> QED
    BY <2>1, <2>2, <2>3 DEF Acquire
<1>2. CASE \E c \in Callers : HandBack(c) \/ GiveUp(c) \/ Return(c)
  <2>1. PICK c \in Callers : HandBack(c) \/ GiveUp(c) \/ Return(c)
    BY <1>2
  <2>2. Release /\ \E label : Goto(c, label) /\ label \notin Owning
    BY <2>1 DEF HandBack, GiveUp, Return, Owning
  <2>3. pc'[d] \notin Owning
    BY <2>2 DEF TypeOK, Owns, Goto
  <2>4. granted'[d] /\ ~granted[d]
    BY <2>3 DEF Owns
  <2> QED
    BY <2>2, <2>4 DEF TypeOK, Release
<1>3. CASE UNCHANGED <<slotVars, pc>>
  BY <1>3 DEF Owns, slotVars
<1>4. ASSUME NEW c \in Callers, Ready(c) \/ FoundGranted(c) PROVE FALSE
  BY <1>4 DEF TypeOK, Ready, FoundGranted, Owns, Goto
<1>5. ASSUME NEW c \in Callers,
             \/ Call(c) \/ QueueDone(c) \/ Withdraw(c) \/ OwnerDone(c) \/ Admit(c)
             \/ Full(c) \/ WakeUp(c) \/ SleepDone(c) \/ FnReturns(c)
             \/ NoteRateLimited(c) \/ CurrentQPM(c)
      PROVE  FALSE
  <2>1. granted' = granted
    BY <1>5 DEF Call, QueueDone, Withdraw, OwnerDone, Admit, Full, WakeUp, SleepDone,
                FnReturns, NoteRateLimited, CurrentQPM, slotVars
  <2>2. \E label : Goto(c, label) /\ (label \in Owning => pc[c] \in Owning)
    BY <1>5 DEF Call, QueueDone, Withdraw, OwnerDone, Admit, Full, WakeUp, SleepDone,
                FnReturns, NoteRateLimited, CurrentQPM, Owning
  <2> QED
    BY <2>1, <2>2 DEF TypeOK, Owns, Goto
<1> QED
  BY <1>1, <1>2, <1>3, <1>4, <1>5
     DEF Next, Step, Cancel, Send, Tick, Quiet, vars

\* The slot never passes a queued call that comes first, for any callers.
THEOREM OrderCorrect == Spec => QueueOrder
<1>1. ASSUME TypeOK, SlotInv, [Next]_vars, NEW c \in queue, NEW d \in Callers,
             Less(c, d), ~Owns(d)
      PROVE  ~Owns(d)'
  <2>1. c \in Callers /\ holder /\ ~Less(d, c) /\ c # d
    BY <1>1 DEF TypeOK, SlotInv, Less, Priorities, PriorityRenewal, PriorityConnect
  <2> QED
    BY <1>1, <2>1, NewOwner
<1>2. TypeOK /\ SlotInv /\ [Next]_vars =>
        [\A c \in queue, d \in Callers :
            Less(c, d) /\ ~Owns(d) /\ pc[c] = "queued" => ~Owns(d)']_vars
  BY <1>1
<1> QED
  BY <1>2, TypeInit, TypeStep, SlotInit, SlotStep, PTL DEF Spec, QueueOrder

-----------------------------------------------------------------------------
(* The gate *)

\* Calls that have begun and are not numbered yet.
Fresh == {c \in Callers : pc[c] = "acquire" /\ seqOf[c] = 0}

\* What tells two commands apart: every call is numbered once, in acquire, and
\* stamped once at most, under its own number.
NumberInv ==
    /\ seq + Cardinality(Fresh) <= MaxCalls
    /\ \A c \in Callers : pc[c] \in {"idle", "note", "report"} => seqOf[c] = 0
    /\ \A c \in Callers : pc[c] \notin {"idle", "acquire", "note", "report"} => seqOf[c] # 0
    /\ \A c \in Callers : seqOf[c] <= seq
    /\ \A c, d \in Callers : seqOf[c] = seqOf[d] /\ seqOf[c] # 0 => c = d
    /\ \A a \in admitted : a.seq \in 1 .. seq
    /\ \A a \in admitted, c \in Callers :
          a.seq = seqOf[c] => pc[c] \in {"running", "return", "return429"}

LEMMA NumberInit == Init => NumberInv
<1> SUFFICES ASSUME Init PROVE NumberInv
  OBVIOUS
<1>1. Fresh = {}
  BY DEF Init, Fresh
<1>2. Cardinality(Fresh) = 0
  BY <1>1, FS_EmptySet
<1> QED
  BY <1>2 DEF Init, NumberInv

\* A call that moves on, keeps its number and is not stamped.
LEMMA NumberMove ==
    ASSUME TypeOK, NumberInv, NEW c \in Callers, NEW label,
           Goto(c, label), UNCHANGED <<seq, seqOf, admitted>>,
           pc[c] \notin {"idle", "acquire", "note", "report", "running", "return", "return429"},
           label \notin {"idle", "note", "report"}
    PROVE  NumberInv'
<1>1. pc'[c] = label /\ \A d \in Callers \ {c} : pc'[d] = pc[d]
  BY DEF TypeOK, Goto
<1>2. seqOf[c] # 0 /\ \A a \in admitted : a.seq # seqOf[c]
  BY DEF NumberInv
<1>3. Fresh' = Fresh
  BY <1>1, <1>2 DEF Fresh, NumberInv
<1> QED
  BY <1>1, <1>2, <1>3 DEF NumberInv

\* A call that returns.
LEMMA NumberForget ==
    ASSUME TypeOK, NumberInv, NEW c \in Callers, NEW label,
           Goto(c, label), Forget(c), UNCHANGED admitted,
           pc[c] # "acquire", label \in {"idle", "note"}
    PROVE  NumberInv'
<1>1. pc'[c] = label /\ \A d \in Callers \ {c} : pc'[d] = pc[d]
  BY DEF TypeOK, Goto
<1>2. /\ seqOf'[c] = 0 /\ \A d \in Callers \ {c} : seqOf'[d] = seqOf[d]
      /\ UNCHANGED <<seq, admitted>>
  BY DEF TypeOK, Forget
<1>3. Fresh' = Fresh
  BY <1>1, <1>2 DEF Fresh
<1>4. seq \in Nat /\ seqOf \in [Callers -> Nat]
  BY DEF TypeOK
<1> QED
  BY <1>1, <1>2, <1>3, <1>4 DEF NumberInv

\* A call that begins, of which there are MaxCalls at most.
LEMMA NumberCall ==
    ASSUME TypeOK, NumberInv, NEW c \in Callers, Call(c)
    PROVE  NumberInv'
<1>1. pc'[c] = "acquire" /\ \A d \in Callers \ {c} : pc'[d] = pc[d]
  BY DEF TypeOK, Call, Goto
<1>2. pc[c] = "idle" /\ seqOf[c] = 0 /\ UNCHANGED <<seq, seqOf, admitted>>
  BY DEF Call, NumberInv, callVars, historyVars
<1>3. Fresh' = Fresh \cup {c} /\ c \notin Fresh
  BY <1>1, <1>2 DEF Fresh
<1>4. IsFiniteSet(Fresh)
  BY CallersAssumption, FS_Subset DEF Fresh
<1>5. Cardinality(Fresh') = Cardinality(Fresh) + 1 /\ Cardinality(Fresh) \in Nat
  BY <1>3, <1>4, FS_AddElement, FS_CardinalityType
<1>6. seq + Cardinality(Fresh) < MaxCalls
  BY DEF Call, Started, Fresh
<1>7. seq' + Cardinality(Fresh') <= MaxCalls
  BY <1>2, <1>5, <1>6 DEF TypeOK
<1>8. \A a \in admitted : a.seq # 0
  BY DEF NumberInv
<1> QED
  BY <1>1, <1>2, <1>7, <1>8 DEF NumberInv

\* acquire numbers a call the first time only.
LEMMA NumberAcquire ==
    ASSUME TypeOK, NumberInv, NEW c \in Callers, Acquire(c)
    PROVE  NumberInv'
<1>1. pc'[c] \in {"owner", "queued"} /\ \A d \in Callers \ {c} : pc'[d] = pc[d]
  BY DEF TypeOK, Acquire, Goto
<1>2. pc[c] = "acquire" /\ admitted' = admitted
  BY DEF Acquire, historyVars
<1>3. Fresh' = Fresh \ {c} /\ IsFiniteSet(Fresh)
  <2>1. \A d \in Callers \ {c} : seqOf'[d] = seqOf[d]
    BY DEF TypeOK, Acquire
  <2> QED
    BY <1>1, <2>1, CallersAssumption, FS_Subset DEF Fresh
<1>4. seq \in Nat /\ seqOf \in [Callers -> Nat]
  BY DEF TypeOK
<1>5. CASE seqOf[c] = 0
  <2>1. /\ seq' = seq + 1 /\ seqOf'[c] = seq + 1
        /\ \A d \in Callers \ {c} : seqOf'[d] = seqOf[d]
    BY <1>5 DEF TypeOK, Acquire
  <2>2. c \in Fresh
    BY <1>2, <1>5 DEF Fresh
  <2>3. Cardinality(Fresh') = Cardinality(Fresh) - 1 /\ Cardinality(Fresh) \in Nat
    BY <1>3, <2>2, FS_RemoveElement, FS_CardinalityType
  <2>4. seq' + Cardinality(Fresh') <= MaxCalls
    BY <1>4, <2>1, <2>3 DEF NumberInv
  <2> QED
    BY <1>1, <1>2, <1>4, <2>1, <2>4 DEF NumberInv
<1>6. CASE seqOf[c] # 0
  <2>1. UNCHANGED <<seq, seqOf>>
    BY <1>6 DEF Acquire
  <2>2. Fresh' = Fresh
    BY <1>3, <1>6 DEF Fresh
  <2> QED
    BY <1>1, <1>2, <1>6, <2>1, <2>2 DEF NumberInv
<1> QED
  BY <1>5, <1>6

\* The stamp takes the number of its call.
LEMMA NumberAdmit ==
    ASSUME TypeOK, NumberInv, NEW c \in Callers, Admit(c)
    PROVE  NumberInv'
<1> DEFINE call == [at |-> now, seq |-> seqOf[c], dev |-> DeviceOf[c]]
<1>1. pc'[c] = "running" /\ \A d \in Callers \ {c} : pc'[d] = pc[d]
  BY DEF TypeOK, Admit, Goto
<1>2. /\ pc[c] = "owner" /\ admitted' = admitted \cup {call}
      /\ UNCHANGED <<seq, seqOf>>
  BY DEF Admit, callVars
<1>3. Fresh' = Fresh
  BY <1>1, <1>2 DEF Fresh
<1>4. call.seq = seqOf[c] /\ seqOf[c] # 0 /\ seqOf[c] \in 1 .. seq
  BY <1>2 DEF NumberInv, TypeOK
<1> HIDE DEF call
<1> QED
  BY <1>1, <1>2, <1>3, <1>4 DEF NumberInv

LEMMA NumberStep == TypeOK /\ NumberInv /\ [Next]_vars => NumberInv'
<1> SUFFICES ASSUME TypeOK, NumberInv, [Next]_vars PROVE NumberInv'
  OBVIOUS
<1>1. ASSUME NEW c \in Callers,
             \/ Ready(c) \/ QueueDone(c) \/ FoundGranted(c) \/ OwnerDone(c)
             \/ Full(c) \/ GiveUp(c) \/ WakeUp(c)
      PROVE  NumberInv'
  BY <1>1, NumberMove
     DEF Ready, QueueDone, FoundGranted, OwnerDone, Full, GiveUp, WakeUp,
         callVars, historyVars
<1>2. ASSUME NEW c \in Callers,
             Withdraw(c) \/ HandBack(c) \/ SleepDone(c) \/ Return(c)
      PROVE  NumberInv'
  BY <1>2, NumberForget DEF Withdraw, HandBack, SleepDone, Return, historyVars
<1>3. ASSUME NEW c \in Callers, FnReturns(c) PROVE NumberInv'
  <2>1. /\ pc[c] = "running" /\ pc'[c] \in {"return", "return429"}
        /\ \A d \in Callers \ {c} : pc'[d] = pc[d]
    BY <1>3 DEF TypeOK, FnReturns, Goto
  <2>2. UNCHANGED <<seq, seqOf, admitted>>
    BY <1>3 DEF FnReturns, callVars, historyVars
  <2>3. Fresh' = Fresh
    BY <2>1, <2>2 DEF Fresh
  <2> QED
    BY <2>1, <2>2, <2>3 DEF NumberInv
<1>4. ASSUME NEW c \in Callers, NoteRateLimited(c) \/ CurrentQPM(c) PROVE NumberInv'
  <2>1. /\ pc[c] \in {"note", "report"} /\ pc'[c] \in {"report", "idle"}
        /\ \A d \in Callers \ {c} : pc'[d] = pc[d]
    BY <1>4 DEF TypeOK, NoteRateLimited, CurrentQPM, Goto
  <2>2. UNCHANGED <<seq, seqOf, admitted>>
    BY <1>4 DEF NoteRateLimited, CurrentQPM, callVars, historyVars
  <2>3. Fresh' = Fresh
    BY <2>1, <2>2 DEF Fresh
  <2> QED
    BY <2>1, <2>2, <2>3 DEF NumberInv
<1>5. CASE UNCHANGED <<seq, seqOf, admitted, pc>>
  BY <1>5 DEF NumberInv, Fresh
<1> QED
  BY <1>1, <1>2, <1>3, <1>4, <1>5, NumberCall, NumberAcquire, NumberAdmit
     DEF Next, Step, Cancel, Send, Tick, Quiet, vars, callVars, historyVars

\* The windows of the code are those of the whole history.
LEMMA WindowsExact ==
    ASSUME TypeOK, QuotaInv, NEW c \in Callers
    PROVE  /\ RecentCalls = {a \in admitted : a.at > now - Minute}
           /\ RecentDeviceCalls(c)[DeviceOf[c]]
                 = {a \in admitted : a.dev = DeviceOf[c] /\ a.at > now - Hour}
<1>1. RecentCalls = {a \in admitted : a.at > now - Minute}
  BY DEF QuotaInv, WindowsComplete, RecentCalls, Prune
<1>2. RecentDeviceCalls(c)[DeviceOf[c]] = Prune(deviceCalls[DeviceOf[c]], now - Hour)
  BY DEF RecentDeviceCalls
<1> QED
  BY <1>1, <1>2 DEF QuotaInv, WindowsComplete, Prune

\* The callers whose command is being run, as the gate sees them.
InProgress == {c \in Callers : pc[c] = "running"}

LEMMA GateInit == Init => Gate!Init
BY DEF Init, Gate!Init

\* An admission begins a command at the gate.
LEMMA GateAdmit ==
    ASSUME TypeOK, SlotInv, QuotaInv, NumberInv, NEW c \in Callers, Admit(c)
    PROVE  Gate!Begin(c)
<1> DEFINE call == [at |-> now, seq |-> seqOf[c], dev |-> DeviceOf[c]]
<1>1. pc[c] = "owner" /\ \A d \in Callers : Owns(d) => d = c
  BY DEF Admit, SlotInv, Owns, Owning
<1>2. InProgress = {} /\ InProgress' = {c}
  BY <1>1 DEF InProgress, Owns, Owning, Admit, TypeOK, Goto
<1>3. Cardinality({a \in admitted : a.at > now - Minute}) < GlobalQPM
  <2>1. PICK r \in Recovered : ~GlobalFull(r.qpm)
    BY DEF Admit
  <2>2. r.qpm \in 1 .. GlobalQPM
    BY RecoveredType
  <2>3. Cardinality(RecentCalls) \in Nat
    BY WindowsExact, FS_Subset, FS_CardinalityType DEF QuotaInv
  <2>4. Cardinality(RecentCalls) < GlobalQPM
    BY <2>1, <2>2, <2>3 DEF GlobalFull
  <2> QED
    BY <2>4, WindowsExact
<1>4. Cardinality({a \in admitted : a.dev = DeviceOf[c] /\ a.at > now - Hour}) < DeviceQPH
  <2> DEFINE mine == RecentDeviceCalls(c)[DeviceOf[c]]
  <2>1. mine = {a \in admitted : a.dev = DeviceOf[c] /\ a.at > now - Hour}
    BY WindowsExact
  <2>2. Cardinality(mine) \in Nat
    BY <2>1, FS_Subset, FS_CardinalityType DEF QuotaInv
  <2>3. ~(Cardinality(mine) >= DeviceQPH)
    BY DEF Admit, DeviceFull
  <2> QED
    BY <2>1, <2>2, <2>3
<1>5. seqOf[c] \in 1 .. MaxCalls /\ \A a \in admitted : a.seq # seqOf[c]
  <2>1. Cardinality(Fresh) \in Nat
    BY CallersAssumption, FS_Subset, FS_CardinalityType DEF Fresh
  <2> QED
    BY <1>1, <2>1 DEF NumberInv, TypeOK
<1>6. admitted' = admitted \cup {call} /\ now' = now
  BY DEF Admit
<1>7. \A S : Gate!Cardinality(S) = Cardinality(S)
  BY DEF Gate!Cardinality, Cardinality
<1> QED
  BY <1>2, <1>3, <1>4, <1>5, <1>6, <1>7 DEF Gate!Begin, InProgress

LEMMA GateStep ==
    ASSUME TypeOK, SlotInv, QuotaInv, NumberInv, [Next]_vars
    PROVE  [Gate!Next]_(Gate!vars)
<1>1. ASSUME NEW c \in Callers, Admit(c) PROVE Gate!Next
  BY <1>1, GateAdmit DEF Gate!Next
<1>2. ASSUME NEW c \in Callers, FnReturns(c) PROVE Gate!Next
  <2>1. pc[c] = "running" /\ \A d \in Callers : Owns(d) => d = c
    BY <1>2 DEF FnReturns, SlotInv, Owns, Owning
  <2>2. InProgress = {c} /\ InProgress' = {}
    BY <1>2, <2>1 DEF InProgress, Owns, Owning, FnReturns, TypeOK, Goto
  <2>3. UNCHANGED <<now, admitted>>
    BY <1>2 DEF FnReturns, historyVars
  <2> QED
    BY <2>2, <2>3 DEF Gate!Next, Gate!End, InProgress
<1>3. CASE Tick
  <2>1. now' = now + 1 /\ UNCHANGED <<pc, admitted>>
    BY <1>3 DEF Tick, historyVars
  <2> QED
    BY <2>1 DEF Gate!Next, Gate!Tick
<1>4. CASE UNCHANGED vars
  BY <1>4 DEF vars, historyVars, Gate!vars
<1>5. ASSUME NEW c \in Callers,
             \/ Call(c) \/ Acquire(c) \/ Ready(c) \/ QueueDone(c) \/ Withdraw(c)
             \/ FoundGranted(c) \/ HandBack(c) \/ OwnerDone(c) \/ Full(c) \/ GiveUp(c)
             \/ WakeUp(c) \/ SleepDone(c) \/ Return(c) \/ NoteRateLimited(c)
             \/ CurrentQPM(c)
      PROVE  UNCHANGED Gate!vars
  <2>1. /\ pc[c] # "running" /\ UNCHANGED <<now, admitted>>
        /\ \E label : Goto(c, label) /\ label # "running"
    BY <1>5 DEF Call, Acquire, Ready, QueueDone, Withdraw, FoundGranted, HandBack,
                OwnerDone, Full, GiveUp, WakeUp, SleepDone, Return, NoteRateLimited,
                CurrentQPM, historyVars
  <2>2. InProgress' = InProgress
    BY <2>1 DEF InProgress, TypeOK, Goto
  <2> QED
    BY <2>1, <2>2 DEF InProgress, Gate!vars
<1>6. ASSUME NEW c \in Callers, Cancel(c) \/ Send(c) PROVE UNCHANGED Gate!vars
  BY <1>6 DEF Cancel, Send, historyVars, Gate!vars
<1> QED
  BY <1>1, <1>2, <1>3, <1>4, <1>5, <1>6 DEF Next, Step, Quiet

\* The scheduler, with its queue, its slot, its cancellations and its pruned
\* windows, implements the gate, for any callers, cameras, rates and windows.
THEOREM GateImplemented == Spec => ImplementsGate
BY TypeInit, TypeStep, SlotInit, SlotStep, QuotaInit, QuotaStep, NumberInit, NumberStep,
   GateInit, GateStep, PTL DEF Spec, ImplementsGate, Gate!Spec

-----------------------------------------------------------------------------
(* The lowered rate *)

\* What recoverRate's loop goes through in k turns.
Doublings(k) ==
    {rate \in [0 .. k -> 1 .. GlobalQPM] :
        \A i \in 1 .. k : rate[i] = Doubled(rate[i - 1])}

\* The inductive invariant behind BackoffHolds.  The code looks at the clock late
\* and the history at every tick: what the history is ahead by is the doublings
\* of the quiet intervals that recoverRate has not used yet.
RateInv ==
    \/ lastRateLimited = NoTime /\ limited = NoTime /\ qpm = GlobalQPM /\ earned = GlobalQPM
    \/ /\ lastRateLimited # NoTime /\ limited # NoTime
       /\ \E k \in Nat :
             /\ now = lastRateLimited + k * RecoveryInterval + quietTime
             /\ \E rate \in Doublings(k) : rate[0] = qpm /\ rate[k] = earned

\* The loop has one outcome, however far it goes.
LEMMA OneOutcome ==
    ASSUME NEW k \in Nat, NEW m \in 0 .. k, NEW f \in Doublings(k), NEW g \in Doublings(m),
           f[0] = g[0]
    PROVE  f[m] = g[m]
<1> DEFINE T == {i \in 0 .. m : f[i] # g[i]}
<1>1. SUFFICES ASSUME T # {} PROVE FALSE
  OBVIOUS
<1>2. PICK t \in T : \A u \in T : t <= u
  <2>1. T \in SUBSET Nat
    OBVIOUS
  <2> HIDE DEF T
  <2> QED BY <1>1, <2>1, LeastNatural
<1>3. t \in 1 .. m /\ t \in 1 .. k /\ t - 1 \in 0 .. m
  OBVIOUS
<1>4. f[t - 1] = g[t - 1]
  <2>1. t - 1 \notin T
    BY <1>2, <1>3
  <2> QED BY <1>3, <2>1
<1>5. f[t] = g[t]
  BY <1>3, <1>4 DEF Doublings
<1> QED
  BY <1>2, <1>5

\* A rate that has reached the ceiling stays there.
LEMMA CeilingStays ==
    ASSUME NEW k \in Nat, NEW m \in 0 .. k, NEW f \in Doublings(k), f[m] = GlobalQPM
    PROVE  f[k] = GlobalQPM
<1> DEFINE T == {i \in m .. k : f[i] # GlobalQPM}
<1>1. SUFFICES ASSUME T # {} PROVE FALSE
  OBVIOUS
<1>2. PICK t \in T : \A u \in T : t <= u
  <2>1. T \in SUBSET Nat
    OBVIOUS
  <2> HIDE DEF T
  <2> QED BY <1>1, <2>1, LeastNatural
<1>3. t \in 1 .. k /\ t - 1 \in m .. k
  OBVIOUS
<1>4. f[t - 1] = GlobalQPM
  <2>1. t - 1 \notin T
    BY <1>2, <1>3
  <2> QED BY <1>3, <2>1
<1>5. f[t] = GlobalQPM
  BY <1>3, <1>4, QuotaAssumption DEF Doublings, Doubled
<1> QED
  BY <1>2, <1>5

\* The intervals not used yet are what QuietIntervals counts.
LEMMA WholeIntervals ==
    ASSUME NEW k \in Nat, NEW q \in 0 .. RecoveryInterval - 1,
           NEW t \in Nat, t = k * RecoveryInterval + q
    PROVE  t \div RecoveryInterval = k
<1> DEFINE d == t \div RecoveryInterval
<1>1. RecoveryInterval \in Nat /\ RecoveryInterval > 0
  BY TimeAssumption
<1>2. d \in Int /\ d * RecoveryInterval <= t /\ t < (d + 1) * RecoveryInterval
  BY <1>1
<1> HIDE DEF d
<1>3. ~(d < k)
  <2>1. ASSUME d < k PROVE (d + 1) * RecoveryInterval <= k * RecoveryInterval
    BY <1>1, <1>2, <2>1
  <2> QED BY <1>1, <1>2, <2>1
<1>4. ~(d > k)
  <2>1. ASSUME d > k PROVE (k + 1) * RecoveryInterval <= d * RecoveryInterval
    BY <1>1, <1>2, <2>1
  <2>2. (k + 1) * RecoveryInterval = k * RecoveryInterval + RecoveryInterval
    BY <1>1
  <2> QED BY <1>1, <1>2, <2>1, <2>2
<1> QED
  BY <1>2, <1>3, <1>4 DEF d

\* One quiet interval more.
LEMMA OneMore ==
    ASSUME NEW k \in Nat, NEW f \in Doublings(k)
    PROVE  \E g \in Doublings(k + 1) : g[0] = f[0] /\ g[k + 1] = Doubled(f[k])
<1> DEFINE g == [i \in 0 .. k + 1 |-> IF i = k + 1 THEN Doubled(f[k]) ELSE f[i]]
<1>1. f \in [0 .. k -> 1 .. GlobalQPM] /\ \A i \in 1 .. k : f[i] = Doubled(f[i - 1])
  BY DEF Doublings
<1>2. Doubled(f[k]) \in 1 .. GlobalQPM
  BY <1>1, QuotaAssumption DEF Doubled
<1>3. g \in [0 .. k + 1 -> 1 .. GlobalQPM]
  BY <1>1, <1>2
<1>4. ASSUME NEW i \in 1 .. k + 1 PROVE g[i] = Doubled(g[i - 1])
  <2>1. i \in 0 .. k + 1 /\ i - 1 \in 0 .. k + 1 /\ i - 1 # k + 1
    OBVIOUS
  <2>2. g[i - 1] = f[i - 1]
    BY <2>1
  <2>3. CASE i = k + 1
    BY <2>1, <2>2, <2>3
  <2>4. CASE i \in 1 .. k
    BY <1>1, <2>1, <2>2, <2>4
  <2> QED BY <2>3, <2>4
<1>5. g[0] = f[0] /\ g[k + 1] = Doubled(f[k])
  OBVIOUS
<1> HIDE DEF g
<1> QED
  BY <1>3, <1>4, <1>5 DEF Doublings

\* What is left of a run of the loop after its first m turns.
LEMMA TheRest ==
    ASSUME NEW k \in Nat, NEW m \in 0 .. k, NEW f \in Doublings(k)
    PROVE  \E g \in Doublings(k - m) : g[0] = f[m] /\ g[k - m] = f[k]
<1> DEFINE g == [i \in 0 .. k - m |-> f[i + m]]
<1>1. f \in [0 .. k -> 1 .. GlobalQPM] /\ \A i \in 1 .. k : f[i] = Doubled(f[i - 1])
  BY DEF Doublings
<1>2. \A i \in 0 .. k - m : i + m \in 0 .. k /\ g[i] = f[i + m]
  OBVIOUS
<1>3. g \in [0 .. k - m -> 1 .. GlobalQPM]
  BY <1>1, <1>2
<1>4. ASSUME NEW i \in 1 .. k - m PROVE g[i] = Doubled(g[i - 1])
  <2>1. i + m \in 1 .. k /\ i - 1 \in 0 .. k - m /\ i \in 0 .. k - m
        /\ (i - 1) + m = (i + m) - 1
    OBVIOUS
  <2>2. f[i + m] = Doubled(f[(i + m) - 1])
    BY <1>1, <2>1
  <2>3. g[i - 1] = f[(i + m) - 1]
    BY <1>2, <2>1
  <2> HIDE DEF g
  <2> QED BY <1>2, <2>1, <2>2, <2>3
<1>5. g[0] = f[m] /\ g[k - m] = f[k]
  BY <1>2
<1> HIDE DEF g
<1> QED
  BY <1>3, <1>4, <1>5 DEF Doublings

\* A recovery brings the rate to what has been earned, and keeps the account.
LEMMA RateRecovered ==
    ASSUME TypeOK, RateInv, NEW r \in Recovered
    PROVE  /\ r.qpm = earned
           /\ Recover(r) /\ UNCHANGED <<now, rateHistory>> => RateInv'
<1>1. /\ r.qpm \in qpm .. GlobalQPM /\ r.steps \in 0 .. QuietIntervals
      /\ r.steps = QuietIntervals \/ r.qpm = GlobalQPM
      /\ qpm \in 1 .. GlobalQPM /\ r.steps \in Nat
  BY DEF Recovered, TypeOK
<1>2. PICK g \in [0 .. r.steps -> qpm .. GlobalQPM] :
          /\ g[0] = qpm /\ g[r.steps] = r.qpm
          /\ \A i \in 1 .. r.steps : g[i - 1] < GlobalQPM /\ g[i] = Doubled(g[i - 1])
  BY DEF Recovered
<1>3. g \in Doublings(r.steps)
  BY <1>1, <1>2 DEF Doublings
<1>4. CASE lastRateLimited = NoTime
  <2>1. r.steps = 0 /\ r.qpm = GlobalQPM /\ earned = GlobalQPM /\ limited = NoTime
    BY <1>1, <1>4 DEF QuietIntervals, RateInv
  <2> QED
    BY <1>4, <2>1 DEF RateInv, Recover, RecoveredAt, rateHistory
<1>5. CASE lastRateLimited # NoTime
  <2>1. PICK k \in Nat :
            /\ now = lastRateLimited + k * RecoveryInterval + quietTime
            /\ \E rate \in Doublings(k) : rate[0] = qpm /\ rate[k] = earned
    BY <1>5 DEF RateInv
  <2>2. PICK f \in Doublings(k) : f[0] = qpm /\ f[k] = earned
    BY <2>1
  <2>3. lastRateLimited \in Nat /\ now \in Nat /\ quietTime \in 0 .. RecoveryInterval - 1
        /\ limited # NoTime
    BY <1>5 DEF TypeOK, RateInv
  <2>4. k * RecoveryInterval \in Nat
    BY TimeAssumption
  <2>5. QuietIntervals = k
    <3>1. now - lastRateLimited \in Nat
          /\ now - lastRateLimited = k * RecoveryInterval + quietTime
      BY <2>1, <2>3, <2>4
    <3> QED BY <1>5, <2>3, <3>1, WholeIntervals DEF QuietIntervals
  <2>6. r.steps \in 0 .. k
    BY <1>1, <2>5
  <2>7. f[r.steps] = r.qpm
    BY <1>2, <1>3, <2>2, <2>6, OneOutcome
  <2>8. r.qpm = earned
    <3>1. CASE r.steps = k
      BY <2>2, <2>7, <3>1
    <3>2. CASE r.qpm = GlobalQPM
      BY <2>2, <2>6, <2>7, <3>2, CeilingStays
    <3> QED BY <1>1, <2>5, <3>1, <3>2
  <2>9. ASSUME Recover(r), UNCHANGED <<now, rateHistory>> PROVE RateInv'
    <3>1. RecoveredAt(r) = lastRateLimited + r.steps * RecoveryInterval
      <4>1. CASE r.steps = 0
        BY <2>3, <4>1, TimeAssumption DEF RecoveredAt
      <4>2. CASE r.steps # 0
        BY <4>2 DEF RecoveredAt
      <4> QED BY <4>1, <4>2
    <3>2. r.steps * RecoveryInterval \in Nat
          /\ k * RecoveryInterval
                = r.steps * RecoveryInterval + (k - r.steps) * RecoveryInterval
          /\ (k - r.steps) * RecoveryInterval \in Int
      BY <1>1, <2>6, TimeAssumption
    <3>3. lastRateLimited' = lastRateLimited + r.steps * RecoveryInterval /\ qpm' = r.qpm
          /\ lastRateLimited' # NoTime
      BY <2>3, <2>9, <3>1, <3>2 DEF Recover, NoTime
    <3>4. now = (lastRateLimited + r.steps * RecoveryInterval)
                    + (k - r.steps) * RecoveryInterval + quietTime
      <4> DEFINE all  == k * RecoveryInterval
                 used == r.steps * RecoveryInterval
                 rest == (k - r.steps) * RecoveryInterval
      <4>1. /\ used \in Nat /\ rest \in Int /\ all = used + rest
            /\ now = lastRateLimited + all + quietTime
        BY <2>1, <3>2
      <4> HIDE DEF all, used, rest
      <4>2. now = (lastRateLimited + used) + rest + quietTime
        BY <2>3, <4>1
      <4> QED BY <4>2 DEF used, rest
    <3>5. PICK h \in Doublings(k - r.steps) : h[0] = f[r.steps] /\ h[k - r.steps] = f[k]
      BY <2>6, TheRest
    <3>6. k - r.steps \in Nat
      BY <2>6
    <3>7. UNCHANGED <<now, limited, quietTime, earned>>
      BY <2>9 DEF rateHistory
    <3>8. now' = lastRateLimited' + (k - r.steps) * RecoveryInterval + quietTime'
      BY <3>3, <3>4, <3>7
    <3>9. Doublings(k - r.steps)' = Doublings(k - r.steps)
      BY DEF Doublings, Doubled
    <3> QED
      BY <2>2, <2>3, <2>7, <3>3, <3>5, <3>6, <3>7, <3>8, <3>9 DEF RateInv
  <2> QED BY <2>8, <2>9
<1> QED
  BY <1>4, <1>5

LEMMA RateInit == Init => RateInv
BY DEF Init, RateInv

LEMMA RateStep == TypeOK /\ RateInv /\ [Next]_vars => RateInv'
<1> SUFFICES ASSUME TypeOK, RateInv, [Next]_vars PROVE RateInv'
  OBVIOUS
<1>1. CASE UNCHANGED <<now, clockVars, rateHistory>>
  BY <1>1 DEF RateInv, Doublings, Doubled, clockVars, rateHistory
<1>2. CASE Tick
  <2>1. now' = now + 1 /\ UNCHANGED clockVars
    BY <1>2 DEF Tick
  <2>2. CASE limited = NoTime
    BY <1>2, <2>1, <2>2 DEF Tick, RateInv, clockVars, rateHistory
  <2>3. CASE limited # NoTime
    <3>1. PICK k \in Nat :
              /\ now = lastRateLimited + k * RecoveryInterval + quietTime
              /\ \E rate \in Doublings(k) : rate[0] = qpm /\ rate[k] = earned
      BY <2>3 DEF RateInv
    <3>2. PICK f \in Doublings(k) : f[0] = qpm /\ f[k] = earned
      BY <3>1
    <3>3. lastRateLimited \in Nat /\ now \in Nat /\ quietTime \in 0 .. RecoveryInterval - 1
          /\ k * RecoveryInterval \in Nat /\ RecoveryInterval \in Nat
          /\ lastRateLimited # NoTime
      BY <2>3, TimeAssumption DEF TypeOK, RateInv
    <3>4. CASE quietTime + 1 = RecoveryInterval
      <4>1. limited' = limited /\ quietTime' = 0 /\ earned' = Doubled(earned)
        BY <1>2, <2>3, <3>4 DEF Tick, RateEarned
      <4>2. PICK g \in Doublings(k + 1) : g[0] = f[0] /\ g[k + 1] = Doubled(f[k])
        BY OneMore
      <4>3. (k + 1) * RecoveryInterval = k * RecoveryInterval + RecoveryInterval
        BY <3>3
      <4>4. now' = lastRateLimited' + (k + 1) * RecoveryInterval + quietTime'
        BY <2>1, <3>1, <3>3, <3>4, <4>1, <4>3 DEF clockVars
      <4>5. Doublings(k + 1)' = Doublings(k + 1) /\ k + 1 \in Nat
        BY DEF Doublings, Doubled
      <4> QED
        BY <2>1, <2>3, <3>2, <3>3, <4>1, <4>2, <4>4, <4>5 DEF RateInv, clockVars
    <3>5. CASE quietTime + 1 # RecoveryInterval
      <4>1. limited' = limited /\ quietTime' = quietTime + 1 /\ earned' = earned
        BY <1>2, <2>3, <3>5 DEF Tick, RateEarned
      <4>2. now' = lastRateLimited' + k * RecoveryInterval + quietTime'
        BY <2>1, <3>1, <3>3, <4>1 DEF clockVars
      <4>3. Doublings(k)' = Doublings(k)
        BY DEF Doublings, Doubled
      <4> QED
        BY <2>1, <2>3, <3>2, <3>3, <4>1, <4>2, <4>3 DEF RateInv, clockVars
    <3> QED BY <3>4, <3>5
  <2> QED BY <2>2, <2>3
<1>3. ASSUME NEW c \in Callers, Admit(c) \/ Full(c) \/ CurrentQPM(c) PROVE RateInv'
  <2>1. PICK r \in Recovered : Recover(r)
    BY <1>3 DEF Admit, Full, CurrentQPM
  <2>2. UNCHANGED <<now, rateHistory>>
    BY <1>3 DEF Admit, Full, CurrentQPM, historyVars
  <2> QED BY <2>1, <2>2, RateRecovered
<1>4. ASSUME NEW c \in Callers, NoteRateLimited(c) PROVE RateInv'
  <2>1. PICK r \in Recovered : qpm' = Halved(r.qpm)
    BY <1>4 DEF NoteRateLimited
  <2>2. /\ lastRateLimited' = now /\ limited' = now /\ quietTime' = 0 /\ now' = now
        /\ earned' = Halved(earned)
    BY <1>4 DEF NoteRateLimited, RateEarned
  <2>3. qpm' = earned' /\ qpm' \in 1 .. GlobalQPM
    BY <2>1, <2>2, RateRecovered, RecoveredType
  <2>4. now \in Nat /\ now # NoTime /\ now = now + 0 * RecoveryInterval + 0
    BY TimeAssumption DEF TypeOK, NoTime
  <2>5. [i \in 0 .. 0 |-> qpm'] \in Doublings(0)'
    BY <2>3 DEF Doublings
  <2> QED
    BY <2>2, <2>3, <2>4, <2>5 DEF RateInv
<1> QED
  BY <1>1, <1>2, <1>3, <1>4
     DEF Next, Step, Call, Cancel, Acquire, Ready, QueueDone, Withdraw,
         FoundGranted, HandBack, OwnerDone, GiveUp, WakeUp, SleepDone, Send,
         FnReturns, Return, Quiet, vars, historyVars

\* The admissions of the last Minute that count against the lowered rate.
SinceLimited == {a \in InMinute(admitted, now) : a.at > limited}

WithinEarned == Cardinality(SinceLimited) <= earned

LEMMA WithinInit == Init => WithinEarned
<1> SUFFICES ASSUME Init PROVE WithinEarned
  OBVIOUS
<1>1. SinceLimited = {}
  BY DEF Init, SinceLimited, InMinute
<1>2. Cardinality(SinceLimited) = 0
  BY <1>1, FS_EmptySet
<1> QED
  BY <1>2, QuotaAssumption DEF Init, WithinEarned

\* An admission finds its window below the recovered rate, which is the earned one.
LEMMA WithinAdmit ==
    ASSUME TypeOK, QuotaInv, RateInv, WithinEarned, NEW c \in Callers, Admit(c)
    PROVE  WithinEarned'
<1> DEFINE call == [at |-> now, seq |-> seqOf[c], dev |-> DeviceOf[c]]
<1>1. PICK r \in Recovered : ~GlobalFull(r.qpm)
  BY DEF Admit
<1>2. r.qpm = earned /\ earned' = earned /\ earned \in Nat
  BY RateRecovered DEF Admit, rateHistory, TypeOK
<1>3. RecentCalls = {a \in admitted : a.at > now - Minute}
  BY WindowsExact
<1>4. IsFiniteSet(RecentCalls)
  BY <1>3, FS_Subset DEF QuotaInv
<1>5. admitted' = admitted \cup {call} /\ now' = now
  BY DEF Admit
<1> HIDE DEF call
<1>6. SinceLimited' \subseteq RecentCalls \cup {call}
  BY <1>3, <1>5, TimeAssumption DEF SinceLimited, InMinute, TypeOK
<1>7. /\ IsFiniteSet(RecentCalls \cup {call}) /\ Cardinality(RecentCalls) \in Nat
      /\ Cardinality(RecentCalls \cup {call}) <= Cardinality(RecentCalls) + 1
      /\ Cardinality(RecentCalls \cup {call}) \in Nat
  <2>1. Cardinality(RecentCalls) \in Nat
    BY <1>4, FS_CardinalityType
  <2>2. /\ IsFiniteSet(RecentCalls \cup {call})
        /\ \/ Cardinality(RecentCalls \cup {call}) = Cardinality(RecentCalls)
           \/ Cardinality(RecentCalls \cup {call}) = Cardinality(RecentCalls) + 1
    BY <1>4, FS_AddElement
  <2> QED BY <2>1, <2>2
<1>8. /\ Cardinality(SinceLimited') <= Cardinality(RecentCalls \cup {call})
      /\ Cardinality(SinceLimited') \in Nat
  BY <1>6, <1>7, FS_Subset, FS_CardinalityType
<1>9. ~(Cardinality(RecentCalls) >= r.qpm)
  BY <1>1 DEF GlobalFull
<1>10. Cardinality(SinceLimited') <= earned'
  BY <1>2, <1>7, <1>8, <1>9
<1> QED
  BY <1>10 DEF WithinEarned

LEMMA WithinStep ==
    TypeOK /\ QuotaInv /\ RateInv /\ WithinEarned /\ [Next]_vars => WithinEarned'
<1> SUFFICES ASSUME TypeOK, QuotaInv, RateInv, WithinEarned, [Next]_vars
             PROVE  WithinEarned'
  OBVIOUS
<1>1. CASE UNCHANGED <<now, admitted, rateHistory>>
  BY <1>1 DEF WithinEarned, SinceLimited, InMinute, rateHistory
<1>2. CASE Tick
  <2>1. now' = now + 1 /\ UNCHANGED <<admitted, limited>>
        /\ (earned' = earned \/ earned' = Doubled(earned))
    BY <1>2 DEF Tick, RateEarned, rateHistory
  <2>2. now \in Nat /\ Minute \in Nat /\ admitted \in SUBSET Admission
        /\ earned \in 1 .. GlobalQPM /\ limited \in Int
    BY TimeAssumption DEF TypeOK, NoTime
  <2>3. SinceLimited' \subseteq SinceLimited
    BY <2>1, <2>2 DEF SinceLimited, InMinute, Admission, QuotaInv
  <2>4. earned' \in Nat /\ earned <= earned'
    BY <2>1, <2>2, QuotaAssumption DEF Doubled
  <2>5. IsFiniteSet(SinceLimited)
    BY FS_Subset DEF SinceLimited, InMinute, QuotaInv
  <2>6. /\ Cardinality(SinceLimited') <= Cardinality(SinceLimited)
        /\ Cardinality(SinceLimited) \in Nat /\ Cardinality(SinceLimited') \in Nat
    BY <2>3, <2>5, FS_Subset, FS_CardinalityType
  <2>7. Cardinality(SinceLimited') <= earned'
    BY <2>2, <2>4, <2>6 DEF WithinEarned
  <2> QED BY <2>7 DEF WithinEarned
<1>3. ASSUME NEW c \in Callers, NoteRateLimited(c) PROVE WithinEarned'
  <2>1. limited' = now /\ UNCHANGED <<now, admitted>>
    BY <1>3 DEF NoteRateLimited, RateEarned
  <2>2. SinceLimited' = {}
    BY <2>1 DEF SinceLimited, InMinute, QuotaInv, TypeOK, Admission
  <2>3. earned' \in Nat
    BY <1>3, TypeStep DEF TypeOK
  <2>4. Cardinality(SinceLimited') = 0
    BY <2>2, FS_EmptySet
  <2>5. Cardinality(SinceLimited') <= earned'
    BY <2>3, <2>4
  <2> QED BY <2>5 DEF WithinEarned
<1> QED
  BY <1>1, <1>2, <1>3, WithinAdmit
     DEF Next, Step, Call, Cancel, Acquire, Ready, QueueDone, Withdraw,
         FoundGranted, HandBack, OwnerDone, Full, GiveUp, WakeUp, SleepDone, Send,
         FnReturns, Return, CurrentQPM, Quiet, vars, historyVars

\* The rate a 429 lowers holds at once, and comes back exactly as quiet time earns
\* it, although recoverRate runs late and several intervals at a time: the
\* admissions of the last Minute made since the 429 stay within it
\* (scheduler.go:160-195).
THEOREM BackoffCorrect == Spec => []BackoffHolds
<1>1. TypeOK /\ RateInv /\ WithinEarned => BackoffHolds
  BY RateRecovered DEF BackoffHolds, WithinEarned, SinceLimited
<1> QED
  BY <1>1, RateInit, RateStep, WithinInit, WithinStep, TypeInit, TypeStep, QuotaInit,
     QuotaStep, PTL DEF Spec

-----------------------------------------------------------------------------
(* The commands on the wire *)

\* Every command was stamped, once, and before it left.  What leaves is running,
\* so a command has left before the next one is stamped: of two commands the one
\* that was stamped first is also the one that left first, and even before the
\* other was stamped.
WireInv ==
    /\ IsFiniteSet(wire)
    /\ \A a, b \in admitted : a.seq = b.seq => a = b
    /\ \A s \in wire : \E a \in admitted : a.seq = s.seq
    /\ \A s \in wire, a \in admitted : a.seq = s.seq => a.at <= s.at
    /\ \A s \in wire : s.at <= now
    /\ \A s, u \in wire : s.seq = u.seq => s = u
    /\ \A s, u \in wire, a, b \in admitted :
          a.seq = s.seq /\ b.seq = u.seq /\ s # u => s.at <= b.at \/ u.at <= a.at

\* The command that is being run is the last one stamped.
RunningInv ==
    \A c \in Callers : pc[c] = "running" =>
        /\ \E a \in admitted : a.seq = seqOf[c]
        /\ \A a \in admitted, s \in wire :
              a.seq = seqOf[c] => s.seq = seqOf[c] \/ s.at <= a.at

LEMMA WireInit == Init => WireInv /\ RunningInv
BY FS_EmptySet DEF Init, WireInv, RunningInv

LEMMA WireAdmit ==
    ASSUME TypeOK, SlotInv, QuotaInv, NumberInv, WireInv, NEW c \in Callers, Admit(c)
    PROVE  WireInv' /\ RunningInv'
<1> DEFINE call == [at |-> now, seq |-> seqOf[c], dev |-> DeviceOf[c]]
<1>1. /\ pc[c] = "owner" /\ admitted' = admitted \cup {call}
      /\ UNCHANGED <<now, seqOf, wire>>
  BY DEF Admit, callVars
<1>2. \A d \in Callers : pc'[d] = "running" => d = c
  <2>1. \A d \in Callers : Owns(d) => d = c
    BY <1>1 DEF SlotInv, Owns, Owning
  <2> QED BY <2>1 DEF Admit, Goto, TypeOK, Owns, Owning
<1>3. \A a \in admitted : a.seq # seqOf[c]
  BY <1>1 DEF NumberInv
<1>4. call.at = now /\ call.seq = seqOf[c]
  OBVIOUS
<1> HIDE DEF call
<1>5. \A s \in wire : s.seq # call.seq
  BY <1>3, <1>4 DEF WireInv
<1>6. WireInv'
  BY <1>1, <1>3, <1>4, <1>5 DEF WireInv
<1>7. RunningInv'
  BY <1>1, <1>2, <1>3, <1>4 DEF RunningInv, WireInv
<1> QED
  BY <1>6, <1>7

LEMMA WireSend ==
    ASSUME TypeOK, SlotInv, QuotaInv, WireInv, RunningInv, NEW c \in Callers, Send(c)
    PROVE  WireInv' /\ RunningInv'
<1> DEFINE sent == [at |-> now, seq |-> seqOf[c]]
<1>1. /\ pc[c] = "running" /\ \A s \in wire : s.seq # seqOf[c]
      /\ wire' = wire \cup {sent}
      /\ UNCHANGED <<now, pc, seqOf, admitted>>
  BY DEF Send, callVars
<1>2. \A d \in Callers : pc[d] = "running" => d = c
  BY <1>1 DEF SlotInv, Owns, Owning
<1>3. sent.at = now /\ sent.seq = seqOf[c]
  OBVIOUS
<1> HIDE DEF sent
<1>4. IsFiniteSet(wire')
  BY <1>1, FS_AddElement DEF WireInv
<1>5. /\ \A a \in admitted : a.at <= now /\ a.at \in Nat
      /\ \A s \in wire : s.at <= now /\ s.at \in Nat
  BY DEF TypeOK, QuotaInv, WireInv, Admission, Command
<1>6. \A s \in wire, a, b \in admitted :
        b.seq = seqOf[c] /\ a.seq = s.seq => s.at <= b.at
  BY <1>1 DEF RunningInv
<1>7. \A s \in wire' : \E a \in admitted : a.seq = s.seq
  BY <1>1, <1>3 DEF WireInv, RunningInv
<1>8. \A s, u \in wire', a, b \in admitted :
        a.seq = s.seq /\ b.seq = u.seq /\ s # u => s.at <= b.at \/ u.at <= a.at
  BY <1>1, <1>3, <1>6 DEF WireInv
<1>9. WireInv'
  <2>1. \A s \in wire', a \in admitted' : a.seq = s.seq => a.at <= s.at
    BY <1>1, <1>3, <1>5 DEF WireInv
  <2>2. \A s \in wire' : s.at <= now'
    BY <1>1, <1>3, <1>5 DEF TypeOK
  <2>3. \A s, u \in wire' : s.seq = u.seq => s = u
    BY <1>1, <1>3 DEF WireInv
  <2> QED BY <1>1, <1>4, <1>7, <1>8, <2>1, <2>2, <2>3 DEF WireInv
<1>10. RunningInv'
  BY <1>1, <1>2, <1>3 DEF RunningInv
<1> QED
  BY <1>9, <1>10

\* Nothing is stamped and nothing leaves; who runs, ran under the same number.
LEMMA WireQuiet ==
    ASSUME TypeOK, WireInv, RunningInv, UNCHANGED <<admitted, wire>>,
           now' \in Nat, now <= now',
           \A c \in Callers : pc'[c] = "running" => pc[c] = "running" /\ seqOf'[c] = seqOf[c]
    PROVE  WireInv' /\ RunningInv'
<1>1. \A s \in wire : s.at <= now'
  BY DEF WireInv, TypeOK, Command
<1>2. WireInv'
  BY <1>1 DEF WireInv
<1>3. RunningInv'
  BY DEF RunningInv
<1> QED
  BY <1>2, <1>3

LEMMA WireStep ==
    TypeOK /\ SlotInv /\ QuotaInv /\ NumberInv /\ WireInv /\ RunningInv /\ [Next]_vars
        => WireInv' /\ RunningInv'
<1> SUFFICES ASSUME TypeOK, SlotInv, QuotaInv, NumberInv, WireInv, RunningInv, [Next]_vars
             PROVE  WireInv' /\ RunningInv'
  OBVIOUS
<1>1. ASSUME NEW c \in Callers,
             \/ Call(c) \/ Acquire(c) \/ Ready(c) \/ QueueDone(c) \/ Withdraw(c)
             \/ FoundGranted(c) \/ HandBack(c) \/ OwnerDone(c) \/ Full(c) \/ GiveUp(c)
             \/ WakeUp(c) \/ SleepDone(c) \/ FnReturns(c) \/ Return(c)
             \/ NoteRateLimited(c) \/ CurrentQPM(c)
      PROVE  WireInv' /\ RunningInv'
  <2>1. UNCHANGED <<now, admitted, wire>> /\ \E label : Goto(c, label) /\ label # "running"
    BY <1>1 DEF Call, Acquire, Ready, QueueDone, Withdraw, FoundGranted, HandBack,
                OwnerDone, Full, GiveUp, WakeUp, SleepDone, FnReturns, Return,
                NoteRateLimited, CurrentQPM, historyVars
  <2>2. \A d \in Callers \ {c} : seqOf'[d] = seqOf[d]
    BY <1>1 DEF TypeOK, Call, Acquire, Ready, QueueDone, Withdraw, FoundGranted, HandBack,
                OwnerDone, Full, GiveUp, WakeUp, SleepDone, FnReturns, Return,
                NoteRateLimited, CurrentQPM, callVars, Forget
  <2>3. \A d \in Callers : pc'[d] = "running" => d # c /\ pc[d] = "running"
    BY <2>1 DEF TypeOK, Goto
  <2> QED BY <2>1, <2>2, <2>3, WireQuiet DEF TypeOK
<1>2. CASE Tick
  <2>1. now' = now + 1 /\ UNCHANGED <<pc, seqOf, admitted, wire>>
    BY <1>2 DEF Tick, historyVars
  <2> QED BY <2>1, WireQuiet DEF TypeOK
<1>3. CASE UNCHANGED <<now, pc, seqOf, admitted, wire>>
  BY <1>3, WireQuiet DEF TypeOK
<1> QED
  BY <1>1, <1>2, <1>3, WireAdmit, WireSend
     DEF Next, Step, Cancel, Quiet, vars, callVars, historyVars

\* Of the commands that leave in a Minute, one at most was stamped before it.
LEMMA WireWindow ==
    ASSUME TypeOK, QuotaInv, WireInv, NEW t \in 0 .. now
    PROVE  Cardinality({s \in wire : t - Minute < s.at /\ s.at <= t}) <= GlobalQPM + 1
<1> DEFINE sent == {s \in wire : t - Minute < s.at /\ s.at <= t}
           stamped == InMinute(admitted, t)
           stampOf(s) == CHOOSE a \in admitted : a.seq = s.seq
           inside == {s \in sent : stampOf(s) \in stamped}
           f == [s \in inside |-> stampOf(s)]
<1>0. t \in Nat /\ Minute \in Nat /\ now \in Nat
  BY TimeAssumption DEF TypeOK
<1>1. \A s \in wire : stampOf(s) \in admitted /\ stampOf(s).seq = s.seq
  BY DEF WireInv
<1>2. /\ IsFiniteSet(stamped) /\ Cardinality(stamped) \in Nat
      /\ Cardinality(stamped) <= GlobalQPM
  <2>1. IsFiniteSet(stamped)
    BY FS_Subset DEF QuotaInv, InMinute
  <2> QED BY <2>1, FS_CardinalityType DEF QuotaInv, GlobalQuota
<1>3. \A s \in sent, u \in sent :
        stampOf(s) \notin stamped /\ stampOf(u) \notin stamped => s = u
  <2> SUFFICES ASSUME NEW s \in sent, NEW u \in sent, stampOf(s) \notin stamped,
                      stampOf(u) \notin stamped, s # u
               PROVE  FALSE
    OBVIOUS
  <2>1. PICK a \in admitted : a = stampOf(s) /\ a.seq = s.seq
    BY <1>1
  <2>2. PICK b \in admitted : b = stampOf(u) /\ b.seq = u.seq
    BY <1>1
  <2>3. a.at <= s.at /\ b.at <= u.at /\ (s.at <= b.at \/ u.at <= a.at)
    BY <2>1, <2>2 DEF WireInv
  <2>4. {a.at, b.at, s.at, u.at} \subseteq Nat
    BY DEF TypeOK, Admission, Command
  <2>5. a \notin stamped /\ b \notin stamped
    BY <2>1, <2>2
  <2>6. t - Minute < s.at /\ s.at <= t /\ t - Minute < u.at /\ u.at <= t
    OBVIOUS
  <2> HIDE DEF sent, stampOf
  <2> QED BY <1>0, <2>3, <2>4, <2>5, <2>6 DEF InMinute
<1>4. /\ IsFiniteSet(inside) /\ Cardinality(inside) \in Nat
      /\ Cardinality(inside) <= GlobalQPM
  <2>1. \A s, u \in inside : stampOf(s) = stampOf(u) => s = u
    <3>1. \A s, u \in wire : stampOf(s) = stampOf(u) => s.seq = u.seq
      BY <1>1
    <3> HIDE DEF stampOf
    <3> QED BY <3>1 DEF WireInv
  <2>2. f \in [inside -> stamped]
    <3> HIDE DEF stampOf
    <3> QED OBVIOUS
  <2>3. \A s, u \in inside : f[s] = f[u] => s = u
    <3> HIDE DEF stampOf, inside
    <3> QED BY <2>1
  <2> HIDE DEF f, inside, stamped
  <2>4. f \in Injection(inside, stamped)
    BY <2>2, <2>3 DEF Injection, IsInjective
  <2>5. IsFiniteSet(inside) /\ Cardinality(inside) <= Cardinality(stamped)
    BY <1>2, <2>4, FS_Injection
  <2> QED BY <1>2, <2>5, FS_CardinalityType, QuotaAssumption
<1>5. CASE sent = inside
  <2>1. Cardinality(sent) <= GlobalQPM + 1
    <3> HIDE DEF inside, sent
    <3> QED BY <1>4, <1>5, QuotaAssumption
  <2> QED BY <2>1
<1>6. CASE sent # inside
  <2>1. PICK early \in sent : early \notin inside
    BY <1>6
  <2>2. sent = inside \cup {early}
    BY <1>3, <2>1
  <2> HIDE DEF inside, sent
  <2>3. \/ Cardinality(sent) = Cardinality(inside)
        \/ Cardinality(sent) = Cardinality(inside) + 1
    BY <1>4, <2>2, FS_AddElement
  <2>4. Cardinality(sent) <= GlobalQPM + 1
    BY <1>4, <2>3, QuotaAssumption
  <2> QED BY <2>4 DEF sent
<1> QED
  BY <1>5, <1>6

\* No Minute, wherever it starts, has more than GlobalQPM + 1 commands on the
\* wire, however long they take to leave after their stamp (scheduler.go:65, :135).
THEOREM WireCorrect == Spec => []WireQuota
<1>1. TypeOK /\ QuotaInv /\ WireInv => WireQuota
  BY WireWindow DEF WireQuota
<1> QED
  BY <1>1, TypeInit, TypeStep, SlotInit, SlotStep, QuotaInit, QuotaStep, NumberInit,
     NumberStep, WireInit, WireStep, PTL DEF Spec
=============================================================================
