------------------------------ MODULE Scheduler ------------------------------
(***************************************************************************)
(* The SDM command scheduler (internal/scheduler/scheduler.go).  Every     *)
(* command the process sends to Google goes through one Scheduler.Do.      *)
(* Do takes a single slot, handed over by priority and then by arrival,    *)
(* waits until the command fits both quota windows, stamps it and runs it  *)
(* while it still holds the slot.  A call that does not fit gives the slot *)
(* back, sleeps, and takes its place again under its old arrival number.   *)
(*                                                                         *)
(* One action is one critical section of s.mu, or one choice of a select.  *)
(* A caller is one call site of one camera session (its connects and       *)
(* stops, or its renewals), so its device and its priority are fixed.      *)
(*                                                                         *)
(* The two time windows are slices sorted by time in the code.  They are   *)
(* sets of admissions here: the clock is read under s.mu and never runs    *)
(* backwards, so prune keeps a suffix and element 0 is the oldest one.     *)
(***************************************************************************)
EXTENDS Integers, FiniteSets

CONSTANTS
    Callers,            \* call sites of Do
    Devices,            \* cameras
    DeviceOf,           \* the camera a caller's commands address
    PriorityOf,         \* the priority a caller passes to Do
    GlobalQPM,          \* Options.GlobalQPM
    DeviceQPH,          \* Options.DeviceQPH
    Minute,             \* the global window, in ticks of the clock
    Hour,               \* the device window, and deviceSweepInterval
    RecoveryInterval,   \* Options.RecoveryInterval
    Horizon,            \* bound: the clock stops here once nobody sleeps
    MaxCalls            \* bound: calls of Do in one behaviour

PriorityRenewal == 0
PriorityConnect == 1
Priorities == {PriorityRenewal, PriorityConnect}

\* The zero time.Time, which IsZero recognises.
NoTime == -1

\* One manager for each configured camera, with two call sites.
ASSUME CallersAssumption == IsFiniteSet(Callers)
ASSUME DeviceAssumption == DeviceOf \in [Callers -> Devices]
ASSUME PriorityAssumption == PriorityOf \in [Callers -> Priorities]
\* NewScheduler replaces every non-positive option by a default.
ASSUME QuotaAssumption == GlobalQPM \in Nat \ {0} /\ DeviceQPH \in Nat \ {0}
ASSUME TimeAssumption ==
    /\ Minute \in Nat \ {0}
    /\ Hour \in Nat \ {0}
    /\ RecoveryInterval \in Nat \ {0}
    /\ Horizon \in Nat
    /\ MaxCalls \in Nat

VARIABLES
    now,                \* the Clock
    qpm,                \* Scheduler.qpm
    lastRateLimited,    \* Scheduler.lastRateLimited
    globalCalls,        \* Scheduler.globalCalls
    deviceCalls,        \* Scheduler.deviceCalls; a missing key is {}
    lastDeviceSweep,    \* Scheduler.lastDeviceSweep
    queue,              \* Scheduler.queue: the callers whose waiter is in it
    seq,                \* Scheduler.seq
    holder,             \* Scheduler.holder
    pc,                 \* where each caller is in Do
    seqOf,              \* waiter.seq of a caller's call, 0 before acquire
    granted,            \* waiter.granted, until the caller has seen it
    wait,               \* what is left of the wait a caller has to sleep
    cancelled,          \* ctx.Done is closed for a caller's call
    admitted,           \* history: every command ever stamped
    wire,               \* history: when a command left for Google
    limited,            \* history: when NoteRateLimited was called last
    quietTime,          \* history: the time since, from the last whole
                        \* RecoveryInterval on
    earned              \* history: the rate that quiet time has earned

clockVars == <<qpm, lastRateLimited>>
windowVars == <<globalCalls, deviceCalls, lastDeviceSweep>>
slotVars == <<queue, holder, granted>>
callVars == <<seq, seqOf, wait, cancelled>>
rateHistory == <<limited, quietTime, earned>>
historyVars == <<admitted, wire, rateHistory>>
vars == <<now, clockVars, windowVars, slotVars, callVars, historyVars, pc>>

Labels == {"idle", "acquire", "queued", "withdraw", "handback", "owner",
           "giveup", "sleeping", "running", "return", "return429",
           "note", "report"}

\* The program points at which a caller holds the slot.
Owning == {"handback", "owner", "giveup", "running", "return", "return429"}

Admission == [at : Nat, seq : Nat, dev : Devices]
Command == [at : Nat, seq : Nat]

-----------------------------------------------------------------------------
(* Helpers *)

\* waiterQueue.Less
Less(c, d) == \/ PriorityOf[c] < PriorityOf[d]
              \/ PriorityOf[c] = PriorityOf[d] /\ seqOf[c] < seqOf[d]

\* prune: the calls strictly after the cutoff
Prune(calls, cutoff) == {a \in calls : a.at > cutoff}

Oldest(calls) == CHOOSE t \in {a.at : a \in calls} : \A a \in calls : t <= a.at

Larger(x, y) == IF x > y THEN x ELSE y

\* What one whole quiet interval, and one 429, make of a rate.
Doubled(rate) == IF 2 * rate > GlobalQPM THEN GlobalQPM ELSE 2 * rate
Halved(rate) == IF rate > 1 THEN rate \div 2 ELSE 1

QuietIntervals ==
    IF lastRateLimited = NoTime THEN 0
    ELSE (now - lastRateLimited) \div RecoveryInterval

(* recoverRate: the rate doubles once for every whole quiet interval, stops *)
(* at the ceiling, and lastRateLimited moves forward by the intervals used. *)
(* The set holds the one outcome of the loop.                               *)
Recovered ==
    {r \in [qpm : qpm .. GlobalQPM, steps : 0 .. QuietIntervals] :
        /\ r.steps = QuietIntervals \/ r.qpm = GlobalQPM
        /\ \E rate \in [0 .. r.steps -> qpm .. GlobalQPM] :
              /\ rate[0] = qpm /\ rate[r.steps] = r.qpm
              /\ \A i \in 1 .. r.steps :
                    rate[i - 1] < GlobalQPM /\ rate[i] = Doubled(rate[i - 1])}

\* Mutant of RecoveredAt: the intervals already used are counted again.
RecoveredAtUnmoved(r) == lastRateLimited

RecoveredAt(r) == IF r.steps = 0 THEN lastRateLimited
                  ELSE lastRateLimited + r.steps * RecoveryInterval

Recover(r) == /\ qpm' = r.qpm
              /\ lastRateLimited' = RecoveredAt(r)

\* waitFor prunes the global window, and either every device's or c's own.
RecentCalls == Prune(globalCalls, now - Minute)

SweepDue == lastDeviceSweep = NoTime \/ now - lastDeviceSweep >= Hour

\* Mutant of RecentDeviceCalls: the sweep prunes with the wrong cutoff.
RecentDeviceCallsShort(c) ==
    [d \in Devices |-> IF SweepDue \/ d = DeviceOf[c]
                       THEN Prune(deviceCalls[d], now - Minute)
                       ELSE deviceCalls[d]]

RecentDeviceCalls(c) ==
    [d \in Devices |-> IF SweepDue \/ d = DeviceOf[c]
                       THEN Prune(deviceCalls[d], now - Hour)
                       ELSE deviceCalls[d]]

\* Mutant of GlobalFull: off by one.
GlobalFullLate(rate) == Cardinality(RecentCalls) > rate

GlobalFull(rate) == Cardinality(RecentCalls) >= rate
DeviceFull(c) ==
    Cardinality(RecentDeviceCalls(c)[DeviceOf[c]]) >= DeviceQPH

\* The duration waitFor returns.  Pruned calls are younger than their window,
\* so it is positive exactly when one of the two windows is full.
WaitFor(c, rate) ==
    Larger(IF GlobalFull(rate)
           THEN Minute - (now - Oldest(RecentCalls)) ELSE 0,
           IF DeviceFull(c)
           THEN Hour - (now - Oldest(RecentDeviceCalls(c)[DeviceOf[c]]))
           ELSE 0)

Sweep == lastDeviceSweep' = IF SweepDue THEN now ELSE lastDeviceSweep

\* Mutant of Release: holder is cleared although a waiter has the grant.
ReleaseCleared ==
    /\ holder' = FALSE
    /\ \/ queue = {} /\ UNCHANGED <<queue, granted>>
       \/ \E w \in queue :
             /\ \A v \in queue \ {w} : Less(w, v)
             /\ queue' = queue \ {w}
             /\ granted' = [granted EXCEPT ![w] = TRUE]

\* Mutant of Release: arrival order only.
ReleaseFirstCome ==
    \/ /\ queue = {}
       /\ holder' = FALSE
       /\ UNCHANGED <<queue, granted>>
    \/ \E w \in queue :
          /\ \A v \in queue : seqOf[w] <= seqOf[v]
          /\ queue' = queue \ {w}
          /\ granted' = [granted EXCEPT ![w] = TRUE]
          /\ UNCHANGED holder

\* release: pass the slot to the first waiter, or free it.
Release ==
    \/ /\ queue = {}
       /\ holder' = FALSE
       /\ UNCHANGED <<queue, granted>>
    \/ \E w \in queue :
          /\ \A v \in queue \ {w} : Less(w, v)
          /\ queue' = queue \ {w}
          /\ granted' = [granted EXCEPT ![w] = TRUE]
          /\ UNCHANGED holder

Goto(c, label) == pc' = [pc EXCEPT ![c] = label]

\* Do returns: its waiter and its context are garbage.
Forget(c) == /\ seqOf' = [seqOf EXCEPT ![c] = 0]
             /\ wait' = [wait EXCEPT ![c] = 0]
             /\ cancelled' = [cancelled EXCEPT ![c] = FALSE]
             /\ UNCHANGED seq

-----------------------------------------------------------------------------
(* Do and acquire *)

Started == seq + Cardinality({c \in Callers : pc[c] = "acquire" /\ seqOf[c] = 0})

\* Do with a live context.  With a dead one it returns at once.
Call(c) ==
    /\ pc[c] = "idle"
    /\ Started < MaxCalls
    /\ Goto(c, "acquire")
    /\ UNCHANGED <<now, clockVars, windowVars, slotVars, callVars, historyVars>>

\* The context of a call in progress ends: shutdown, or stopRemote's timeout.
Cancel(c) ==
    /\ pc[c] \notin {"idle", "note", "report"}
    /\ ~cancelled[c]
    /\ cancelled' = [cancelled EXCEPT ![c] = TRUE]
    /\ UNCHANGED <<now, clockVars, windowVars, slotVars, seq, seqOf, wait,
                   historyVars, pc>>

\* acquire: number the waiter the first time, take a free slot or queue.
Acquire(c) ==
    /\ pc[c] = "acquire"
    /\ IF seqOf[c] = 0
       THEN seq' = seq + 1 /\ seqOf' = [seqOf EXCEPT ![c] = seq + 1]
       ELSE UNCHANGED <<seq, seqOf>>
    /\ \/ /\ ~holder
          /\ holder' = TRUE
          /\ Goto(c, "owner")
          /\ UNCHANGED queue
       \/ /\ holder
          /\ queue' = queue \cup {c}
          /\ Goto(c, "queued")
          /\ UNCHANGED holder
    /\ UNCHANGED <<now, clockVars, windowVars, granted, wait, cancelled,
                   historyVars>>

\* The select of acquire takes <-w.ready.
Ready(c) ==
    /\ pc[c] = "queued"
    /\ granted[c]
    /\ granted' = [granted EXCEPT ![c] = FALSE]
    /\ Goto(c, "owner")
    /\ UNCHANGED <<now, clockVars, windowVars, queue, holder, callVars,
                   historyVars>>

\* The select of acquire takes <-ctx.Done().
QueueDone(c) ==
    /\ pc[c] = "queued"
    /\ cancelled[c]
    /\ Goto(c, "withdraw")
    /\ UNCHANGED <<now, clockVars, windowVars, slotVars, callVars, historyVars>>

\* Mutant of Withdraw: the grant that crossed the cancellation is not noticed.
WithdrawBlindly(c) ==
    /\ pc[c] = "withdraw"
    /\ queue' = queue \ {c}
    /\ granted' = [granted EXCEPT ![c] = FALSE]
    /\ Goto(c, "idle")
    /\ Forget(c)
    /\ UNCHANGED <<now, clockVars, windowVars, holder, historyVars>>

\* Under s.mu: not granted, so leave the queue and return ctx.Err().
Withdraw(c) ==
    /\ pc[c] = "withdraw"
    /\ ~granted[c]
    /\ queue' = queue \ {c}
    /\ Goto(c, "idle")
    /\ Forget(c)
    /\ UNCHANGED <<now, clockVars, windowVars, holder, granted, historyVars>>

\* Under s.mu: the slot was handed over meanwhile; it must be passed on.
FoundGranted(c) ==
    /\ pc[c] = "withdraw"
    /\ granted[c]
    /\ granted' = [granted EXCEPT ![c] = FALSE]
    /\ Goto(c, "handback")
    /\ UNCHANGED <<now, clockVars, windowVars, queue, holder, callVars,
                   historyVars>>

HandBack(c) ==
    /\ pc[c] = "handback"
    /\ Release
    /\ Goto(c, "idle")
    /\ Forget(c)
    /\ UNCHANGED <<now, clockVars, windowVars, historyVars>>

-----------------------------------------------------------------------------
(* The loop of Do, by the owner of the slot *)

\* ctx.Err() at the top of the loop: the deferred release, and return.
OwnerDone(c) ==
    /\ pc[c] = "owner"
    /\ cancelled[c]
    /\ Goto(c, "return")
    /\ UNCHANGED <<now, clockVars, windowVars, slotVars, callVars, historyVars>>

\* Mutant of Admit: the slot is released before fn runs.
AdmitAndRelease(c) ==
    /\ pc[c] = "owner"
    /\ ~cancelled[c]
    /\ \E r \in Recovered :
          /\ ~GlobalFull(r.qpm)
          /\ Recover(r)
    /\ ~DeviceFull(c)
    /\ Sweep
    /\ LET call == [at |-> now, seq |-> seqOf[c], dev |-> DeviceOf[c]]
       IN  /\ globalCalls' = RecentCalls \cup {call}
           /\ deviceCalls' = [RecentDeviceCalls(c) EXCEPT
                                 ![DeviceOf[c]] = @ \cup {call}]
           /\ admitted' = admitted \cup {call}
    /\ Release
    /\ Goto(c, "running")
    /\ UNCHANGED <<now, callVars, wire, rateHistory>>

\* waitFor returned zero: stamp both windows, keep the slot and run fn.
Admit(c) ==
    /\ pc[c] = "owner"
    /\ ~cancelled[c]
    /\ \E r \in Recovered :
          /\ ~GlobalFull(r.qpm)
          /\ Recover(r)
    /\ ~DeviceFull(c)
    /\ Sweep
    /\ LET call == [at |-> now, seq |-> seqOf[c], dev |-> DeviceOf[c]]
       IN  /\ globalCalls' = RecentCalls \cup {call}
           /\ deviceCalls' = [RecentDeviceCalls(c) EXCEPT
                                 ![DeviceOf[c]] = @ \cup {call}]
           /\ admitted' = admitted \cup {call}
    /\ Goto(c, "running")
    /\ UNCHANGED <<now, slotVars, callVars, wire, rateHistory>>

\* waitFor returned a positive duration.
Full(c) ==
    /\ pc[c] = "owner"
    /\ ~cancelled[c]
    /\ \E r \in Recovered :
          /\ GlobalFull(r.qpm) \/ DeviceFull(c)
          /\ Recover(r)
          /\ wait' = [wait EXCEPT ![c] = WaitFor(c, r.qpm)]
    /\ Sweep
    /\ globalCalls' = RecentCalls
    /\ deviceCalls' = RecentDeviceCalls(c)
    /\ Goto(c, "giveup")
    /\ UNCHANGED <<now, slotVars, seq, seqOf, cancelled, historyVars>>

\* release, and Clock.Sleep starts.
GiveUp(c) ==
    /\ pc[c] = "giveup"
    /\ Release
    /\ Goto(c, "sleeping")
    /\ UNCHANGED <<now, clockVars, windowVars, callVars, historyVars>>

\* The timer of Clock.Sleep fired; the goroutine may run any time later.
WakeUp(c) ==
    /\ pc[c] = "sleeping"
    /\ wait[c] = 0
    /\ Goto(c, "acquire")
    /\ UNCHANGED <<now, clockVars, windowVars, slotVars, callVars, historyVars>>

\* Clock.Sleep returns ctx.Err(); the slot is not owned.
SleepDone(c) ==
    /\ pc[c] = "sleeping"
    /\ cancelled[c]
    /\ Goto(c, "idle")
    /\ Forget(c)
    /\ UNCHANGED <<now, clockVars, windowVars, slotVars, historyVars>>

\* fn puts its request on the wire, at most once.
Send(c) ==
    /\ pc[c] = "running"
    /\ \A s \in wire : s.seq # seqOf[c]
    /\ wire' = wire \cup {[at |-> now, seq |-> seqOf[c]]}
    /\ UNCHANGED <<now, clockVars, windowVars, slotVars, callVars, admitted,
                   rateHistory, pc>>

\* fn returns: normally, in error (the request may not have left), or with
\* a 429, which only an answered request can bring.
FnReturns(c) ==
    /\ pc[c] = "running"
    /\ \/ Goto(c, "return")
       \/ (\E s \in wire : s.seq = seqOf[c]) /\ Goto(c, "return429")
    /\ UNCHANGED <<now, clockVars, windowVars, slotVars, callVars, historyVars>>

\* The deferred release, and Do returns.  A session notes a 429 afterwards.
Return(c) ==
    /\ pc[c] \in {"return", "return429"}
    /\ Release
    /\ Goto(c, IF pc[c] = "return429" THEN "note" ELSE "idle")
    /\ Forget(c)
    /\ UNCHANGED <<now, clockVars, windowVars, historyVars>>

\* The history of the rate as time and 429s alone decide it: lowered by each
\* 429, and raised by each whole RecoveryInterval without one as it ends.
RateEarned(at, time, rate) ==
    /\ limited' = at
    /\ quietTime' = time
    /\ earned' = rate

\* Mutant of NoteRateLimited: no floor.
NoteRateLimitedToZero(c) ==
    /\ pc[c] = "note"
    /\ \E r \in Recovered : qpm' = r.qpm \div 2
    /\ lastRateLimited' = now
    /\ RateEarned(now, 0, Halved(earned))
    /\ Goto(c, "report")
    /\ UNCHANGED <<now, windowVars, slotVars, callVars, admitted, wire>>

\* NoteRateLimited: halve the recovered rate, to a floor of 1.
NoteRateLimited(c) ==
    /\ pc[c] = "note"
    /\ \E r \in Recovered : qpm' = Halved(r.qpm)
    /\ lastRateLimited' = now
    /\ RateEarned(now, 0, Halved(earned))
    /\ Goto(c, "report")
    /\ UNCHANGED <<now, windowVars, slotVars, callVars, admitted, wire>>

\* CurrentQPM, called for the log line: it recovers the rate too.
CurrentQPM(c) ==
    /\ pc[c] = "report"
    /\ \E r \in Recovered : Recover(r)
    /\ Goto(c, "idle")
    /\ UNCHANGED <<now, windowVars, slotVars, callVars, historyVars>>

\* Time passes.  Past Horizon it goes on for those who still sleep.
Tick ==
    /\ \/ now < Horizon
       \/ \E c \in Callers : pc[c] = "sleeping" /\ wait[c] > 0
    /\ now' = now + 1
    /\ wait' = [c \in Callers |->
                   IF pc[c] = "sleeping" /\ wait[c] > 0 THEN wait[c] - 1
                                                        ELSE wait[c]]
    /\ IF limited = NoTime THEN UNCHANGED rateHistory
       ELSE IF quietTime + 1 = RecoveryInterval
            THEN RateEarned(limited, 0, Doubled(earned))
            ELSE RateEarned(limited, quietTime + 1, earned)
    /\ UNCHANGED <<clockVars, windowVars, slotVars, seq, seqOf, cancelled,
                   admitted, wire, pc>>

\* Every call has returned and the bounds allow no other.
Quiet == (\A c \in Callers : pc[c] = "idle") /\ UNCHANGED vars

-----------------------------------------------------------------------------

Init ==
    /\ now = 0
    /\ qpm = GlobalQPM
    /\ lastRateLimited = NoTime
    /\ globalCalls = {}
    /\ deviceCalls = [d \in Devices |-> {}]
    /\ lastDeviceSweep = NoTime
    /\ queue = {}
    /\ seq = 0
    /\ holder = FALSE
    /\ pc = [c \in Callers |-> "idle"]
    /\ seqOf = [c \in Callers |-> 0]
    /\ granted = [c \in Callers |-> FALSE]
    /\ wait = [c \in Callers |-> 0]
    /\ cancelled = [c \in Callers |-> FALSE]
    /\ admitted = {}
    /\ wire = {}
    /\ limited = NoTime /\ quietTime = 0 /\ earned = GlobalQPM

\* What a goroutine inside Do does by itself.
Step(c) ==
    \/ Acquire(c) \/ Ready(c) \/ QueueDone(c)
    \/ Withdraw(c) \/ FoundGranted(c) \/ HandBack(c)
    \/ OwnerDone(c) \/ Admit(c) \/ Full(c) \/ GiveUp(c)
    \/ WakeUp(c) \/ SleepDone(c)
    \/ FnReturns(c) \/ Return(c)
    \/ NoteRateLimited(c) \/ CurrentQPM(c)

Next ==
    \/ \E c \in Callers : Call(c) \/ Cancel(c) \/ Send(c) \/ Step(c)
    \/ Tick
    \/ Quiet

Spec == Init /\ [][Next]_vars

\* Goroutines are scheduled, timers fire, fn ends (requestTimeout).
FairSpec == Spec /\ WF_vars(Tick) /\ \A c \in Callers : WF_vars(Step(c))

-----------------------------------------------------------------------------
(* Properties *)

\* The types of the variables.
TypeOK ==
    /\ now \in Nat
    /\ qpm \in 1 .. GlobalQPM
    /\ lastRateLimited \in Nat \cup {NoTime}
    /\ globalCalls \in SUBSET Admission
    /\ deviceCalls \in [Devices -> SUBSET Admission]
    /\ lastDeviceSweep \in Nat \cup {NoTime}
    /\ queue \in SUBSET Callers
    /\ seq \in Nat
    /\ holder \in BOOLEAN
    /\ pc \in [Callers -> Labels]
    /\ seqOf \in [Callers -> Nat]
    /\ granted \in [Callers -> BOOLEAN]
    /\ wait \in [Callers -> Nat]
    /\ cancelled \in [Callers -> BOOLEAN]
    /\ admitted \in SUBSET Admission
    /\ wire \in SUBSET Command
    /\ limited \in Nat \cup {NoTime}
    /\ quietTime \in 0 .. RecoveryInterval - 1
    /\ earned \in 1 .. GlobalQPM

\* The slot is with c: it works with it, or release has granted it to c.
Owns(c) == granted[c] \/ pc[c] \in Owning

\* The slot has one owner at most (calls are "admitted one at a time",
\* scheduler.go:248), also while a grant and a cancellation cross.
SlotExclusion == \A c, d \in Callers : Owns(c) /\ Owns(d) => c = d

\* The slot is never lost: Scheduler.holder is set only while some call owns
\* the slot and will release it, and nobody waits in the queue of a free slot
\* ("so the queue cannot stall", scheduler.go:324).
SlotNeverLost == /\ holder => \E c \in Callers : Owns(c)
                 /\ holder \/ queue = {}

\* The slot always has at most one owner, and one if it counts as taken.
SlotKept == SlotExclusion /\ SlotNeverLost

\* Calls stamped in the Minute that ends at t.
InMinute(calls, t) == {a \in calls : t - Minute < a.at /\ a.at <= t}

\* No Minute, wherever it starts, holds more than GlobalQPM admissions: what
\* waitFor and prune have to establish whatever the cancellations, the 429s
\* and the calls that gave the slot back.
GlobalQuota ==
    \A t \in 0 .. now : Cardinality(InMinute(admitted, t)) <= GlobalQPM

\* Commands of camera d stamped in the Hour that ends at t.
InHour(calls, d, t) ==
    {a \in calls : a.dev = d /\ t - Hour < a.at /\ a.at <= t}

\* No Hour holds more than DeviceQPH admissions of one camera, although only
\* the camera that asks has its window pruned between two sweeps.
DeviceQuota ==
    \A d \in Devices : \A t \in 0 .. now :
        Cardinality(InHour(admitted, d, t)) <= DeviceQPH

\* Both limits hold, for every window of the history.
QuotaKept == GlobalQuota /\ DeviceQuota

\* What Google counts is the commands on the wire, which leave after they are
\* stamped.  As fn runs inside the slot, a Minute holds at most one more of
\* them than of stamps: Google's 10 stays safe with a GlobalQPM of 8
\* (scheduler.go:65 and 135).
WireQuota ==
    \A t \in 0 .. now :
        Cardinality({s \in wire : t - Minute < s.at /\ s.at <= t})
            <= GlobalQPM + 1

\* After a 429 the lowered rate holds at once, and comes back for quiet time
\* alone: one doubling for each whole RecoveryInterval without a 429
\* (scheduler.go:175), however seldom, and by whichever call, the Scheduler looks
\* at its clock.  Its rate is neither ahead of the earned one nor behind it, and
\* the calls of the last Minute stamped since the 429 stay within that.
BackoffHolds ==
    /\ \A r \in Recovered : r.qpm = earned
    /\ Cardinality({a \in InMinute(admitted, now) : a.at > limited}) <= earned

\* While a call is in the queue, no call it outranks gets the slot, by hand
\* over or by finding the slot free ("renewals overtake queued connections",
\* scheduler.go:249; same priority is first come, first served).
QueueOrder ==
    [][\A c \in queue, d \in Callers :
          Less(c, d) /\ ~Owns(d) /\ pc[c] = "queued" => ~Owns(d)']_vars

\* The windows the code keeps lose nothing that still counts: each holds all
\* the admissions younger than its length, though prune rewrites it in place.
WindowsComplete ==
    /\ Prune(admitted, now - Minute) \subseteq globalCalls
    /\ \A d \in Devices :
          {a \in Prune(admitted, now - Hour) : a.dev = d} \subseteq deviceCalls[d]

\* The Scheduler implements the gate it promises, with a call in progress from
\* its stamp to the end of fn.
Gate == INSTANCE QuotaGate WITH
            serving <- {c \in Callers : pc[c] = "running"},
            started <- admitted,
            CallNumbers <- 1 .. MaxCalls
ImplementsGate == Gate!Spec

\* Every call of Do returns: admitted, or cancelled.  (MaxCalls bounds the
\* calls, so this does not claim that a connect survives endless renewals.)
EveryCallReturns ==
    \A c \in Callers : pc[c] # "idle" ~> pc[c] = "idle"

=============================================================================
