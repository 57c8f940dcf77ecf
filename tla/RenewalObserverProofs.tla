------------------------ MODULE RenewalObserverProofs ------------------------
(***************************************************************************)
(* Proofs about RenewalObserver: for any number of renewals the observer   *)
(* is called in their order, and a drain is honest.                        *)
(*                                                                         *)
(* The strengthening says where the events are: those up to Len(called)    *)
(* are delivered, the next one is in flight if the worker calls, and the   *)
(* queue holds the following ones without a gap; pending counts the queue  *)
(* and the worker's event, and the channel is open while it counts any.    *)
(***************************************************************************)
EXTENDS RenewalObserver, TLAPS

\* The events delivered or being delivered.
Begun == IF worker = "call" THEN Len(called) + 1 ELSE Len(called)

\* Where the events are.
Places ==
    /\ \A i \in 1 .. Len(called) : called[i] = i
    /\ worker = "call" => current = Len(called) + 1
    /\ \A i \in 1 .. Len(queue) : queue[i] = Begun + i
    /\ ~abandoned => emitted = Begun + Len(queue)
    /\ worker = "off" => queue = <<>>
    /\ pending = Len(queue) + LeftPending

\* What the drain may count on.
Sealing ==
    /\ ~sealed <=> drain = "none"
    /\ abandoned => drain = "returned" /\ queue = <<>>
    /\ drained = "open" <=> pending > 0
    /\ drain = "returned" => emitted <= Len(called) + undelivered
    /\ ~closedTwice

ObserverInv == TypeOK /\ Places /\ Sealing

LEMMA InitInv == Init => ObserverInv
  BY DEF Init, ObserverInv, TypeOK, Places, Sealing, Begun, LeftPending, InFlight

LEMMA EmitInv == ObserverInv /\ Emit => ObserverInv'
<1> SUFFICES ASSUME ObserverInv, Emit PROVE ObserverInv'
  OBVIOUS
<1> USE DEF ObserverInv, Emit, Running, Channel, StartWorker, drainVars, LeftPending, InFlight
<1>1. TypeOK'
  BY DEF TypeOK
<1>2. Places'
  <2>1. emitted = Begun + Len(queue)
    <3>1. drain = "none"
      BY DEF Sealing
    <3>2. drain # "returned"
      BY <3>1
    <3>3. ~abandoned
      BY <3>2 DEF Sealing
    <3> QED BY <3>3 DEF Places
  <2>2. Begun' = Begun /\ Begun \in Nat
    BY DEF TypeOK, Begun
  <2>3. \A i \in 1 .. Len(queue') : queue'[i] = Begun' + i
    <3> SUFFICES ASSUME NEW i \in 1 .. Len(queue') PROVE queue'[i] = Begun' + i
      OBVIOUS
    <3>1. queue \in Seq(Nat) /\ queue' = Append(queue, emitted + 1) /\ emitted + 1 \in Nat
      BY DEF TypeOK
    <3>2. Len(queue) \in Nat /\ Len(queue') = Len(queue) + 1
      BY <3>1
    <3>3. CASE i = Len(queue) + 1
      BY <2>1, <2>2, <3>1, <3>2, <3>3
    <3>4. CASE i # Len(queue) + 1
      <4>1. i \in 1 .. Len(queue) /\ queue'[i] = queue[i]
        BY <3>1, <3>2, <3>4
      <4> QED BY <2>2, <4>1 DEF Places
    <3> QED BY <3>3, <3>4
  <2>4. emitted' = Begun' + Len(queue')
    BY <2>1, <2>2 DEF TypeOK
  <2>5. pending' = Len(queue') + LeftPending'
    BY DEF TypeOK, Places
  <2>6. worker' # "off" /\ called' = called /\ (worker' = "call" => current' = Len(called') + 1)
    BY DEF TypeOK, Places
  <2> QED BY <2>3, <2>4, <2>5, <2>6 DEF Places
<1>3. Sealing'
  BY DEF TypeOK, Places, Sealing
<1> QED
  BY <1>1, <1>2, <1>3

LEMMA TakeInv == ObserverInv /\ Take => ObserverInv'
<1> SUFFICES ASSUME ObserverInv, Take PROVE ObserverInv'
  OBVIOUS
<1> USE DEF ObserverInv, LeftPending, InFlight
<1>1. CASE worker' = "call"
  <2>1. /\ worker = "take" /\ queue # <<>> /\ ~abandoned
        /\ current' = Head(queue) /\ queue' = Tail(queue)
        /\ UNCHANGED <<emitted, pending, drained, sealed, abandoned, drain, undelivered,
                       called, closedTwice>>
    BY <1>1 DEF Take, MayTake, drainVars
  <2>2. /\ Len(queue) \in Nat \ {0} /\ Len(queue') = Len(queue) - 1
        /\ queue' \in Seq(Nat) /\ current' = queue[1] /\ current' \in Nat
        /\ \A i \in 1 .. Len(queue') : queue'[i] = queue[i + 1]
    BY <2>1 DEF TypeOK
  <2>3. Begun = Len(called) /\ Begun' = Len(called) + 1 /\ Len(called) \in Nat
    BY <1>1, <2>1 DEF Begun, TypeOK
  <2>4. current' = Len(called) + 1
    BY <2>2, <2>3 DEF Places
  <2>5. \A i \in 1 .. Len(queue') : queue'[i] = Begun' + i
    <3> SUFFICES ASSUME NEW i \in 1 .. Len(queue') PROVE queue'[i] = Begun' + i
      OBVIOUS
    <3>1. i + 1 \in 1 .. Len(queue)
      BY <2>2
    <3> QED BY <3>1, <2>2, <2>3 DEF Places
  <2>6. emitted' = Begun' + Len(queue')
    BY <2>1, <2>2, <2>3 DEF Places, TypeOK
  <2>7. pending' = Len(queue') + LeftPending'
    BY <1>1, <2>1, <2>2 DEF Places, TypeOK
  <2>8. Places'
    BY <1>1, <2>1, <2>4, <2>5, <2>6, <2>7 DEF Places
  <2>9. TypeOK'
    BY <1>1, <2>1, <2>2 DEF TypeOK
  <2>10. Sealing'
    BY <2>1 DEF Sealing
  <2> QED
    BY <2>8, <2>9, <2>10
<1>2. CASE worker' # "call"
  <2>1. /\ worker = "take" /\ worker' = "off" /\ (abandoned \/ queue = <<>>)
        /\ UNCHANGED <<emitted, queue, pending, drained, current, sealed, abandoned, drain,
                       undelivered, called, closedTwice>>
    BY <1>2 DEF Take, MayTake, drainVars
  <2>2. queue = <<>>
    BY <2>1 DEF Sealing
  <2> QED
    BY <2>1, <2>2 DEF TypeOK, Places, Sealing, Begun
<1> QED
  BY <1>1, <1>2

LEMMA CalledInv == ObserverInv /\ Called => ObserverInv'
<1> SUFFICES ASSUME ObserverInv, Called PROVE ObserverInv'
  OBVIOUS
<1> USE DEF ObserverInv, Called, drainVars, LeftPending, InFlight
<1>1. TypeOK'
  BY DEF TypeOK
<1>2. Places'
  BY DEF TypeOK, Places, Begun
<1>3. Sealing'
  BY DEF TypeOK, Places, Sealing
<1> QED
  BY <1>1, <1>2, <1>3

LEMMA DoneInv == ObserverInv /\ Done => ObserverInv'
<1> SUFFICES ASSUME ObserverInv, Done PROVE ObserverInv'
  OBVIOUS
<1> USE DEF ObserverInv, Done, Onward, Last, CloseDrained, drainVars, LeftPending, InFlight
<1>1. TypeOK'
  BY DEF TypeOK, Places
<1>2. Places'
  BY DEF TypeOK, Places, Begun
<1>3. Sealing'
  <2>1. drained = "open" /\ ~closedTwice
    BY DEF TypeOK, Places, Sealing
  <2>2. ~closedTwice'
    BY <2>1
  <2>3. drained' = "open" <=> pending' > 0
    BY <2>1 DEF TypeOK, Places
  <2> QED BY <2>2, <2>3 DEF Sealing
<1> QED
  BY <1>1, <1>2, <1>3

LEMMA DrainInv == ObserverInv /\ (Seal \/ Drained \/ Expire) => ObserverInv'
<1> SUFFICES ASSUME ObserverInv, Seal \/ Drained \/ Expire PROVE ObserverInv'
  OBVIOUS
<1> USE DEF ObserverInv, Return, workVars, LeftPending, InFlight, Begun
<1>1. CASE Seal
  BY <1>1 DEF Seal, TypeOK, Places, Sealing
<1>2. CASE Drained
  BY <1>2 DEF Drained, TypeOK, Places, Sealing
<1>3. CASE Expire /\ pending = 0
  <2>1. emitted = Len(called) /\ ~abandoned
    BY <1>3 DEF Expire, TypeOK, Places, Sealing
  <2> QED
    BY <1>3, <2>1 DEF Expire, StillPending, TypeOK, Places, Sealing
<1>4. CASE Expire /\ pending # 0
  <2>1. /\ drain = "waiting" /\ drain' = "returned" /\ undelivered' = pending /\ queue' = <<>>
        /\ pending' = LeftPending
        /\ UNCHANGED <<emitted, sealed, called, worker, current>>
    BY <1>4 DEF Expire, StillPending
  <2>2. drained = "open" /\ ~closedTwice /\ ~abandoned /\ sealed
    BY <1>4, <2>1 DEF TypeOK, Places, Sealing
  <2>3. abandoned' = TRUE
    BY <1>4 DEF Expire
  <2>4. ~closedTwice' /\ (drained' = "open" <=> LeftPending # 0)
    <3>1. CASE CloseDrained /\ LeftPending = 0
      BY <2>2, <3>1 DEF CloseDrained
    <3>2. CASE LeftPending # 0 /\ UNCHANGED <<drained, closedTwice>>
      BY <2>2, <3>2
    <3> QED BY <1>4, <3>1, <3>2 DEF Expire
  <2>5. drained' \in {"open", "closed"}
    BY <1>4, <2>2 DEF Expire, CloseDrained
  <2>6. TypeOK'
    BY <2>1, <2>5 DEF TypeOK
  <2>7. Places'
    BY <2>1, <2>3 DEF TypeOK, Places
  <2>8. emitted <= Len(called) + pending
    BY <2>2 DEF TypeOK, Places
  <2>9. Sealing'
    BY <2>1, <2>2, <2>3, <2>4, <2>8 DEF TypeOK, Places, Sealing
  <2> QED
    BY <2>6, <2>7, <2>9
<1> QED
  BY <1>1, <1>2, <1>3, <1>4

LEMMA StepInv == ObserverInv /\ [Next]_vars => ObserverInv'
<1>1. ObserverInv /\ UNCHANGED vars => ObserverInv'
  BY DEF ObserverInv, TypeOK, Places, Sealing, Begun, LeftPending, InFlight, vars, workVars,
         drainVars
<1> QED
  BY <1>1, EmitInv, TakeInv, CalledInv, DoneInv, DrainInv DEF Next, Work

\* "Observer calls are serialized" (manager.go:292-293), for any number of
\* renewals and workers.
THEOREM OrderCorrect == Spec => []CalledInOrder
<1>1. ObserverInv => CalledInOrder
  BY DEF ObserverInv, TypeOK, Places, CalledInOrder
<1> QED
  BY <1>1, InitInv, StepInv, PTL DEF Spec

\* The observer's variables keep their types.
THEOREM TypeCorrect == Spec => []TypeOK
<1>1. ObserverInv => TypeOK
  BY DEF ObserverInv
<1> QED
  BY <1>1, InitInv, StepInv, PTL DEF Spec

\* A drain never reports fewer events undelivered than there are, and no channel
\* is closed twice (manager.go:341-346, :367-384).
THEOREM DrainCorrect == Spec => []DrainIsHonest
<1>1. ObserverInv => DrainIsHonest
  BY DEF ObserverInv, TypeOK, Sealing, DrainIsHonest
<1> QED
  BY <1>1, InitInv, StepInv, PTL DEF Spec
==============================================================================
