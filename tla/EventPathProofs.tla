--------------------------- MODULE EventPathProofs ---------------------------
(***************************************************************************)
(* Proofs about Motion, about EventPath, which implements it, and about    *)
(* Recorders, which composes it with the sidecar.                          *)
(*                                                                         *)
(* Motion: for any cameras, lingers, ceiling and lag, a level falls only   *)
(* when its hold or its window is over, and the sidecar settles on the     *)
(* tracker's level unless two emissions overlapped.  PlaceInv says which   *)
(* edges a goroutine may have in hand at each of its steps.  HoldInv       *)
(* relates the deadline to the time since the last detection; the level    *)
(* falls by comparing the first, the property is about the second.         *)
(* LevelInv follows the last edge of a camera that did not overlap         *)
(* another: whatever still carries one of the camera's edges last, the     *)
(* goroutine, the queue, the post or the sidecar, carries the tracker's    *)
(* level.                                                                  *)
(*                                                                         *)
(* EventPath, in the second part: for any cameras, messages, batches and   *)
(* viewers, no detection is lost before the tracker, no edge is sent on a  *)
(* closed channel, and the browsers end on the tracker's level.  The whole *)
(* path implements Motion, so what is proved of the tracker and the        *)
(* dispatcher holds of them here too.                                      *)
(*                                                                         *)
(* Recorders, in the third part: the bridge and the sidecar keep together  *)
(* what each promises alone, so the recorders end on the tracker's level.  *)
(***************************************************************************)
EXTENDS EventPath, Recorders, FiniteSetTheorems, TLAPS

\* The edges a has computed and not finished sending.
Emission(a) == outbox[a] \cup sending[a]

\* What a goroutine has in hand, and where.
PlaceInv ==
    /\ queue \in [Cameras -> SUBSET Edge]
    /\ delivering \in [Cameras -> SUBSET Edge]
    /\ \A a \in Emitters :
          /\ pc[a] \in {"idle", "lock"} => outbox[a] = {}
          /\ pc[a] \notin {"displace", "retry"} => sending[a] = {}
          /\ \A e, f \in sending[a] : e = f

\* The hold outlasts the last detection by linger.
HoldInv ==
    \A c \in Cameras :
        /\ clearIn[c] >= LongPast
        /\ c \in Recorded /\ on[c] => clearIn[c] + quiet[c] >= Linger[c]

\* The edges of S are about another camera than c, or carry its level.
Carries(S, c) == \A e \in S : e.cam = c => e.on = on[c]

\* Nothing of c has overlapped since its last edge was computed.
Lone(c) ==
    /\ \A a \in Emitters : Carries(Emission(a), c)
    /\ ~(InEmission("subscriber", c) /\ InEmission("sweeper", c))

\* Where the last edge of c is.
Last(c) ==
    /\ Lone(c)
    /\ \A a \in Emitters :
          pc[a] = "retry" /\ (\E e \in sending[a] : e.cam = c) => queue[c] = {}
    /\ (\A a \in Emitters : ~InEmission(a, c)) =>
          /\ Carries(queue[c], c)
          /\ queue[c] = {} => Carries(delivering[c], c)
          /\ queue[c] = {} /\ delivering[c] = {} /\ ~lost[c] => motionState[c] = on[c]

LevelInv == \A c \in Recorded : ~raced[c] => Last(c)

MotionInv == TypeOK /\ PlaceInv /\ HoldInv /\ LevelInv

-----------------------------------------------------------------------------
(* Types and places *)

LEMMA Constants ==
  /\ \A c \in Cameras : Linger[c] \in Nat \ {0}
  /\ \A c \in Cameras : LongestLinger(c) \in Nat /\ LongestLinger(c) >= Linger[c]
                                                /\ LongestLinger(c) >= MaxDuration
  /\ MaxDuration \in Nat \ {0} /\ MaxLag \in Nat
  /\ LongPast \in Int /\ LongPast <= 0 /\ LongPast = 0 - MaxLag
  /\ Recorded \subseteq Cameras
BY LingerAssumption, BoundAssumption, RecordedAssumption DEF LongestLinger, LongPast

LEMMA AgeType ==
  ASSUME NEW c \in Cameras, NEW t \in Nat
  PROVE  /\ Age(c, t) \in Nat
         /\ Age(c, t) = t \/ Age(c, t) = LongestLinger(c) + MaxLag
BY Constants DEF Age

\* A goroutine goes on, keeping its clock reading or forgetting it.
LEMMA GotoType ==
  ASSUME TypeOK, NEW a \in Emitters,
         NEW label \in {"idle", "lock", "emit", "displace", "retry"}, Goto(a, label)
  PROVE  /\ pc' \in [Emitters -> {"idle", "lock", "emit", "displace", "retry"}]
         /\ lag' \in [Emitters -> 0 .. MaxLag]
         /\ pc'[a] = label /\ \A b \in Emitters : b # a => pc'[b] = pc[b]
BY BoundAssumption DEF TypeOK, Goto

LEMMA OutboxType ==
  ASSUME TypeOK, NEW a \in Emitters, NEW S, S \subseteq Edge, outbox' = [outbox EXCEPT ![a] = S]
  PROVE  outbox' \in [Emitters -> SUBSET Edge]
BY DEF TypeOK

LEMMA TypeStep == ASSUME TypeOK, PlaceInv, [Next]_vars PROVE TypeOK'
<1>1. ASSUME NEW c \in Cameras, Detect(c) PROVE TypeOK'
  BY <1>1, GotoType DEF TypeOK, Detect, levelVars, sendVars, deliverVars, Emitters
<1>2. ASSUME NEW c \in Cameras, Take(c) PROVE TypeOK'
  <2>1. \A d \in Cameras : queue'[d] \in {queue[d], {}} /\ delivering'[d] \in {delivering[d], queue[d]}
    BY <1>2 DEF PlaceInv, Take
  <2>2. \A d \in Cameras : {} \in Place(d)
    BY DEF Place
  <2> QED BY <1>2, <2>1, <2>2 DEF TypeOK, Take, levelVars
<1>3. ASSUME NEW c \in Cameras, Deliver(c) PROVE TypeOK'
  <2>1. \A e \in delivering[c] : e \in Edge /\ e.on \in BOOLEAN
    BY DEF PlaceInv, Edge
  <2>2. motionState' \in [Cameras -> BOOLEAN] /\ lost' \in [Cameras -> BOOLEAN]
    BY <1>3, <2>1 DEF TypeOK, Deliver
  <2>3. \A d \in Cameras : delivering'[d] \in Place(d)
    BY <1>3 DEF TypeOK, PlaceInv, Deliver, Place
  <2> QED BY <1>3, <2>2, <2>3 DEF TypeOK, Deliver, levelVars, sendVars
<1>4. ASSUME NEW c \in Cameras, SidecarRestart(c) PROVE TypeOK'
  BY <1>4 DEF TypeOK, SidecarRestart, levelVars, sendVars
<1>5. CASE BridgeRestart
  BY <1>5, Constants DEF TypeOK, BridgeRestart, Place
<1>6. CASE Handle
  <2>1. PICK c \in detected :
          /\ clearIn' = [clearIn EXCEPT ![c] = Hold(c, lag["subscriber"])]
          /\ quiet' = [quiet EXCEPT ![c] = IF c \in Recorded THEN lag["subscriber"] ELSE @]
          /\ detected' = {} /\ UNCHANGED <<sending, queue, deliverVars>>
          /\ \/ /\ on' = [on EXCEPT ![c] = TRUE]
                /\ upFor' = [upFor EXCEPT ![c] = lag["subscriber"]]
                /\ outbox' = [outbox EXCEPT !["subscriber"] = {[cam |-> c, on |-> TRUE]}]
                /\ raced' = [raced EXCEPT ![c] = Overlaps("sweeper", c)]
                /\ Goto("subscriber", "emit")
             \/ Goto("subscriber", "idle") /\ UNCHANGED <<on, upFor, outbox, raced>>
    BY <1>6 DEF Handle
  <2>2. c \in Cameras /\ lag["subscriber"] \in Nat /\ {[cam |-> c, on |-> TRUE]} \subseteq Edge
    BY Constants DEF TypeOK, Emitters, Edge
  <2>3. clearIn' \in [Cameras -> Int] /\ quiet' \in [Cameras -> Nat]
    BY <2>1, <2>2, Constants DEF TypeOK, Hold
  <2>4. pc' \in [Emitters -> {"idle", "lock", "emit", "displace", "retry"}]
        /\ lag' \in [Emitters -> 0 .. MaxLag]
    BY <2>1, GotoType DEF Emitters
  <2>5. on' \in [Cameras -> BOOLEAN] /\ upFor' \in [Cameras -> Nat]
    BY <2>1, <2>2 DEF TypeOK
  <2>6. outbox' \in [Emitters -> SUBSET Edge]
    <3> DEFINE S == {[cam |-> c, on |-> TRUE]}
    <3>0. S \subseteq Edge
      BY <2>2
    <3> HIDE DEF S
    <3>1. CASE outbox' = [outbox EXCEPT !["subscriber"] = S]
      BY <3>0, <3>1, OutboxType DEF Emitters
    <3>2. CASE outbox' = outbox
      BY <3>2 DEF TypeOK
    <3> QED BY <2>1, <3>1, <3>2 DEF S
  <2>7. raced' \in [Cameras -> BOOLEAN]
    BY <2>1, <2>2 DEF TypeOK, Overlaps
  <2> QED
    BY <2>1, <2>3, <2>4, <2>5, <2>6, <2>7 DEF TypeOK, deliverVars
<1>7. CASE Wake
  BY <1>7, GotoType DEF TypeOK, Wake, levelVars, sendVars, deliverVars, Emitters
<1>8. CASE Sweep
  <2> DEFINE t == lag["sweeper"]
             down == {c \in Cameras : Lowers(c, t)}
  <2>1. outbox' \in [Emitters -> SUBSET Edge]
    <3> DEFINE S == {[cam |-> c, on |-> FALSE] : c \in down}
    <3>0. \A c \in Cameras : [cam |-> c, on |-> FALSE] \in Edge
      BY DEF Edge
    <3>1. S \subseteq Edge
      BY <3>0
    <3>2. outbox' = [outbox EXCEPT !["sweeper"] = S]
      BY <1>8 DEF Sweep
    <3> HIDE DEF S
    <3> QED BY <3>1, <3>2, OutboxType DEF Emitters
  <2>2. pc' \in [Emitters -> {"idle", "lock", "emit", "displace", "retry"}]
        /\ lag' \in [Emitters -> 0 .. MaxLag]
    BY <1>8, GotoType DEF Emitters, Sweep
  <2>3. on' \in [Cameras -> BOOLEAN] /\ clearIn' \in [Cameras -> Int]
    BY <1>8, Constants DEF Sweep, TypeOK
  <2>4. raced' \in [Cameras -> BOOLEAN]
    BY <1>8 DEF Sweep, TypeOK, Overlaps
  <2> QED BY <1>8, <2>1, <2>2, <2>3, <2>4 DEF Sweep, TypeOK, deliverVars
<1>9. ASSUME NEW a \in Emitters, Send(a) PROVE TypeOK'
  <2>1. /\ UNCHANGED <<levelVars, detected, deliverVars, raced>>
        /\ \E label \in {"idle", "emit", "displace", "retry"} : Goto(a, label)
    BY <1>9 DEF Send, SendFirst, Displace, SendAgain, Emitted
  <2>2. pc' \in [Emitters -> {"idle", "lock", "emit", "displace", "retry"}]
        /\ lag' \in [Emitters -> 0 .. MaxLag]
    BY <2>1, GotoType
  <2>3. /\ outbox' \in [Emitters -> SUBSET Edge] /\ sending' \in [Emitters -> SUBSET Edge]
        /\ \A c \in Cameras : queue'[c] \in Place(c)
    <3> DEFINE Own(e) == e \in Edge /\ {e} \subseteq Edge /\ e.cam \in Cameras /\ {e} \in Place(e.cam)
    <3>0. \A e \in outbox[a] \cup sending[a] : Own(e)
      BY DEF Place, Edge, TypeOK
    <3>1. CASE SendFirst(a)
      <4>1. PICK e \in outbox[a] :
              /\ outbox' = [outbox EXCEPT ![a] = outbox[a] \ {e}]
              /\ queue' = [queue EXCEPT ![e.cam] = {e}] \/ queue' = queue
              /\ sending' = [sending EXCEPT ![a] = {e}] \/ sending' = sending
        BY <3>1 DEF SendFirst
      <4>2. Own(e) /\ outbox[a] \ {e} \subseteq Edge
        BY <3>0 DEF TypeOK
      <4> HIDE DEF Own
      <4>3. outbox' \in [Emitters -> SUBSET Edge]
        BY <4>1, <4>2, OutboxType
      <4>4. sending' \in [Emitters -> SUBSET Edge]
        BY <4>1, <4>2 DEF TypeOK, Own
      <4>5. \A c \in Cameras : queue'[c] \in Place(c)
        <5>1. \A c \in Cameras : queue'[c] = queue[c] \/ (c = e.cam /\ queue'[c] = {e})
          BY <4>1 DEF PlaceInv
        <5> QED BY <4>2, <5>1 DEF TypeOK, Own
      <4> QED BY <4>3, <4>4, <4>5
    <3>2. CASE Displace(a)
      BY <3>2 DEF Displace, TypeOK, PlaceInv, Place, Edge
    <3>3. CASE SendAgain(a)
      <4>1. PICK e \in sending[a] :
              queue' = [queue EXCEPT ![e.cam] = IF queue[e.cam] = {} THEN {e} ELSE queue[e.cam]]
        BY <3>3 DEF SendAgain
      <4>2. Own(e)
        BY <3>0
      <4>3. \A c \in Cameras : queue'[c] \in Place(c)
        BY <4>1, <4>2 DEF TypeOK, PlaceInv
      <4> QED BY <3>3, <4>3 DEF SendAgain, TypeOK
    <3> QED BY <1>9, <3>1, <3>2, <3>3 DEF Send
  <2> QED BY <2>1, <2>2, <2>3 DEF TypeOK, levelVars, deliverVars
<1>10. CASE Tick
  <2>1. lag' \in [Emitters -> 0 .. MaxLag]
    BY <1>10, Constants DEF Tick, TypeOK
  <2>2. clearIn' \in [Cameras -> Int]
    BY <1>10, Constants DEF Tick, TypeOK
  <2>3. upFor' \in [Cameras -> Nat] /\ quiet' \in [Cameras -> Nat]
    BY <1>10, AgeType DEF Tick, TypeOK
  <2> QED BY <1>10, <2>1, <2>2, <2>3 DEF Tick, TypeOK, sendVars, deliverVars
<1>11. CASE UNCHANGED vars
  BY <1>11 DEF TypeOK, vars, levelVars, sendVars, deliverVars
<1> QED
  BY <1>1, <1>2, <1>3, <1>4, <1>5, <1>6, <1>7, <1>8, <1>9, <1>10, <1>11 DEF Next

LEMMA PlaceStep == ASSUME TypeOK, PlaceInv, [Next]_vars PROVE PlaceInv'
<1>1. ASSUME NEW c \in Cameras, Detect(c) PROVE PlaceInv'
  BY <1>1 DEF TypeOK, PlaceInv, Detect, Goto, sendVars, deliverVars, Emitters
<1>2. ASSUME NEW c \in Cameras, Take(c) PROVE PlaceInv'
  BY <1>2 DEF PlaceInv, Take
<1>3. ASSUME NEW c \in Cameras, Deliver(c) PROVE PlaceInv'
  BY <1>3 DEF PlaceInv, Deliver, sendVars
<1>4. ASSUME NEW c \in Cameras, SidecarRestart(c) PROVE PlaceInv'
  BY <1>4 DEF PlaceInv, SidecarRestart, sendVars
<1>5. CASE BridgeRestart
  BY <1>5 DEF PlaceInv, BridgeRestart
<1>6. CASE Handle
  BY <1>6 DEF TypeOK, PlaceInv, Handle, Goto, deliverVars, Emitters
<1>7. CASE Wake
  BY <1>7 DEF TypeOK, PlaceInv, Wake, Goto, sendVars, deliverVars, Emitters
<1>8. CASE Sweep
  <2>1. /\ pc["sweeper"] = "lock" /\ UNCHANGED <<sending, queue, deliverVars>>
        /\ outbox'["subscriber"] = outbox["subscriber"]
        /\ \/ outbox'["sweeper"] = {} /\ Goto("sweeper", "idle")
           \/ Goto("sweeper", "emit")
    BY <1>8 DEF Sweep, TypeOK, Emitters
  <2> QED BY <2>1 DEF TypeOK, PlaceInv, Goto, deliverVars, Emitters
<1>9. ASSUME NEW a \in Emitters, SendFirst(a) PROVE PlaceInv'
  BY <1>9 DEF TypeOK, PlaceInv, SendFirst, Emitted, Goto, deliverVars, Edge
<1>10. ASSUME NEW a \in Emitters, Displace(a) PROVE PlaceInv'
  BY <1>10 DEF TypeOK, PlaceInv, Displace, Goto, deliverVars, Edge
<1>11. ASSUME NEW a \in Emitters, SendAgain(a) PROVE PlaceInv'
  BY <1>11 DEF TypeOK, PlaceInv, SendAgain, Emitted, Goto, deliverVars, Edge
<1>12. CASE Tick \/ UNCHANGED vars
  BY <1>12 DEF PlaceInv, Tick, vars, sendVars, deliverVars
<1> QED
  BY <1>1, <1>2, <1>3, <1>4, <1>5, <1>6, <1>7, <1>8, <1>9, <1>10, <1>11, <1>12 DEF Next, Send

-----------------------------------------------------------------------------
(* The hold *)

\* A detection: the deadline is linger after it, or already later.
LEMMA HandleHold ==
  ASSUME TypeOK, HoldInv, NEW c \in Cameras, NEW t \in 0 .. MaxLag
  PROVE  Hold(c, t) >= LongPast /\ Hold(c, t) + t >= Linger[c]
BY Constants DEF TypeOK, HoldInv, Hold

\* Time passes: the deadline comes nearer as the camera stays quiet.
LEMMA TickHold == ASSUME TypeOK, HoldInv, Tick PROVE HoldInv'
<1> SUFFICES ASSUME NEW c \in Cameras
             PROVE  /\ clearIn'[c] >= LongPast
                    /\ c \in Recorded /\ on'[c] => clearIn'[c] + quiet'[c] >= Linger[c]
  BY DEF HoldInv, LongPast
<1>1. clearIn[c] \in Int /\ quiet[c] \in Nat /\ on' = on /\ clearIn[c] >= LongPast
  BY DEF TypeOK, Tick, HoldInv
<1>2. clearIn'[c] = IF clearIn[c] > LongPast THEN clearIn[c] - 1 ELSE LongPast
  BY DEF Tick
<1>3. clearIn'[c] >= LongPast /\ clearIn'[c] + 1 >= clearIn[c] /\ clearIn'[c] \in Int
  BY <1>1, <1>2, Constants
<1>4. ASSUME c \in Recorded, on[c] PROVE clearIn'[c] + quiet'[c] >= Linger[c]
  <2>1. quiet'[c] = quiet[c] + 1 \/ quiet'[c] = LongestLinger(c) + MaxLag
    BY <1>1, <1>4, AgeType DEF Tick
  <2>2. clearIn[c] + quiet[c] >= Linger[c]
    BY <1>4 DEF HoldInv
  <2>3. clearIn[c] + quiet[c] \in Int
    BY <1>1
  <2> QED BY <1>1, <1>3, <2>1, <2>2, Constants
<1> QED
  BY <1>1, <1>3, <1>4

LEMMA HoldStep == ASSUME TypeOK, HoldInv, [Next]_vars PROVE HoldInv'
<1>1. CASE Handle
  <2>1. PICK c \in detected :
          /\ clearIn' = [clearIn EXCEPT ![c] = Hold(c, lag["subscriber"])]
          /\ quiet' = [quiet EXCEPT ![c] = IF c \in Recorded THEN lag["subscriber"] ELSE @]
          /\ on' = [on EXCEPT ![c] = TRUE] \/ (on' = on /\ on[c])
    BY <1>1 DEF Handle
  <2>2. c \in Cameras /\ lag["subscriber"] \in 0 .. MaxLag
    BY DEF TypeOK, Emitters
  <2>3. Hold(c, lag["subscriber"]) >= LongPast
        /\ Hold(c, lag["subscriber"]) + lag["subscriber"] >= Linger[c]
    BY <2>2, HandleHold
  <2>4. ASSUME NEW d \in Cameras, d # c
        PROVE  UNCHANGED <<clearIn[d], quiet[d], on[d]>>
    BY <2>1, <2>4 DEF TypeOK
  <2>5. clearIn'[c] = Hold(c, lag["subscriber"]) /\ (c \in Recorded => quiet'[c] = lag["subscriber"])
    BY <2>1, <2>2 DEF TypeOK
  <2> QED BY <2>3, <2>4, <2>5 DEF HoldInv, LongPast
<1>2. CASE Sweep
  <2>1. \A c \in Cameras :
          /\ (clearIn'[c] = LongPast /\ ~on'[c]) \/ (clearIn'[c] = clearIn[c] /\ on'[c] = on[c])
          /\ quiet'[c] = quiet[c]
    BY <1>2 DEF Sweep, TypeOK
  <2> QED BY <2>1, Constants DEF HoldInv, LongPast
<1>3. CASE BridgeRestart
  BY <1>3, Constants DEF HoldInv, BridgeRestart, LongPast
<1>4. ASSUME UNCHANGED levelVars PROVE HoldInv'
  BY <1>4 DEF HoldInv, levelVars, LongPast
<1>5. ASSUME NEW c \in Cameras, Detect(c) \/ Take(c) \/ Deliver(c) \/ SidecarRestart(c)
      PROVE  UNCHANGED levelVars
  BY <1>5 DEF Detect, Take, Deliver, SidecarRestart
<1>6. ASSUME NEW a \in Emitters, Send(a) PROVE UNCHANGED levelVars
  BY <1>6 DEF Send, SendFirst, Displace, SendAgain
<1>7. CASE Wake \/ UNCHANGED vars
  BY <1>4, <1>7 DEF Wake, vars
<1> QED
  BY <1>1, <1>2, <1>3, <1>4, <1>5, <1>6, <1>7, TickHold DEF Next

-----------------------------------------------------------------------------
(* The level *)

\* a does not take an edge of c in hand, nor comes to the last step of its Send.
Keeps(a, c) ==
    /\ \A e \in Emission(a)' : e.cam = c => e \in Emission(a)
    /\ InEmission(a, c)' = InEmission(a, c)
    /\ pc'[a] = "retry" /\ (\E e \in sending'[a] : e.cam = c) =>
          pc[a] = "retry" /\ \E e \in sending[a] : e.cam = c

\* A step about other cameras.
LEMMA Elsewhere ==
  ASSUME NEW c \in Recorded, Last(c), \A a \in Emitters : Keeps(a, c),
         UNCHANGED <<on[c], queue[c], delivering[c], motionState[c], lost[c]>>
  PROVE  Last(c)'
<1>1. Lone(c)'
  BY DEF Last, Lone, Carries, Keeps, Emitters
<1>2. \A a \in Emitters :
        pc'[a] = "retry" /\ (\E e \in sending'[a] : e.cam = c) => queue'[c] = {}
  BY DEF Last, Keeps
<1>3. ASSUME \A a \in Emitters : ~InEmission(a, c)'
      PROVE  \A a \in Emitters : ~InEmission(a, c)
  BY <1>3 DEF Keeps
<1> QED
  BY <1>1, <1>2, <1>3 DEF Last, Carries

\* A step that leaves all emissions alone.
LEMMA Quietly ==
  ASSUME NEW c \in Cameras, UNCHANGED <<outbox, sending>>,
         \A a \in Emitters : pc'[a] = "retry" => pc[a] = "retry"
  PROVE  \A a \in Emitters : Keeps(a, c)
BY DEF Keeps, Emission, InEmission

\* The first edge of c after a time when nobody was emitting one.
LEMMA NewEdge ==
  ASSUME TypeOK, PlaceInv, NEW c \in Recorded, NEW a \in Emitters,
         pc[a] = "lock", UNCHANGED <<sending, queue>>, Goto(a, "emit"),
         \A b \in Emitters : b # a => outbox'[b] = outbox[b],
         \A b \in Emitters : b # a => ~InEmission(b, c),
         InEmission(a, c)', Carries(outbox[a], c)'
  PROVE  Last(c)'
<1>1. sending[a] = {} /\ sending' = sending
  BY DEF PlaceInv
<1>2. \A b \in Emitters : b # a => ~InEmission(b, c)'
  BY <1>1 DEF InEmission
<1>3. Lone(c)'
  BY <1>1, <1>2 DEF Lone, Carries, Emission, InEmission, Emitters
<1>4. \A b \in Emitters : ~(pc'[b] = "retry" /\ \E e \in sending'[b] : e.cam = c)
  BY <1>1, <1>2 DEF InEmission, Emission
<1> QED
  BY <1>3, <1>4 DEF Last

LEMMA HandleLevel == ASSUME TypeOK, PlaceInv, LevelInv, Handle PROVE LevelInv'
<1>1. PICK c \in detected :
        /\ pc["subscriber"] = "lock" /\ UNCHANGED <<sending, queue, deliverVars>>
        /\ \/ /\ on' = [on EXCEPT ![c] = TRUE]
              /\ outbox' = [outbox EXCEPT !["subscriber"] = {[cam |-> c, on |-> TRUE]}]
              /\ raced' = [raced EXCEPT ![c] = Overlaps("sweeper", c)]
              /\ Goto("subscriber", "emit")
           \/ Goto("subscriber", "idle") /\ UNCHANGED <<on, outbox, raced>>
  BY DEF Handle
<1>2. c \in Cameras /\ "subscriber" \in Emitters /\ outbox["subscriber"] = {}
      /\ sending["subscriber"] = {}
  BY <1>1 DEF TypeOK, PlaceInv, Emitters
<1> SUFFICES ASSUME NEW d \in Recorded, ~raced'[d] PROVE Last(d)'
  BY DEF LevelInv
<1>3. d \in Cameras
  BY RecordedAssumption
<1>4. CASE UNCHANGED <<on, outbox, raced>>
  <2>1. Last(d)
    BY <1>4 DEF LevelInv
  <2>2. \A a \in Emitters : pc'[a] = "retry" => pc[a] = "retry"
    BY <1>1 DEF Goto, TypeOK
  <2> QED BY <1>1, <1>3, <1>4, <2>1, <2>2, Quietly, Elsewhere DEF deliverVars
<1>5. CASE /\ on' = [on EXCEPT ![c] = TRUE]
           /\ outbox' = [outbox EXCEPT !["subscriber"] = {[cam |-> c, on |-> TRUE]}]
           /\ raced' = [raced EXCEPT ![c] = Overlaps("sweeper", c)]
           /\ Goto("subscriber", "emit")
  <2> DEFINE new == [cam |-> c, on |-> TRUE]
  <2>1. new.cam = c /\ new.on = TRUE
    OBVIOUS
  <2>2. /\ outbox'["subscriber"] = {new} /\ on'[c] = TRUE
        /\ \A b \in Emitters : b # "subscriber" => outbox'[b] = outbox[b]
    BY <1>2, <1>5 DEF TypeOK
  <2> HIDE DEF new
  <2>3. CASE d = c
    <3>1. ~Overlaps("sweeper", c)
      BY <1>2, <1>5, <2>3 DEF TypeOK
    <3>2. \A b \in Emitters : b # "subscriber" => ~InEmission(b, c)
      BY <2>3, <3>1 DEF Overlaps, Emitters
    <3>3. InEmission("subscriber", c)'
      BY <2>1, <2>2 DEF InEmission
    <3>4. Carries(outbox["subscriber"], c)'
      BY <2>1, <2>2 DEF Carries
    <3> QED BY <1>1, <1>2, <1>5, <2>2, <2>3, <3>2, <3>3, <3>4, NewEdge
  <2>4. CASE d # c
    <3>1. Last(d)
      BY <1>5, <2>4 DEF LevelInv, TypeOK
    <3>2. Keeps("subscriber", d)
      BY <1>1, <1>2, <2>1, <2>2, <2>4 DEF Keeps, Emission, InEmission
    <3>3. \A b \in Emitters : b # "subscriber" => Keeps(b, d)
      BY <1>1, <1>5, <2>2 DEF Keeps, Emission, InEmission, Goto, TypeOK
    <3>4. UNCHANGED <<on[d], queue[d], delivering[d], motionState[d], lost[d]>>
      BY <1>1, <1>3, <1>5, <2>4 DEF TypeOK, deliverVars
    <3> QED BY <3>1, <3>2, <3>3, <3>4, Elsewhere
  <2> QED BY <2>3, <2>4
<1> QED
  BY <1>1, <1>4, <1>5

LEMMA SweepLevel == ASSUME TypeOK, PlaceInv, LevelInv, Sweep PROVE LevelInv'
<1> DEFINE down == {c \in Cameras : Lowers(c, lag["sweeper"])}
           Fall(c) == [cam |-> c, on |-> FALSE]
<1>1. /\ pc["sweeper"] = "lock" /\ UNCHANGED <<sending, queue, deliverVars>>
      /\ on' = [c \in Cameras |-> on[c] /\ c \notin down]
      /\ outbox' = [outbox EXCEPT !["sweeper"] = {Fall(c) : c \in down}]
      /\ raced' = [c \in Cameras |-> IF c \in down THEN Overlaps("subscriber", c) ELSE raced[c]]
      /\ Goto("sweeper", IF down = {} THEN "idle" ELSE "emit")
  BY DEF Sweep
<1>2. outbox["sweeper"] = {} /\ sending["sweeper"] = {} /\ "sweeper" \in Emitters
  BY <1>1 DEF PlaceInv, Emitters
<1>3. \A c \in Cameras : Fall(c).cam = c /\ Fall(c).on = FALSE
  OBVIOUS
<1> HIDE DEF Fall
<1>4. /\ outbox'["sweeper"] = {Fall(c) : c \in down}
      /\ \A b \in Emitters : b # "sweeper" => outbox'[b] = outbox[b]
  BY <1>1, <1>2 DEF TypeOK
<1> SUFFICES ASSUME NEW d \in Recorded, ~raced'[d] PROVE Last(d)'
  BY DEF LevelInv
<1>5. d \in Cameras /\ down \subseteq Cameras
  BY RecordedAssumption
<1> HIDE DEF down
<1>6. CASE d \in down
  <2>1. ~Overlaps("subscriber", d)
    BY <1>1, <1>5, <1>6
  <2>2. \A b \in Emitters : b # "sweeper" => ~InEmission(b, d)
    BY <2>1 DEF Overlaps, Emitters
  <2>3. InEmission("sweeper", d)'
    BY <1>3, <1>4, <1>5, <1>6 DEF InEmission
  <2>4. on'[d] = FALSE
    BY <1>1, <1>5, <1>6
  <2>5. Carries(outbox["sweeper"], d)'
    <3> SUFFICES ASSUME NEW e \in outbox'["sweeper"], e.cam = d PROVE e.on = on'[d]
      BY DEF Carries
    <3>1. PICK c \in down : e = Fall(c)
      BY <1>4
    <3> QED BY <1>3, <1>5, <2>4, <3>1
  <2>6. pc["sweeper"] = "lock" /\ UNCHANGED <<sending, queue>> /\ Goto("sweeper", "emit")
    BY <1>1, <1>6 DEF Goto
  <2> QED BY <1>2, <1>4, <2>2, <2>3, <2>5, <2>6, NewEdge
<1>7. CASE d \notin down
  <2>1. Last(d)
    BY <1>1, <1>5, <1>7 DEF LevelInv
  <2>2. Keeps("sweeper", d)
    BY <1>1, <1>2, <1>3, <1>4, <1>5, <1>7 DEF Keeps, Emission, InEmission
  <2>3. \A b \in Emitters : b # "sweeper" => Keeps(b, d)
    BY <1>1, <1>4 DEF Keeps, Emission, InEmission, Goto, TypeOK
  <2>4. on'[d] = on[d]
    <3>1. on'[d] = (on[d] /\ d \notin down) /\ on[d] \in BOOLEAN
      BY <1>1, <1>5 DEF TypeOK
    <3> QED BY <1>7, <3>1
  <2>5. UNCHANGED <<queue[d], delivering[d], motionState[d], lost[d]>>
    BY <1>1 DEF deliverVars
  <2> QED BY <2>1, <2>2, <2>3, <2>4, <2>5, Elsewhere
<1> QED
  BY <1>6, <1>7

\* A step of Send, with the edge it sends.
LEMMA SendStep ==
  ASSUME TypeOK, PlaceInv, NEW a \in Emitters, Send(a)
  PROVE  \E e \in Emission(a) :
            /\ UNCHANGED <<levelVars, deliverVars, raced>>
            /\ \A b \in Emitters : b # a => Keeps(b, e.cam)
            /\ \A c \in Cameras : c # e.cam =>
                  queue'[c] = queue[c] /\ \A b \in Emitters : Keeps(b, c)
            /\ \/ /\ e \notin sending[a] /\ queue'[e.cam] = {e}
                  /\ pc'[a] # "retry" /\ Emission(a)' \subseteq Emission(a)
               \/ /\ queue'[e.cam] = queue[e.cam]
                  /\ pc'[a] # "retry" /\ Emission(a)' = Emission(a)
               \/ /\ queue'[e.cam] = {} /\ UNCHANGED <<outbox, sending>>
               \/ /\ pc[a] = "retry" /\ e \in sending[a] /\ pc'[a] # "retry"
                  /\ Emission(a)' \subseteq Emission(a)
                  /\ queue'[e.cam] = IF queue[e.cam] = {} THEN {e} ELSE queue[e.cam]
<1>1. \A e \in Emission(a) : e.cam \in Cameras
  BY DEF Emission, TypeOK, Edge
<1>2. \A b \in Emitters : b # a => outbox'[b] = outbox[b] /\ sending'[b] = sending[b]
                                                       /\ pc'[b] = pc[b]
  BY DEF Send, SendFirst, Displace, SendAgain, Emitted, Goto, TypeOK
<1>3. \A b \in Emitters, c \in Cameras : b # a => Keeps(b, c)
  BY <1>2 DEF Keeps, Emission, InEmission
<1>4. \A e \in sending[a] : sending[a] = {e}
  BY DEF PlaceInv
<1>5. CASE SendFirst(a)
  <2>1. PICK e \in outbox[a] :
          /\ pc[a] = "emit" /\ UNCHANGED <<levelVars, deliverVars, raced>>
          /\ outbox' = [outbox EXCEPT ![a] = outbox[a] \ {e}]
          /\ \/ queue' = [queue EXCEPT ![e.cam] = {e}] /\ UNCHANGED sending
             \/ queue' = queue /\ sending' = [sending EXCEPT ![a] = {e}]
          /\ \E label \in {"idle", "emit", "displace"} : Goto(a, label)
    BY <1>5 DEF SendFirst, Emitted
  <2>2. sending[a] = {} /\ outbox'[a] = outbox[a] \ {e} /\ pc'[a] # "retry"
    BY <2>1 DEF PlaceInv, TypeOK, Goto
  <2>3. e \in Emission(a) /\ e.cam \in Cameras
    BY <1>1 DEF Emission
  <2>4. CASE queue' = [queue EXCEPT ![e.cam] = {e}] /\ UNCHANGED sending
    <3>1. queue'[e.cam] = {e} /\ \A c \in Cameras : c # e.cam => queue'[c] = queue[c]
      BY <2>3, <2>4 DEF PlaceInv
    <3>2. Emission(a)' = Emission(a) \ {e}
      BY <2>2, <2>4 DEF Emission
    <3>3. \A c \in Cameras : c # e.cam => Keeps(a, c)
      BY <2>2, <3>2 DEF Keeps, InEmission, Emission
    <3> QED BY <1>3, <2>1, <2>2, <2>3, <3>1, <3>2, <3>3
  <2>5. CASE queue' = queue /\ sending' = [sending EXCEPT ![a] = {e}]
    <3>1. sending'[a] = {e}
      BY <2>5 DEF TypeOK
    <3>2. Emission(a)' = Emission(a)
      BY <2>2, <3>1 DEF Emission
    <3>3. \A c \in Cameras : c # e.cam => Keeps(a, c)
      BY <2>2, <3>2 DEF Keeps, InEmission, Emission
    <3> QED BY <1>3, <2>1, <2>2, <2>3, <2>5, <3>2, <3>3
  <2> QED BY <2>1, <2>4, <2>5
<1>6. CASE Displace(a)
  <2>1. PICK e \in sending[a] : queue' = [queue EXCEPT ![e.cam] = {}]
    BY <1>6 DEF Displace
  <2>2. e \in Emission(a) /\ e.cam \in Cameras
    BY <1>1 DEF Emission
  <2>3. UNCHANGED <<levelVars, deliverVars, raced, outbox, sending>>
    BY <1>6 DEF Displace
  <2>4. queue'[e.cam] = {} /\ \A c \in Cameras : c # e.cam => queue'[c] = queue[c]
    BY <2>1, <2>2 DEF PlaceInv
  <2>5. \A c \in Cameras : c # e.cam => Keeps(a, c)
    BY <1>4, <2>1, <2>3 DEF Keeps, InEmission, Emission
  <2> QED BY <1>3, <2>2, <2>3, <2>4, <2>5
<1>7. CASE SendAgain(a)
  <2>1. PICK e \in sending[a] :
          queue' = [queue EXCEPT ![e.cam] = IF queue[e.cam] = {} THEN {e} ELSE queue[e.cam]]
    BY <1>7 DEF SendAgain
  <2>2. e \in Emission(a) /\ e.cam \in Cameras
    BY <1>1 DEF Emission
  <2>3. /\ UNCHANGED <<levelVars, deliverVars, raced, outbox>> /\ pc[a] = "retry"
        /\ sending'[a] = {} /\ pc'[a] # "retry"
    BY <1>7 DEF SendAgain, Emitted, Goto, TypeOK
  <2>4. /\ queue'[e.cam] = IF queue[e.cam] = {} THEN {e} ELSE queue[e.cam]
        /\ \A c \in Cameras : c # e.cam => queue'[c] = queue[c]
    BY <2>1, <2>2 DEF PlaceInv
  <2>5. Emission(a)' \subseteq Emission(a) /\ Emission(a) \ {e} \subseteq Emission(a)'
    BY <1>4, <2>1, <2>3 DEF Emission
  <2>6. \A c \in Cameras : c # e.cam => Keeps(a, c)
    BY <2>3, <2>5 DEF Keeps, InEmission, Emission
  <2> QED BY <1>3, <2>1, <2>2, <2>3, <2>4, <2>5, <2>6
<1> QED
  BY <1>5, <1>6, <1>7 DEF Send

LEMMA SendLevel ==
  ASSUME TypeOK, PlaceInv, LevelInv, NEW a \in Emitters, Send(a) PROVE LevelInv'
<1>1. PICK e \in Emission(a) :
        /\ UNCHANGED <<levelVars, deliverVars, raced>>
        /\ \A b \in Emitters : b # a => Keeps(b, e.cam)
        /\ \A c \in Cameras : c # e.cam =>
              queue'[c] = queue[c] /\ \A b \in Emitters : Keeps(b, c)
        /\ \/ /\ e \notin sending[a] /\ queue'[e.cam] = {e}
              /\ pc'[a] # "retry" /\ Emission(a)' \subseteq Emission(a)
           \/ /\ queue'[e.cam] = queue[e.cam]
              /\ pc'[a] # "retry" /\ Emission(a)' = Emission(a)
           \/ /\ queue'[e.cam] = {} /\ UNCHANGED <<outbox, sending>>
           \/ /\ pc[a] = "retry" /\ e \in sending[a] /\ pc'[a] # "retry"
              /\ Emission(a)' \subseteq Emission(a)
              /\ queue'[e.cam] = IF queue[e.cam] = {} THEN {e} ELSE queue[e.cam]
  BY SendStep
<1> SUFFICES ASSUME NEW d \in Recorded, ~raced'[d] PROVE Last(d)'
  BY DEF LevelInv
<1>2. d \in Cameras /\ Last(d) /\ UNCHANGED <<on[d], delivering[d], motionState[d], lost[d]>>
  BY <1>1, RecordedAssumption DEF LevelInv, levelVars, deliverVars
<1>3. CASE d # e.cam
  BY <1>1, <1>2, <1>3, Elsewhere
<1>4. CASE d = e.cam
  <2>1. e.on = on[d] /\ InEmission(a, d)
    BY <1>2, <1>4 DEF Last, Lone, Carries, Emission, InEmission
  <2>2. \A b \in Emitters : b # a => ~InEmission(b, d) /\ ~InEmission(b, d)'
    BY <1>1, <1>2, <1>4, <2>1 DEF Last, Lone, Keeps, Emitters
  <2>3. Emission(a)' \subseteq Emission(a)
    BY <1>1 DEF Emission
  <2>4. \A b \in Emitters : Carries(Emission(b), d)'
    BY <1>1, <1>2, <1>4, <2>3 DEF Last, Lone, Carries, Keeps
  <2>5. Lone(d)'
    BY <2>2, <2>4 DEF Lone, Emitters
  <2>6. \A b \in Emitters : b # a => ~\E f \in sending'[b] : f.cam = d
    BY <2>2 DEF InEmission
  <2>7. CASE queue'[d] = {e} /\ pc'[a] # "retry"
    BY <1>2, <1>4, <2>1, <2>5, <2>6, <2>7 DEF Last, Carries
  <2>8. CASE InEmission(a, d)' /\ (pc'[a] # "retry" \/ queue'[d] = {})
    BY <2>5, <2>6, <2>8 DEF Last
  <2>9. pc[a] = "retry" /\ e \in sending[a] => queue[d] = {}
    BY <1>2, <1>4 DEF Last
  <2> QED
    BY <1>1, <1>4, <2>1, <2>7, <2>8, <2>9 DEF InEmission, Emission
<1> QED
  BY <1>3, <1>4


LEMMA LevelStep == ASSUME TypeOK, PlaceInv, LevelInv, [Next]_vars PROVE LevelInv'
<1> SUFFICES ASSUME ~Handle, ~Sweep, \A a \in Emitters : ~Send(a),
                    NEW c \in Recorded, ~raced'[c]
             PROVE  Last(c)'
  BY HandleLevel, SweepLevel, SendLevel DEF LevelInv
<1>0. c \in Cameras
  BY RecordedAssumption
<1>1. CASE raced' = raced /\ UNCHANGED <<outbox, sending>>
           /\ \A a \in Emitters : pc'[a] = "retry" => pc[a] = "retry"
  <2>1. Last(c) /\ \A a \in Emitters : Keeps(a, c)
    BY <1>0, <1>1, Quietly DEF LevelInv
  <2>2. ASSUME NEW d \in Cameras, Take(d) PROVE Last(c)'
    <3>1. CASE d = c
      <4>1. queue'[c] = {} /\ delivering'[c] = queue[c] /\ delivering[c] = {}
        BY <1>0, <2>2, <3>1 DEF Take, PlaceInv
      <4>2. UNCHANGED <<on, motionState, lost, outbox, sending>> /\ queue[c] # {}
        BY <2>2, <3>1 DEF Take, levelVars
      <4> QED BY <1>1, <2>1, <4>1, <4>2 DEF Last, Lone, Carries, InEmission, Emission
    <3>2. CASE d # c
      BY <1>0, <2>1, <2>2, <3>2, Elsewhere DEF Take, levelVars, PlaceInv
    <3> QED BY <3>1, <3>2
  <2>3. ASSUME NEW d \in Cameras, Deliver(d) PROVE Last(c)'
    <3>1. CASE d = c
      <4>1. PICK e \in delivering[c] :
              \/ motionState' = [motionState EXCEPT ![c] = e.on]
              \/ lost' = [lost EXCEPT ![c] = TRUE]
        BY <2>3, <3>1 DEF Deliver
      <4>2. /\ UNCHANGED <<on, queue, outbox, sending>> /\ delivering'[c] = {}
            /\ e.cam = c /\ (motionState'[c] = e.on \/ lost'[c])
        BY <1>0, <2>3, <3>1, <4>1 DEF Deliver, TypeOK, PlaceInv, Place, levelVars, sendVars
      <4> QED BY <1>1, <2>1, <4>2 DEF Last, Lone, Carries, InEmission, Emission
    <3>2. CASE d # c
      BY <1>0, <2>1, <2>3, <3>2, Elsewhere DEF Deliver, levelVars, sendVars, PlaceInv, TypeOK
    <3> QED BY <3>1, <3>2
  <2>4. ASSUME NEW d \in Cameras, SidecarRestart(d) PROVE Last(c)'
    <3>1. CASE d = c
      <4>1. UNCHANGED <<on, queue, delivering, outbox, sending>> /\ lost'[c]
        BY <1>0, <2>4, <3>1 DEF SidecarRestart, TypeOK, levelVars, sendVars
      <4> QED BY <1>1, <2>1, <4>1 DEF Last, Lone, Carries, InEmission, Emission
    <3>2. CASE d # c
      BY <1>0, <2>1, <2>4, <3>2, Elsewhere DEF SidecarRestart, levelVars, sendVars, TypeOK
    <3> QED BY <3>1, <3>2
  <2>5. CASE UNCHANGED <<on, queue, deliverVars>>
    BY <2>1, <2>5, Elsewhere DEF deliverVars
  <2>6. ASSUME NEW d \in Cameras, Detect(d) PROVE Last(c)'
    BY <2>5, <2>6 DEF Detect, levelVars, sendVars
  <2>7. CASE Wake \/ Tick \/ UNCHANGED vars
    BY <2>5, <2>7 DEF Wake, Tick, vars, levelVars, sendVars
  <2>8. CASE BridgeRestart
    BY <1>0, <2>8 DEF BridgeRestart, Last, Lone, Carries, InEmission, Emission, Emitters
  <2> QED BY <2>2, <2>3, <2>4, <2>6, <2>7, <2>8 DEF Next
<1>2. CASE BridgeRestart
  BY <1>0, <1>2 DEF BridgeRestart, Last, Lone, Carries, InEmission, Emission, Emitters
<1>3. ASSUME NEW d \in Cameras, Detect(d) \/ Take(d) \/ Deliver(d) \/ SidecarRestart(d)
      PROVE  raced' = raced /\ UNCHANGED <<outbox, sending>>
             /\ \A a \in Emitters : pc'[a] = "retry" => pc[a] = "retry"
  BY <1>3 DEF Detect, Take, Deliver, SidecarRestart, sendVars, Goto, TypeOK
<1>4. CASE Wake \/ Tick \/ UNCHANGED vars
  BY <1>1, <1>4 DEF Wake, Tick, vars, sendVars, Goto, TypeOK
<1> QED
  BY <1>1, <1>2, <1>3, <1>4 DEF Next

-----------------------------------------------------------------------------

LEMMA MotionInit == Init => MotionInv
<1> SUFFICES ASSUME Init PROVE MotionInv
  OBVIOUS
<1>1. TypeOK
  BY Constants DEF Init, TypeOK, Place
<1>2. PlaceInv
  BY DEF Init, PlaceInv
<1>3. HoldInv
  <2>1. \A c \in Cameras : clearIn[c] = LongPast /\ on[c] = FALSE
    BY DEF Init
  <2> SUFFICES ASSUME NEW c \in Cameras PROVE clearIn[c] >= LongPast /\ on[c] = FALSE
    BY DEF HoldInv
  <2>2. LongPast \in Int
    BY Constants
  <2> QED BY <2>1, <2>2
<1>4. LevelInv
  <2>1. /\ \A c \in Cameras : queue[c] = {} /\ delivering[c] = {} /\ motionState[c] = on[c]
        /\ \A a \in Emitters : outbox[a] = {} /\ sending[a] = {}
    BY DEF Init
  <2> QED BY <2>1, RecordedAssumption DEF LevelInv, Last, Lone, Carries, InEmission, Emission, Emitters
<1> QED
  BY <1>1, <1>2, <1>3, <1>4 DEF MotionInv

LEMMA MotionStep == MotionInv /\ [Next]_vars => MotionInv'
BY TypeStep, PlaceStep, HoldStep, LevelStep DEF MotionInv

\* The level falls only at the end of its hold or of its window.
LEMMA FallStep ==
  ASSUME TypeOK, HoldInv, [Next]_vars, NEW c \in Recorded, on[c], ~on'[c]
  PROVE  quiet[c] >= Linger[c] \/ upFor[c] >= MaxDuration \/ BridgeRestart
<1>0. c \in Cameras
  BY RecordedAssumption
<1>1. CASE Sweep
  <2>1. Lowers(c, lag["sweeper"])
    BY <1>0, <1>1 DEF Sweep
  <2>2. lag["sweeper"] \in Nat /\ clearIn[c] \in Int /\ quiet[c] \in Nat /\ upFor[c] \in Nat
    BY <1>0, Constants DEF TypeOK, Emitters
  <2>3. clearIn[c] + quiet[c] >= Linger[c]
    BY <1>0 DEF HoldInv
  <2> QED BY <1>0, <2>1, <2>2, <2>3, Constants DEF Lowers
<1>2. CASE Handle
  BY <1>0, <1>2 DEF Handle, TypeOK
<1>3. ASSUME NEW d \in Cameras, Detect(d) \/ Take(d) \/ Deliver(d) \/ SidecarRestart(d)
      PROVE  on' = on
  BY <1>3 DEF Detect, Take, Deliver, SidecarRestart, levelVars
<1>4. ASSUME NEW a \in Emitters, Send(a) PROVE on' = on
  BY <1>4 DEF Send, SendFirst, Displace, SendAgain, levelVars
<1>5. CASE Wake \/ Tick \/ UNCHANGED vars
  BY <1>5 DEF Wake, Tick, vars, levelVars
<1> QED
  BY <1>1, <1>2, <1>3, <1>4, <1>5 DEF Next

\* Neither a queue nor a post ever holds two edges, or another camera's, and
\* no clock reading is older than its bound (motion.go:199-251).
THEOREM MotionTypes == Spec => []TypeOK
BY MotionInit, MotionStep, PTL DEF Spec, MotionInv

\* The level falls only when the camera has been quiet for its linger or its
\* window is at the ceiling (motion.go:108-193), for any lingers and however
\* old the clock readings are that Handle and Sweep compare.
THEOREM HoldCorrect == Spec => HeldForLinger
<1>1. MotionInv /\ [Next]_vars =>
        [\A c \in Recorded : on[c] /\ ~on'[c] =>
          quiet[c] >= Linger[c] \/ upFor[c] >= MaxDuration \/ BridgeRestart]_vars
  BY FallStep DEF MotionInv
<1> QED
  BY <1>1, MotionInit, MotionStep, PTL DEF Spec, HeldForLinger

\* Send's coalescing loses no final state (motion.go:219-251): once nothing is
\* on its way the sidecar shows the tracker's level, for any number of cameras
\* and any interleaving of the two emitters that does not overlap.
THEOREM SettleCorrect == Spec => []SettlesWithoutRace
<1>1. MotionInv => SettlesWithoutRace
  BY DEF MotionInv, LevelInv, Last, SettlesWithoutRace, Settled
<1> QED
  BY <1>1, MotionInit, MotionStep, PTL DEF Spec

-----------------------------------------------------------------------------
(***************************************************************************)
(* The whole path                                                          *)
(*                                                                         *)
(* OweInv says where a detection the tracker has not been told of is while *)
(* its message is in the batch: undispatched, among the calls to come, or  *)
(* inside Handle.  An acknowledgement waits for all three to be over, so   *)
(* the messages it gives up are owed nothing.  BusInv says that whoever    *)
(* Publish has still to serve is a client, and every client's channel is   *)
(* open.  ViewInv says where the edge is that brings a browser to the      *)
(* level of a camera on which no two emissions raced: still to be offered  *)
(* to it (Pending), or it is the last of that camera the browser was told  *)
(* of, in its channel or already shown (Told).                             *)
(***************************************************************************)

\* A goroutine has a detection in hand only where it waits for t.mu.
InHand ==
    /\ DOMAIN pc = Emitters
    /\ pc["subscriber"] # "lock" => detected = {}

\* Where what is owed is.
OweInv ==
    /\ InHand
    /\ \A call \in owed : call \in Calls(call.msg)
    /\ \A call \in owed : call.msg \in Held
    /\ \A call \in owed : call.msg \in batch =>
          call.msg \in left \/ call \in calls \/ call.device \in detected

\* Where the bus's channels are.
BusInv ==
    /\ DOMAIN publishing = Publishers
    /\ \A a \in Publishers :
          /\ publishing[a] = [edge |-> publishing[a].edge, to |-> publishing[a].to]
          /\ publishing[a].to \subseteq clients
    /\ clients \subseteq open

PathInv == OweInv /\ BusInv

\* A goroutine publishes an edge it has in hand.
PublishingInv ==
    \A a \in Publishers :
        /\ publishing[a].edge = {} => publishing[a].to = {}
        /\ publishing[a].edge # {} => pc[a] = "emit"
        /\ publishing[a].edge \subseteq outbox[a]
        /\ \A e, f \in publishing[a].edge : e = f

\* What the channels hold, and nothing of those who are no clients.
ChannelInv ==
    /\ chan \in [Viewers -> Seq(Edge)]
    /\ shown \in [Viewers -> SUBSET Edge]
    /\ \A v \in Viewers \ clients : chan[v] = <<>> /\ shown[v] = {}
    /\ missed \subseteq clients

ViewTypeInv == BusTypeOK /\ PublishingInv /\ ChannelInv

\* Some edge of c has still to be offered to v.
Pending(v, c) ==
    \E a \in Emitters : \E e \in outbox[a] :
        e.cam = c /\ (e \in publishing[a].edge => v \in publishing[a].to)

\* The last edge of c in the channel q, or else the one already shown, carries
\* c's level.
Told(q, last, c) ==
    /\ \A i \in 1 .. Len(q) :
          q[i].cam = c /\ (\A j \in 1 .. Len(q) : j > i => q[j].cam # c) =>
              q[i].on = on[c]
    /\ (\A i \in 1 .. Len(q) : q[i].cam # c) => \A e \in last : e.cam = c => e.on = on[c]

\* Where the last edge of c is on its way to a browser.
ViewInv ==
    \A v \in clients \ missed, c \in Recorded :
        ~raced[c] /\ ~Pending(v, c) => Told(chan[v], shown[v], c)

\* The calls the subscriber makes are the detections of its batch.
CallsInv == \A call \in calls : call.device \in Devices

-----------------------------------------------------------------------------
(* What a step that leaves a component alone does to its part *)

LEMMA BusAlone == ASSUME BusInv, UNCHANGED busVars PROVE BusInv'
  BY DEF BusInv, busVars

LEMMA OweAlone == ASSUME OweInv, UNCHANGED <<subVars, detected>>, InHand' PROVE OweInv'
  BY DEF OweInv, subVars, Held, Calls

\* Emitters move between places outside t.mu.
LEMMA GotoInHand ==
  ASSUME InHand, NEW a \in Emitters, NEW label, Goto(a, label), UNCHANGED detected,
         a = "subscriber" => pc[a] # "lock"
  PROVE  InHand'
  BY DEF InHand, Goto, Emitters

-----------------------------------------------------------------------------
(* The bus *)

LEMMA PublishBus ==
  ASSUME BusInv, NEW a \in Publishers,
         \/ \E e : Publish(a, e)
         \/ \E v \in Viewers : Offer(a, v)
         \/ Published(a)
  PROVE  BusInv'
<1>1. ASSUME NEW e, Publish(a, e) PROVE BusInv'
  BY <1>1 DEF BusInv, Publish
<1>2. ASSUME NEW v \in Viewers, Offer(a, v) PROVE BusInv'
  BY <1>2 DEF BusInv, Offer
<1>3. CASE Published(a)
  BY <1>3 DEF BusInv, Published, Idle
<1> QED
  BY <1>1, <1>2, <1>3

LEMMA ViewerBus ==
  ASSUME BusInv, NEW v \in Viewers, Subscribe(v) \/ Delete(v) \/ Close(v) \/ Read(v)
  PROVE  BusInv'
<1>1. CASE Subscribe(v)
  BY <1>1 DEF BusInv, Subscribe
<1>2. CASE Delete(v)
  BY <1>2 DEF BusInv, Delete, Forget, Unread, Idle
<1>3. CASE Close(v)
  BY <1>3 DEF BusInv, Close
<1>4. CASE Read(v)
  BY <1>4 DEF BusInv, Read
<1> QED
  BY <1>1, <1>2, <1>3, <1>4

LEMMA BusStep == ASSUME PathInv, PathNext PROVE BusInv'
<1>1. BusInv
  BY DEF PathInv
<1>2. ASSUME NEW a \in Emitters, EmitStep(a) PROVE BusInv'
  <2>0. a \in Publishers
    BY PathAssumption
  <2>1. CASE Announce(a)
    BY <1>1, <2>0, <2>1, PublishBus DEF Announce
  <2>2. CASE Emit(a)
    BY <1>1, <2>0, <2>2, PublishBus DEF Emit
  <2>3. CASE \E v \in Viewers : Offer(a, v) /\ BusOnly
    BY <1>1, <2>0, <2>3, PublishBus
  <2>4. CASE (Displace(a) \/ SendAgain(a)) /\ MotionOnly
    BY <1>1, <2>4, BusAlone DEF MotionOnly
  <2> QED BY <1>2, <2>1, <2>2, <2>3, <2>4 DEF EmitStep
<1>3. ASSUME NEW v \in Viewers, ViewerStep(v) PROVE BusInv'
  BY <1>1, <1>3, ViewerBus DEF ViewerStep
<1>4. CASE PathRestart
  BY <1>4 DEF PathRestart, BusForgotten, BusInv, Idle
<1>5. CASE UNCHANGED busVars
  BY <1>1, <1>5, BusAlone
<1>6. CASE SubscriberStep
  BY <1>2, <1>5, <1>6 DEF SubscriberStep, CallHandle, HandleCall, SubOnly, Emitters
<1>7. CASE SweeperStep
  BY <1>2, <1>5, <1>7 DEF SweeperStep, MotionOnly, Emitters
<1>8. CASE PullStep \/ AcknowledgeStep \/ ExpireStep \/ Fault
  BY <1>5, <1>8 DEF PullStep, AcknowledgeStep, ExpireStep, Fault, SubOnly
<1>9. ASSUME NEW m \in Messages, PublishStep(m) PROVE BusInv'
  BY <1>5, <1>9 DEF PublishStep, SubOnly
<1>10. ASSUME NEW c \in Cameras, SidecarStep(c) PROVE BusInv'
  BY <1>5, <1>10 DEF SidecarStep, MotionOnly
<1>11. CASE Tick /\ MotionOnly
  BY <1>5, <1>11 DEF MotionOnly
<1> QED
  BY <1>3, <1>4, <1>6, <1>7, <1>8, <1>9, <1>10, <1>11 DEF PathNext

-----------------------------------------------------------------------------
(* The subscriber *)

\* What Pub/Sub holds only grows, and what is owed and in hand stays.
LEMMA HandOutOwes ==
  ASSUME OweInv, InHand', UNCHANGED <<owed, detected, calls>>, Held \subseteq Held',
         \/ UNCHANGED <<batch, left>>
         \/ batch' \subseteq left'
  PROVE  OweInv'
  BY DEF OweInv, Calls

LEMMA SubscriberOwes ==
  ASSUME OweInv, SubscriberStep
  PROVE  OweInv'
<1>1. InHand
  BY DEF OweInv
<1>2. ASSUME NEW call \in calls, CallHandle(call) PROVE OweInv'
  <2>1. /\ pc["subscriber"] = "idle" /\ detected = {} /\ detected' = {call.device}
        /\ calls' = calls \ {call}
        /\ UNCHANGED <<offers, leased, subPc, batch, left, owed>>
    BY <1>1, <1>2 DEF CallHandle, Call, Detect, InHand
  <2>2. InHand'
    BY <1>1, <1>2 DEF CallHandle, Detect, Goto, InHand, Emitters
  <2>3. ASSUME NEW o \in owed', o.msg \in batch'
        PROVE  o.msg \in left' \/ o \in calls' \/ o.device \in detected'
    BY <2>1, <2>3 DEF OweInv
  <2> QED BY <2>1, <2>2, <2>3 DEF OweInv, Held, Calls
<1>3. CASE HandleCall
  <2>1. InHand'
    BY <1>1, <1>3 DEF HandleCall, Handle, Goto, InHand, Emitters
  <2>2. /\ owed' = {call \in owed : \/ call.device \notin detected
                                   \/ call.msg \notin batch \ left
                                   \/ call \in calls}
        /\ UNCHANGED <<offers, leased, batch, left, calls>>
    BY <1>3 DEF HandleCall
  <2> QED BY <2>1, <2>2 DEF OweInv, Held, Calls
<1>4. CASE EmitStep("subscriber")
  <2>1. /\ "subscriber" \in Emitters /\ UNCHANGED <<subVars, detected>>
        /\ UNCHANGED pc \/ (pc["subscriber"] # "lock" /\ \E label : Goto("subscriber", label))
    BY <1>4 DEF EmitStep, Announce, Emit, SendFirst, Displace, SendAgain, Emitted, MotionOnly,
               BusOnly, Emitters, vars
  <2>2. InHand'
    BY <1>1, <2>1, GotoInHand DEF InHand
  <2> QED BY <2>1, <2>2, OweAlone
<1>5. CASE Free /\ (\E m \in left : Dispatch(m)) /\ SubOnly
  <2>1. InHand'
    BY <1>1, <1>5 DEF SubOnly, vars, InHand
  <2>2. PICK m \in left : Dispatch(m)
    BY <1>5
  <2>3. /\ calls = {} /\ calls' = Calls(m) /\ left' = left \ {m}
        /\ UNCHANGED <<offers, leased, batch, owed, detected>>
    BY <1>5, <2>2 DEF Dispatch, SubOnly, vars
  <2>4. ASSUME NEW o \in owed', o.msg \in batch'
        PROVE  o.msg \in left' \/ o \in calls' \/ o.device \in detected'
    BY <2>3, <2>4 DEF OweInv
  <2> QED BY <2>1, <2>3, <2>4 DEF OweInv, Held, Calls
<1> QED
  BY <1>2, <1>3, <1>4, <1>5 DEF SubscriberStep

LEMMA SweeperOwes == ASSUME OweInv, SweeperStep PROVE OweInv'
<1>1. /\ "sweeper" \in Emitters /\ UNCHANGED <<subVars, detected>>
      /\ UNCHANGED pc \/ \E label : Goto("sweeper", label)
  BY DEF SweeperStep, Wake, Sweep, EmitStep, Announce, Emit, SendFirst, Displace, SendAgain,
         Emitted, MotionOnly, BusOnly, Emitters, vars
<1>2. InHand'
  BY <1>1, GotoInHand DEF OweInv, InHand
<1> QED
  BY <1>1, <1>2, OweAlone

LEMMA PubSubOwes ==
  ASSUME OweInv,
         PullStep \/ AcknowledgeStep \/ ExpireStep \/ Fault \/ \E m \in Messages : PublishStep(m)
  PROVE  OweInv'
<1>1. InHand' /\ UNCHANGED <<pc, detected>>
  BY DEF OweInv, InHand, PullStep, AcknowledgeStep, ExpireStep, Fault, PublishStep, SubOnly, vars
<1>2. ASSUME NEW msgs, Pull(msgs) PROVE OweInv'
  <2>1. Held \subseteq Held'
    BY <1>2 DEF Pull, HandOut, Held
  <2> QED BY <1>1, <1>2, <2>1, HandOutOwes DEF Pull
<1>3. ASSUME NEW m, PullLost(m) PROVE OweInv'
  <2>1. Held \subseteq Held'
    BY <1>3 DEF PullLost, HandOut, Held
  <2> QED BY <1>1, <1>3, <2>1, HandOutOwes DEF PullLost
<1>4. ASSUME NEW m, Expire(m) PROVE OweInv'
  <2>1. Held \subseteq Held'
    BY <1>4 DEF Expire, Held
  <2> QED BY <1>1, <1>4, <2>1, HandOutOwes DEF Expire
<1>5. CASE AcknowledgeFails
  <2>1. Held \subseteq Held' /\ batch' = {} /\ UNCHANGED <<owed, detected, calls>>
    BY <1>1, <1>5 DEF AcknowledgeFails, Held
  <2> QED BY <1>1, <2>1, HandOutOwes
<1>6. CASE AcknowledgeStep
  <2>1. /\ left = {} /\ calls = {} /\ pc["subscriber"] = "idle"
        /\ batch' = {} /\ UNCHANGED owed
        /\ offers \ batch \subseteq offers' /\ leased' = leased \ batch
    BY <1>6 DEF AcknowledgeStep, Free, Acknowledge, Dispatched, ToAcknowledge
  <2>2. \A o \in owed : o.msg \notin batch
    BY <2>1 DEF OweInv, InHand
  <2> QED BY <1>1, <2>1, <2>2 DEF OweInv, Held, Calls
<1>7. ASSUME NEW m \in Messages, PublishStep(m) PROVE OweInv'
  <2>1. /\ m \notin batch /\ offers' = offers \cup {m} /\ owed' = owed \cup Calls(m)
        /\ UNCHANGED <<leased, batch, left, calls>>
    BY <1>7 DEF PublishStep, PublishMessage
  <2>2. \A o \in Calls(m) : o.msg = m
    BY DEF Calls
  <2>3. \A o \in owed' : o \in Calls(o.msg)
    BY <2>1, <2>2 DEF OweInv
  <2> QED BY <1>1, <2>1, <2>2, <2>3 DEF OweInv, Held, Calls
<1> QED
  BY <1>2, <1>3, <1>4, <1>5, <1>6, <1>7 DEF PullStep, ExpireStep, Fault

LEMMA OweStep == ASSUME PathInv, PathNext PROVE OweInv'
<1>1. OweInv /\ InHand
  BY DEF PathInv, OweInv
<1>2. ASSUME UNCHANGED <<subVars, pc, detected>> PROVE OweInv'
  BY <1>1, <1>2, OweAlone DEF InHand
<1>3. ASSUME NEW v \in Viewers, ViewerStep(v) PROVE OweInv'
  BY <1>2, <1>3 DEF ViewerStep, BusOnly, vars
<1>4. ASSUME NEW c \in Cameras, SidecarStep(c) PROVE OweInv'
  BY <1>2, <1>4 DEF SidecarStep, Take, Deliver, SidecarRestart, MotionOnly
<1>5. CASE Tick /\ MotionOnly
  BY <1>2, <1>5 DEF Tick, MotionOnly
<1>6. CASE PathRestart
  BY <1>1, <1>6 DEF PathRestart, SubForgotten, BridgeRestart, OweInv, InHand, Held, Calls, Emitters
<1> QED
  BY <1>1, <1>3, <1>4, <1>5, <1>6, SubscriberOwes, SweeperOwes, PubSubOwes DEF PathNext

-----------------------------------------------------------------------------

LEMMA InitInv == PathInit => PathInv
<1> SUFFICES ASSUME PathInit PROVE PathInv
  OBVIOUS
<1>1. OweInv
  BY DEF PathInit, Init, SubInit, OweInv, InHand, Held
<1>2. BusInv
  BY DEF PathInit, BusInit, BusInv, Idle
<1> QED
  BY <1>1, <1>2 DEF PathInv

LEMMA StepInv == PathInv /\ [PathNext]_pathVars => PathInv'
<1>1. ASSUME PathInv, UNCHANGED pathVars PROVE PathInv'
  <2>1. OweInv'
    BY <1>1, OweAlone DEF PathInv, OweInv, InHand, pathVars, vars
  <2>2. BusInv'
    BY <1>1, BusAlone DEF PathInv, pathVars
  <2> QED BY <2>1, <2>2 DEF PathInv
<1> QED
  BY <1>1, OweStep, BusStep DEF PathInv

\* A message is given up only when all its detections have been handled
\* (subscriber.go:261-269), whatever is lost, delivered again or restarted.
THEOREM DeliveryCorrect == PathSpec => []NoDetectionLost
<1>1. PathInv => NoDetectionLost
  BY DEF PathInv, OweInv, NoDetectionLost
<1> QED
  BY <1>1, InitInv, StepInv, PTL DEF PathSpec

\* Publish never sends on a channel that is closed (bus.go:19-40), for any
\* number of browsers.
THEOREM BusCorrect == PathSpec => []NoSendOnClosed
<1>1. PathInv => NoSendOnClosed
  BY DEF PathInv, BusInv, NoSendOnClosed
<1> QED
  BY <1>1, InitInv, StepInv, PTL DEF PathSpec

-----------------------------------------------------------------------------
(* The event path runs Motion *)

LEMMA CallsStep == ASSUME CallsInv, [PathNext]_pathVars PROVE CallsInv'
<1>1. ASSUME NEW m, Dispatch(m) PROVE CallsInv'
  BY <1>1 DEF Dispatch, Calls, CallsInv
<1>2. ASSUME calls' \subseteq calls PROVE CallsInv'
  BY <1>2 DEF CallsInv
<1>3. CASE SubscriberStep
  BY <1>1, <1>2, <1>3 DEF SubscriberStep, CallHandle, Call, HandleCall, EmitStep, Announce, Emit,
                        MotionOnly, BusOnly, subVars
<1>4. CASE SweeperStep
  BY <1>2, <1>4 DEF SweeperStep, EmitStep, Announce, Emit, MotionOnly, BusOnly, subVars
<1>5. CASE PullStep \/ AcknowledgeStep \/ ExpireStep \/ Fault \/ \E m \in Messages : PublishStep(m)
  BY <1>2, <1>5 DEF PullStep, Pull, AcknowledgeStep, Acknowledge, ExpireStep, Expire, Fault, PullLost,
                  AcknowledgeFails, PublishStep, PublishMessage
<1>6. CASE \/ \E v \in Viewers : ViewerStep(v)
           \/ \E c \in Cameras : SidecarStep(c)
           \/ Tick /\ MotionOnly
           \/ UNCHANGED pathVars
  BY <1>2, <1>6 DEF ViewerStep, SidecarStep, MotionOnly, BusOnly, pathVars, subVars
<1>7. CASE PathRestart
  BY <1>2, <1>7 DEF PathRestart, SubForgotten
<1> QED
  BY <1>3, <1>4, <1>5, <1>6, <1>7 DEF PathNext

LEMMA EmitRuns ==
  ASSUME NEW a \in Emitters, EmitStep(a)
  PROVE  Send(a) \/ UNCHANGED vars
BY DEF EmitStep, Announce, Emit, Send, BusOnly

LEMMA RunsMotion == ASSUME CallsInv, [PathNext]_pathVars PROVE [Next]_vars
<1>1. CASE SubscriberStep
  <2>1. ASSUME NEW call \in calls, CallHandle(call) PROVE Next
    <3>1. call.device \in Cameras
      BY PathAssumption DEF CallsInv
    <3> QED BY <2>1, <3>1 DEF CallHandle, Next
  <2>2. CASE HandleCall
    BY <2>2 DEF HandleCall, Next
  <2>3. CASE EmitStep("subscriber")
    BY <2>3, EmitRuns DEF Emitters, Next
  <2> QED BY <1>1, <2>1, <2>2, <2>3 DEF SubscriberStep, SubOnly
<1>2. CASE SweeperStep
  BY <1>2, EmitRuns DEF SweeperStep, Emitters, Next
<1>3. CASE PullStep \/ AcknowledgeStep \/ ExpireStep \/ Fault \/ \E m \in Messages : PublishStep(m)
  BY <1>3 DEF PullStep, AcknowledgeStep, ExpireStep, Fault, PublishStep, SubOnly
<1>4. CASE \E v \in Viewers : ViewerStep(v)
  BY <1>4 DEF ViewerStep, BusOnly
<1>5. ASSUME NEW c \in Cameras, SidecarStep(c) PROVE Next
  BY <1>5 DEF SidecarStep, Next
<1>6. CASE (Tick /\ MotionOnly) \/ PathRestart \/ UNCHANGED pathVars
  BY <1>6 DEF PathRestart, Next, pathVars
<1> QED
  BY <1>1, <1>2, <1>3, <1>4, <1>5, <1>6 DEF PathNext

\* Composed with the subscriber and the bus the tracker, the dispatcher and the
\* sidecars behave as Motion says: every step of the path is one of Motion's or
\* leaves it alone, so what is proved of Motion holds here.
THEOREM PathImplementsMotion == PathSpec => Spec
<1>1. PathInit => Init /\ CallsInv
  BY DEF PathInit, SubInit, CallsInv
<1>2. CallsInv /\ [PathNext]_pathVars => CallsInv' /\ [Next]_vars
  BY CallsStep, RunsMotion
<1> QED
  BY <1>1, <1>2, PTL DEF PathSpec, Spec

\* HeldForLinger with detections that come from Pub/Sub, twice or late
\* (subscriber.go:257-307), and with a bridge that restarts.
THEOREM PathHoldCorrect == PathSpec => HeldForLinger
BY PathImplementsMotion, HoldCorrect, PTL

\* SettlesWithoutRace with the bus served before the dispatcher (serve.go:150-153).
THEOREM PathSettleCorrect == PathSpec => []SettlesWithoutRace
BY PathImplementsMotion, SettleCorrect, PTL

-----------------------------------------------------------------------------
(* Types of the subscriber and of the bus *)

LEMMA SubTypeStep == ASSUME SubTypeOK, [PathNext]_pathVars PROVE SubTypeOK'
<1>0. Cardinality({}) <= MaxMessages
  BY FS_EmptySet, MessageAssumption
<1>1. ASSUME UNCHANGED <<offers, leased, subPc, batch, left>> PROVE SubTypeOK'
  BY <1>1 DEF SubTypeOK
<1>2. ASSUME NEW m, Dispatch(m) PROVE SubTypeOK'
  BY <1>2 DEF Dispatch, SubTypeOK
<1>3. CASE SubscriberStep
  BY <1>1, <1>2, <1>3 DEF SubscriberStep, CallHandle, Call, HandleCall, EmitStep, Announce, Emit,
                        MotionOnly, BusOnly, subVars
<1>4. CASE SweeperStep
  BY <1>1, <1>4 DEF SweeperStep, EmitStep, Announce, Emit, MotionOnly, BusOnly, subVars
<1>5. ASSUME NEW m, Expire(m) PROVE SubTypeOK'
  BY <1>5 DEF Expire, SubTypeOK
<1>6. ASSUME NEW msgs, Pull(msgs) PROVE SubTypeOK'
  BY <1>6 DEF Pull, HandOut, SubTypeOK
<1>7. ASSUME NEW m, PullLost(m) PROVE SubTypeOK'
  BY <1>7 DEF PullLost, HandOut, SubTypeOK
<1>8. CASE Acknowledge
  <2>1. /\ offers' \subseteq offers /\ leased' = leased \ batch
        /\ subPc' = "pull" /\ batch' = {} /\ left' = {}
    BY <1>8 DEF Acknowledge, ToAcknowledge
  <2> QED BY <1>0, <2>1 DEF SubTypeOK
<1>9. CASE AcknowledgeFails
  BY <1>0, <1>9 DEF AcknowledgeFails, SubTypeOK
<1>10. ASSUME NEW m \in Messages, PublishStep(m) PROVE SubTypeOK'
  BY <1>10 DEF PublishStep, PublishMessage, Held, SubTypeOK
<1>11. CASE PathRestart
  BY <1>0, <1>11 DEF PathRestart, SubForgotten, SubTypeOK
<1>12. CASE \/ \E v \in Viewers : ViewerStep(v)
            \/ \E c \in Cameras : SidecarStep(c)
            \/ Tick /\ MotionOnly
            \/ UNCHANGED pathVars
  BY <1>1, <1>12 DEF ViewerStep, SidecarStep, MotionOnly, BusOnly, pathVars, subVars
<1> QED
  BY <1>3, <1>4, <1>5, <1>6, <1>7, <1>8, <1>9, <1>10, <1>11, <1>12
     DEF PathNext, PullStep, AcknowledgeStep, ExpireStep, Fault

\* Viewers come and go.
LEMMA ViewerTypes ==
  ASSUME ViewTypeInv, NEW v \in Viewers, Subscribe(v) \/ Delete(v) \/ Close(v) \/ Read(v),
         UNCHANGED vars
  PROVE  ViewTypeInv'
<1> USE DEF BusTypeOK, ViewTypeInv, PublishingInv, ChannelInv, vars, sendVars
<1>1. CASE Subscribe(v)
  BY <1>1 DEF Subscribe
<1>2. CASE Delete(v)
  <2>1. chan' \in [Viewers -> Seq(Edge)] /\ shown' \in [Viewers -> SUBSET Edge]
    BY <1>2 DEF Delete, Forget
  <2>2. /\ \A w \in Viewers : w # v => chan'[w] = chan[w] /\ shown'[w] = shown[w]
        /\ chan'[v] = <<>> /\ shown'[v] = {}
    BY <1>2 DEF Delete, Forget
  <2>3. Len(<<>>) <= Places
    BY PlacesAssumption
  <2>4. clients' = clients \ {v} /\ missed' = missed \ {v} /\ UNCHANGED <<open, publishing>>
    BY <1>2 DEF Delete, Forget
  <2>5. BusTypeOK'
    BY <2>2, <2>3, <2>4
  <2>6. ChannelInv'
    BY <2>1, <2>2, <2>4
  <2>7. PublishingInv'
    BY <2>4
  <2> QED BY <2>5, <2>6, <2>7
<1>3. CASE Close(v)
  BY <1>3 DEF Close
<1>4. CASE Read(v)
  <2>1. /\ v \in clients /\ chan[v] # <<>> /\ UNCHANGED <<clients, open, publishing, missed>>
        /\ shown' = [shown EXCEPT ![v] = {Head(chan[v])}]
        /\ chan' = [chan EXCEPT ![v] = Tail(chan[v])]
    BY <1>4 DEF Read
  <2>2. Head(chan[v]) \in Edge /\ Tail(chan[v]) \in Seq(Edge) /\ Len(Tail(chan[v])) <= Len(chan[v])
        /\ Len(Tail(chan[v])) \in Nat /\ Len(chan[v]) \in Nat
    BY <2>1
  <2>3. chan' \in [Viewers -> Seq(Edge)] /\ shown' \in [Viewers -> SUBSET Edge]
    BY <2>1, <2>2
  <2>4. \A w \in Viewers : w # v => chan'[w] = chan[w] /\ shown'[w] = shown[w]
    BY <2>1
  <2>5. Len(chan'[v]) <= Places
    BY <2>1, <2>2, PlacesAssumption
  <2> QED BY <2>1, <2>3, <2>4, <2>5
<1> QED
  BY <1>1, <1>2, <1>3, <1>4

\* A goroutine that emits nothing keeps its edges and what it publishes.
LEMMA EmptyHanded ==
  ASSUME ViewTypeInv, NEW a \in Publishers, pc[a] # "emit"
  PROVE  publishing[a].edge = {} /\ publishing[a].to = {}
BY DEF ViewTypeInv, PublishingInv

\* Motion's steps outside an emission's first half.
LEMMA MotionTypesBus ==
  ASSUME ViewTypeInv, UNCHANGED busVars,
         \A a \in Emitters : pc[a] = "emit" => pc'[a] = "emit" /\ outbox'[a] = outbox[a]
  PROVE  ViewTypeInv'
<1>1. BusTypeOK' /\ ChannelInv'
  BY DEF ViewTypeInv, BusTypeOK, ChannelInv, busVars
<1>2. PublishingInv'
  BY EmptyHanded, PathAssumption DEF ViewTypeInv, PublishingInv, busVars
<1> QED
  BY <1>1, <1>2 DEF ViewTypeInv

LEMMA EmitTypes ==
  ASSUME TypeOK, BusInv, ViewTypeInv, NEW a \in Emitters, EmitStep(a)
  PROVE  ViewTypeInv'
<1>0. a \in Publishers /\ Publishers = Emitters
  BY PathAssumption
<1>1. CASE Announce(a)
  <2>1. PICK e \in outbox[a] : Publish(a, e)
    BY <1>1 DEF Announce
  <2>2. /\ publishing'[a].edge = {e} /\ publishing'[a].to = clients
        /\ \A b \in Publishers : b # a => publishing'[b] = publishing[b]
        /\ UNCHANGED <<clients, open, chan, shown, missed>>
    BY <1>0, <2>1 DEF Publish, BusInv
  <2>3. pc[a] = "emit" /\ UNCHANGED <<pc, outbox>>
    BY <1>1 DEF Announce, BusOnly, vars, sendVars
  <2>4. BusTypeOK' /\ ChannelInv'
    BY <2>2 DEF ViewTypeInv, BusTypeOK, ChannelInv
  <2>5. PublishingInv'
    BY <1>0, <2>2, <2>3 DEF ViewTypeInv, PublishingInv
  <2> QED BY <2>4, <2>5 DEF ViewTypeInv
<1>2. CASE Emit(a)
  <2>1. /\ publishing'[a].edge = {} /\ publishing'[a].to = {}
        /\ \A b \in Publishers : b # a => publishing'[b] = publishing[b]
        /\ UNCHANGED <<clients, open, chan, shown, missed>>
    BY <1>0, <1>2 DEF Emit, Published, Idle, BusInv
  <2>2. \A b \in Emitters : b # a => pc'[b] = pc[b] /\ outbox'[b] = outbox[b]
    BY <1>2 DEF Emit, SendFirst, Emitted, Goto, TypeOK
  <2>3. BusTypeOK' /\ ChannelInv'
    BY <2>1 DEF ViewTypeInv, BusTypeOK, ChannelInv
  <2>4. PublishingInv'
    BY <1>0, <2>1, <2>2 DEF ViewTypeInv, PublishingInv
  <2> QED BY <2>3, <2>4 DEF ViewTypeInv
<1>3. CASE (Displace(a) \/ SendAgain(a)) /\ MotionOnly
  <2>1. /\ UNCHANGED outbox /\ pc[a] # "emit" /\ UNCHANGED busVars
        /\ \A b \in Emitters : b # a => pc'[b] = pc[b]
    BY <1>3 DEF Displace, SendAgain, Emitted, Goto, TypeOK, MotionOnly
  <2> QED BY <2>1, MotionTypesBus
<1>4. ASSUME NEW v \in Viewers, Offer(a, v), BusOnly PROVE ViewTypeInv'
  <2>1. /\ publishing'[a].edge = publishing[a].edge /\ publishing'[a].to = publishing[a].to \ {v}
        /\ \A b \in Publishers : b # a => publishing'[b] = publishing[b]
        /\ UNCHANGED <<clients, open, shown, pc, outbox>>
    BY <1>0, <1>4 DEF Offer, BusInv, BusOnly, vars, sendVars
  <2>2. v \in clients /\ (missed' = missed \/ missed' = missed \cup {v})
    BY <1>0, <1>4 DEF Offer, BusInv
  <2>3. /\ chan' \in [Viewers -> Seq(Edge)]
        /\ \A w \in Viewers : w # v => chan'[w] = chan[w]
        /\ Len(chan'[v]) <= Places
    <3>1. CASE UNCHANGED chan
      BY <3>1 DEF ViewTypeInv, BusTypeOK, ChannelInv
    <3>2. CASE Len(chan[v]) < Places /\ \E e \in publishing[a].edge :
                                            chan' = [chan EXCEPT ![v] = Append(chan[v], e)]
      <4>1. PICK e \in publishing[a].edge : chan' = [chan EXCEPT ![v] = Append(chan[v], e)]
        BY <3>2
      <4>2. e \in Edge /\ chan[v] \in Seq(Edge)
        BY <1>0, <4>1 DEF ViewTypeInv, PublishingInv, ChannelInv, TypeOK
      <4>3. Append(chan[v], e) \in Seq(Edge) /\ Len(Append(chan[v], e)) = Len(chan[v]) + 1
            /\ Len(chan[v]) \in Nat
        BY <4>2
      <4> QED BY <3>2, <4>1, <4>3, PlacesAssumption DEF ViewTypeInv, ChannelInv
    <3> QED BY <1>4, <3>1, <3>2 DEF Offer
  <2>4. BusTypeOK' /\ ChannelInv'
    BY <2>1, <2>2, <2>3 DEF ViewTypeInv, BusTypeOK, ChannelInv
  <2>5. PublishingInv'
    BY <1>0, <2>1 DEF ViewTypeInv, PublishingInv
  <2> QED BY <2>4, <2>5 DEF ViewTypeInv
<1> QED
  BY <1>1, <1>2, <1>3, <1>4 DEF EmitStep

LEMMA BusTypeStep ==
  ASSUME TypeOK, BusInv, ViewTypeInv, [PathNext]_pathVars
  PROVE  ViewTypeInv'
<1>1. CASE SubscriberStep
  <2>1. CASE EmitStep("subscriber")
    BY <2>1, EmitTypes DEF Emitters
  <2>2. ASSUME NEW call \in calls, CallHandle(call) PROVE ViewTypeInv'
    BY <2>2, MotionTypesBus DEF CallHandle, Detect, Goto, sendVars, TypeOK
  <2>3. CASE HandleCall
    <3>1. pc["subscriber"] # "emit" /\ UNCHANGED busVars
      BY <2>3 DEF HandleCall, Handle
    <3>2. \A a \in Emitters : a # "subscriber" => pc'[a] = pc[a] /\ outbox'[a] = outbox[a]
      BY <2>3 DEF HandleCall, Handle, Goto, TypeOK
    <3> QED BY <3>1, <3>2, MotionTypesBus
  <2>4. CASE SubOnly
    BY <2>4, MotionTypesBus DEF SubOnly, vars, sendVars
  <2> QED BY <1>1, <2>1, <2>2, <2>3, <2>4 DEF SubscriberStep
<1>2. CASE SweeperStep
  <2>1. CASE EmitStep("sweeper")
    BY <2>1, EmitTypes DEF Emitters
  <2>2. CASE (Wake \/ Sweep) /\ MotionOnly
    <3>1. pc["sweeper"] # "emit" /\ UNCHANGED busVars
      BY <2>2 DEF Wake, Sweep, MotionOnly
    <3>2. \A a \in Emitters : a # "sweeper" => pc'[a] = pc[a] /\ outbox'[a] = outbox[a]
      BY <2>2 DEF Wake, Sweep, Goto, TypeOK, sendVars
    <3> QED BY <3>1, <3>2, MotionTypesBus
  <2> QED BY <1>2, <2>1, <2>2 DEF SweeperStep
<1>3. CASE UNCHANGED <<vars, busVars>>
  BY <1>3, MotionTypesBus DEF vars, sendVars
<1>4. CASE PullStep \/ AcknowledgeStep \/ ExpireStep \/ Fault \/ \E m \in Messages : PublishStep(m)
  BY <1>3, <1>4 DEF PullStep, AcknowledgeStep, ExpireStep, Fault, PublishStep, SubOnly
<1>5. ASSUME NEW v \in Viewers, ViewerStep(v) PROVE ViewTypeInv'
  BY <1>5, ViewerTypes DEF ViewerStep, BusOnly
<1>6. ASSUME NEW c \in Cameras, SidecarStep(c) PROVE ViewTypeInv'
  BY <1>6, MotionTypesBus DEF SidecarStep, Take, Deliver, SidecarRestart, MotionOnly, sendVars
<1>7. CASE Tick /\ MotionOnly
  BY <1>7, MotionTypesBus DEF Tick, MotionOnly, sendVars
<1>8. CASE PathRestart
  <2>1. /\ clients' = {} /\ open' = {} /\ missed' = {}
        /\ \A v \in Viewers : chan'[v] = <<>> /\ shown'[v] = {}
        /\ \A a \in Publishers : publishing'[a].edge = {} /\ publishing'[a].to = {}
    BY <1>8 DEF PathRestart, BusForgotten, Idle
  <2>2. chan' \in [Viewers -> Seq(Edge)] /\ shown' \in [Viewers -> SUBSET Edge]
    BY <1>8 DEF PathRestart, BusForgotten
  <2> QED BY <2>1, <2>2, PlacesAssumption DEF ViewTypeInv, BusTypeOK, PublishingInv, ChannelInv
<1> QED
  BY <1>1, <1>2, <1>3, <1>4, <1>5, <1>6, <1>7, <1>8 DEF PathNext, pathVars

-----------------------------------------------------------------------------
(* What the browsers were told *)

LEMMA ToldAppend ==
  ASSUME NEW q \in Seq(Edge), NEW last, NEW c, NEW e \in Edge,
         \/ e.cam = c /\ e.on = on[c]
         \/ e.cam # c /\ Told(q, last, c)
  PROVE  Told(Append(q, e), last, c)
<1> DEFINE r == Append(q, e)
<1>1. /\ Len(q) \in Nat /\ Len(r) = Len(q) + 1 /\ r[Len(q) + 1] = e
      /\ \A i \in 1 .. Len(q) : r[i] = q[i]
  OBVIOUS
<1> HIDE DEF r
<1>2. ASSUME NEW i \in 1 .. Len(r), r[i].cam = c, \A j \in 1 .. Len(r) : j > i => r[j].cam # c
      PROVE  r[i].on = on[c]
  <2>1. CASE i = Len(q) + 1
    BY <1>1, <1>2, <2>1
  <2>2. CASE i # Len(q) + 1
    <3>1. i \in 1 .. Len(q) /\ Len(q) + 1 \in 1 .. Len(r) /\ Len(q) + 1 > i
      BY <1>1, <2>2
    <3>2. e.cam # c
      BY <1>1, <1>2, <3>1
    <3>3. \A j \in 1 .. Len(q) : j > i => q[j].cam # c
      BY <1>1, <1>2
    <3> QED BY <1>1, <1>2, <3>1, <3>2, <3>3 DEF Told
  <2> QED BY <2>1, <2>2
<1>3. ASSUME \A i \in 1 .. Len(r) : r[i].cam # c
      PROVE  \A l \in last : l.cam = c => l.on = on[c]
  <2>1. e.cam # c
    BY <1>1, <1>3
  <2>2. \A i \in 1 .. Len(q) : q[i].cam # c
    BY <1>1, <1>3
  <2> QED BY <2>1, <2>2 DEF Told
<1>4. Told(r, last, c)
  BY <1>2, <1>3 DEF Told
<1> QED
  BY <1>4 DEF r

LEMMA ToldTail ==
  ASSUME NEW q \in Seq(Edge), NEW last, NEW c, q # <<>>, Told(q, last, c)
  PROVE  Told(Tail(q), {Head(q)}, c)
<1> DEFINE r == Tail(q)
<1>1. /\ Len(q) \in Nat \ {0} /\ Len(r) = Len(q) - 1 /\ Head(q) = q[1]
      /\ \A i \in 1 .. Len(r) : r[i] = q[i + 1]
  OBVIOUS
<1> HIDE DEF r
<1>2. ASSUME NEW i \in 1 .. Len(r), r[i].cam = c, \A j \in 1 .. Len(r) : j > i => r[j].cam # c
      PROVE  r[i].on = on[c]
  <2>1. i + 1 \in 1 .. Len(q) /\ q[i + 1] = r[i]
    BY <1>1
  <2>2. ASSUME NEW j \in 1 .. Len(q), j > i + 1 PROVE q[j].cam # c
    <3>1. j - 1 \in 1 .. Len(r) /\ j - 1 > i /\ (j - 1) + 1 = j
      BY <1>1, <2>2
    <3>2. r[j - 1] = q[j]
      BY <1>1, <3>1
    <3> QED BY <1>2, <3>1, <3>2
  <2> QED BY <1>2, <2>1, <2>2 DEF Told
<1>3. ASSUME \A i \in 1 .. Len(r) : r[i].cam # c, q[1].cam = c
      PROVE  q[1].on = on[c]
  <2>1. ASSUME NEW j \in 1 .. Len(q), j > 1 PROVE q[j].cam # c
    <3>1. j - 1 \in 1 .. Len(r) /\ (j - 1) + 1 = j
      BY <1>1, <2>1
    <3>2. r[j - 1] = q[j]
      BY <1>1, <3>1
    <3> QED BY <1>3, <3>1, <3>2
  <2>2. 1 \in 1 .. Len(q)
    BY <1>1
  <2> QED BY <1>3, <2>1, <2>2 DEF Told
<1>4. Told(r, {Head(q)}, c)
  BY <1>1, <1>2, <1>3 DEF Told
<1> QED
  BY <1>4 DEF r

\* A step that tells v nothing and takes no edge of c away.
LEMMA ToldBefore ==
  ASSUME ViewInv, NEW v \in clients \ missed, NEW c \in Recorded, ~raced[c],
         UNCHANGED <<chan[v], shown[v], on[c]>>, ~Pending(v, c)
  PROVE  Told(chan[v], shown[v], c)'
<1>1. Told(chan[v], shown[v], c)
  BY DEF ViewInv
<1> QED
  BY <1>1 DEF Told

\* The same of what v finds after the step.
LEMMA ToldThen ==
  ASSUME NEW v, NEW c, NEW q, on'[c] = on[c], chan'[v] = q, shown'[v] = shown[v],
         Told(q, shown[v], c)
  PROVE  Told(chan[v], shown[v], c)'
BY DEF Told

\* Where the step is that keeps what v knows, and what is pending for it.
LEMMA ViewAlone ==
  ASSUME ViewInv, NEW v \in Viewers, NEW c \in Recorded,
         clients' = clients, missed' = missed,
         v \in clients' \ missed', ~raced'[c], ~Pending(v, c)',
         UNCHANGED <<chan[v], shown[v], on[c], raced[c]>>,
         \A a \in Emitters : \A e \in outbox[a] :
            e.cam = c /\ (e \in publishing[a].edge => v \in publishing[a].to) =>
                e \in outbox'[a] /\ (e \in publishing'[a].edge => v \in publishing'[a].to)
  PROVE  Told(chan[v], shown[v], c)'
<1>1. ~Pending(v, c)
  BY DEF Pending
<1> QED
  BY <1>1, ToldBefore

\* The tracker computes edges: those of c are pending, or c is left alone.
LEMMA ViewComputed ==
  ASSUME TypeOK, PlaceInv, ViewTypeInv, ViewInv, Handle \/ Sweep, UNCHANGED busVars
  PROVE  ViewInv'
<1> SUFFICES ASSUME NEW v \in clients' \ missed', NEW c \in Recorded, ~raced'[c], ~Pending(v, c)'
             PROVE  Told(chan[v], shown[v], c)'
  BY DEF ViewInv
<1>1. PICK a \in Emitters :
        /\ pc[a] = "lock" /\ \A b \in Emitters : b # a => outbox'[b] = outbox[b]
        /\ \/ \E e \in outbox'[a] : e.cam = c
           \/ on'[c] = on[c] /\ raced'[c] = raced[c]
  <2>1. CASE Handle
    <3>1. PICK d \in detected :
            /\ pc["subscriber"] = "lock"
            /\ \/ /\ on' = [on EXCEPT ![d] = TRUE]
                  /\ outbox' = [outbox EXCEPT !["subscriber"] = {[cam |-> d, on |-> TRUE]}]
                  /\ raced' = [raced EXCEPT ![d] = Overlaps("sweeper", d)]
               \/ UNCHANGED <<on, outbox, raced>>
      BY <2>1 DEF Handle
    <3>2. d # c => (on'[c] = on[c] /\ raced'[c] = raced[c])
      <4>1. c \in Cameras /\ on \in [Cameras -> BOOLEAN] /\ raced \in [Cameras -> BOOLEAN]
        BY RecordedAssumption DEF TypeOK
      <4> QED BY <3>1, <4>1
    <3>3. CASE UNCHANGED <<on, outbox, raced>>
      BY <3>1, <3>3 DEF Emitters
    <3>4. CASE outbox' = [outbox EXCEPT !["subscriber"] = {[cam |-> d, on |-> TRUE]}]
      <4>1. [cam |-> d, on |-> TRUE] \in outbox'["subscriber"] /\ [cam |-> d, on |-> TRUE].cam = d
            /\ \A b \in Emitters : b # "subscriber" => outbox'[b] = outbox[b]
        BY <3>4 DEF TypeOK, Emitters
      <4> QED BY <3>1, <3>2, <4>1 DEF Emitters
    <3> QED BY <3>1, <3>3, <3>4
  <2>2. CASE Sweep
    <3> DEFINE down == {d \in Cameras : Lowers(d, lag["sweeper"])}
               Fall(d) == [cam |-> d, on |-> FALSE]
    <3>1. /\ pc["sweeper"] = "lock"
          /\ on' = [d \in Cameras |-> on[d] /\ d \notin down]
          /\ outbox' = [outbox EXCEPT !["sweeper"] = {Fall(d) : d \in down}]
          /\ raced' = [d \in Cameras |-> IF d \in down THEN Overlaps("subscriber", d) ELSE raced[d]]
      BY <2>2 DEF Sweep
    <3>2. \A d : Fall(d).cam = d
      OBVIOUS
    <3> HIDE DEF down, Fall
    <3>3. outbox'["sweeper"] = {Fall(d) : d \in down}
          /\ \A b \in Emitters : b # "sweeper" => outbox'[b] = outbox[b]
      BY <3>1 DEF TypeOK, Emitters
    <3>4. c \in down => \E e \in outbox'["sweeper"] : e.cam = c
      BY <3>2, <3>3
    <3>5. c \notin down => (on'[c] = on[c] /\ raced'[c] = raced[c])
      <4>1. c \in Cameras /\ on[c] \in BOOLEAN
        BY RecordedAssumption DEF TypeOK
      <4>2. on'[c] = (on[c] /\ c \notin down) /\ (c \notin down => raced'[c] = raced[c])
        BY <3>1, <4>1
      <4> QED BY <4>1, <4>2
    <3> QED BY <3>1, <3>3, <3>4, <3>5 DEF Emitters
  <2> QED BY <2>1, <2>2
<1>2. outbox[a] = {} /\ publishing'[a].edge = {} /\ UNCHANGED <<publishing, chan, shown, clients, missed>>
  BY <1>1, PathAssumption DEF PlaceInv, ViewTypeInv, PublishingInv, busVars
<1>3. ~\E e \in outbox'[a] : e.cam = c
  BY <1>2 DEF Pending
<1>4. v \in Viewers
  BY <1>2 DEF ViewTypeInv, BusTypeOK
<1>5. publishing' = publishing /\ \A b \in Emitters : \A e \in outbox[b] : e \in outbox'[b]
  BY <1>1, <1>2
<1>6. on'[c] = on[c] /\ raced'[c] = raced[c]
  BY <1>1, <1>3
<1> QED
  BY <1>2, <1>4, <1>5, <1>6, ViewAlone


\* An emission: the one v is told of carries c's level.
LEMMA ViewEmitted ==
  ASSUME TypeOK, LevelInv, BusInv, ViewTypeInv, ViewInv, NEW a \in Emitters, EmitStep(a)
  PROVE  ViewInv'
<1> SUFFICES ASSUME NEW v \in clients' \ missed', NEW c \in Recorded, ~raced'[c], ~Pending(v, c)'
             PROVE  Told(chan[v], shown[v], c)'
  BY DEF ViewInv
<1>0. a \in Publishers /\ Publishers = Emitters
  BY PathAssumption
<1>1. UNCHANGED <<on, raced>>
  BY DEF EmitStep, Announce, Emit, SendFirst, Displace, SendAgain, BusOnly, vars, levelVars
<1>2. CASE Announce(a)
  <2>1. PICK e \in outbox[a] : Publish(a, e)
    BY <1>2 DEF Announce
  <2>2. /\ publishing'[a].to = clients
        /\ \A b \in Publishers : b # a => publishing'[b] = publishing[b]
        /\ UNCHANGED <<clients, chan, shown, missed, outbox>>
    BY <1>0, <1>2, <2>1 DEF Announce, Publish, BusInv, BusOnly, vars, sendVars
  <2>3. v \in Viewers
    BY <2>2 DEF ViewTypeInv, BusTypeOK
  <2> QED BY <1>0, <1>1, <2>2, <2>3, ViewAlone
<1>3. CASE Emit(a)
  <2>1. /\ publishing[a].to = {} /\ publishing'[a].edge = {}
        /\ \A b \in Publishers : b # a => publishing'[b] = publishing[b]
        /\ UNCHANGED <<clients, chan, shown, missed>>
    BY <1>0, <1>3 DEF Emit, Published, Idle, BusInv
  <2>2. outbox'[a] = outbox[a] \ publishing[a].edge
        /\ \A b \in Emitters : b # a => outbox'[b] = outbox[b]
    BY <1>3 DEF Emit, SendFirst, TypeOK
  <2>3. v \in Viewers
    BY <2>1 DEF ViewTypeInv, BusTypeOK
  <2> QED BY <1>0, <1>1, <2>1, <2>2, <2>3, ViewAlone
<1>4. CASE (Displace(a) \/ SendAgain(a)) /\ MotionOnly
  <2>1. UNCHANGED busVars /\ UNCHANGED outbox
    BY <1>4 DEF Displace, SendAgain, MotionOnly
  <2>2. UNCHANGED <<clients, chan, shown, missed, publishing>>
    BY <2>1 DEF busVars
  <2>3. v \in Viewers
    BY <2>2 DEF ViewTypeInv, BusTypeOK
  <2> QED BY <1>1, <2>1, <2>2, <2>3, ViewAlone
<1>5. ASSUME NEW w \in Viewers, Offer(a, w), BusOnly PROVE Told(chan[v], shown[v], c)'
  <2>1. /\ publishing'[a].edge = publishing[a].edge /\ publishing'[a].to = publishing[a].to \ {w}
        /\ \A b \in Publishers : b # a => publishing'[b] = publishing[b]
        /\ UNCHANGED <<clients, shown, outbox>>
    BY <1>0, <1>5 DEF Offer, BusInv, BusOnly, vars, sendVars
  <2>2. v \in Viewers /\ v \notin missed
    BY <1>5, <2>1 DEF Offer, ViewTypeInv, BusTypeOK
  <2>3. CASE w # v
    <3>1. chan'[v] = chan[v]
      <4>1. chan' = chan \/ \E q : chan' = [chan EXCEPT ![w] = q]
        BY <1>5 DEF Offer
      <4> QED BY <2>2, <2>3, <4>1 DEF ViewTypeInv, ChannelInv
    <3>2. \A b \in Emitters : publishing'[b].edge = publishing[b].edge
                             /\ (v \in publishing[b].to => v \in publishing'[b].to)
      BY <1>0, <2>1, <2>3
    <3>3. ~Pending(v, c)
      BY <2>1, <3>2 DEF Pending
    <3> QED BY <1>1, <2>1, <2>2, <3>1, <3>3, ToldBefore
  <2>4. CASE w = v
    <3>1. PICK e \in publishing[a].edge : chan' = [chan EXCEPT ![v] = Append(chan[v], e)]
      BY <1>5, <2>4 DEF Offer
    <3>2. /\ e \in outbox[a] /\ e \in Edge /\ chan[v] \in Seq(Edge)
          /\ chan'[v] = Append(chan[v], e)
          /\ \A f \in publishing[a].edge : f = e
      BY <1>0, <2>2, <3>1 DEF ViewTypeInv, PublishingInv, ChannelInv, TypeOK
    <3>3. CASE e.cam = c
      <4>1. e.on = on[c]
        BY <1>1, <3>2, <3>3 DEF LevelInv, Last, Lone, Carries, Emission
      <4>2. Told(Append(chan[v], e), shown[v], c)
        BY <3>2, <3>3, <4>1, ToldAppend
      <4>3. on'[c] = on[c] /\ shown'[v] = shown[v] /\ chan'[v] = Append(chan[v], e)
        BY <1>1, <2>1, <3>2
      <4> QED BY <4>2, <4>3, ToldThen
    <3>4. CASE e.cam # c
      <4>1. ~Pending(v, c)
        BY <1>0, <2>1, <3>2, <3>4 DEF Pending
      <4>2. Told(chan[v], shown[v], c)
        BY <1>1, <2>1, <2>2, <4>1 DEF ViewInv
      <4>3. Told(Append(chan[v], e), shown[v], c)
        BY <3>2, <3>4, <4>2, ToldAppend
      <4>4. on'[c] = on[c] /\ shown'[v] = shown[v] /\ chan'[v] = Append(chan[v], e)
        BY <1>1, <2>1, <3>2
      <4> QED BY <4>3, <4>4, ToldThen
    <3> QED BY <3>3, <3>4
  <2> QED BY <2>3, <2>4
<1> QED
  BY <1>2, <1>3, <1>4, <1>5 DEF EmitStep

\* Browsers come, go and read.
LEMMA ViewerTold ==
  ASSUME ViewTypeInv, ViewInv, NEW w \in Viewers, ViewerStep(w)
  PROVE  ViewInv'
<1> SUFFICES ASSUME NEW v \in clients' \ missed', NEW c \in Recorded, ~raced'[c], ~Pending(v, c)'
             PROVE  Told(chan[v], shown[v], c)'
  BY DEF ViewInv
<1>1. UNCHANGED <<on, raced, outbox>>
  BY DEF ViewerStep, BusOnly, vars, levelVars, sendVars
<1>2. CASE Subscribe(w)
  <2>1. UNCHANGED <<chan, publishing, shown, missed>> /\ clients' = clients \cup {w} /\ w \notin open
    BY <1>2 DEF Subscribe
  <2>2. CASE v = w
    <3>1. chan'[v] = <<>> /\ shown'[v] = {}
      BY <2>1, <2>2 DEF ViewTypeInv, ChannelInv, BusTypeOK
    <3> QED BY <3>1 DEF Told
  <2>3. CASE v # w
    <3>1. v \in clients \ missed /\ ~Pending(v, c)
      BY <1>1, <2>1, <2>3 DEF Pending
    <3> QED BY <1>1, <2>1, <3>1, ToldBefore
  <2> QED BY <2>2, <2>3
<1>3. CASE Delete(w)
  <2>1. /\ v \in clients \ missed /\ v # w
        /\ UNCHANGED <<publishing, chan[v], shown[v]>>
    BY <1>3 DEF Delete, Forget, ViewTypeInv, ChannelInv, BusTypeOK
  <2>2. ~Pending(v, c)
    BY <1>1, <2>1 DEF Pending
  <2> QED BY <1>1, <2>1, <2>2, ToldBefore
<1>4. CASE Close(w)
  <2>1. UNCHANGED <<clients, missed, publishing, chan, shown>>
    BY <1>4 DEF Close
  <2>2. ~Pending(v, c)
    BY <1>1, <2>1 DEF Pending
  <2> QED BY <1>1, <2>1, <2>2, ToldBefore
<1>5. CASE Read(w)
  <2>1. /\ UNCHANGED <<clients, missed, publishing>> /\ chan[w] # <<>>
        /\ shown' = [shown EXCEPT ![w] = {Head(chan[w])}]
        /\ chan' = [chan EXCEPT ![w] = Tail(chan[w])]
    BY <1>5 DEF Read
  <2>2. ~Pending(v, c) /\ v \in clients \ missed /\ v \in Viewers /\ ~raced[c]
    BY <1>1, <2>1 DEF Pending, ViewTypeInv, BusTypeOK
  <2>3. CASE v = w
    <3>1. chan[v] \in Seq(Edge) /\ chan'[v] = Tail(chan[v]) /\ shown'[v] = {Head(chan[v])}
      BY <2>1, <2>2, <2>3 DEF ViewTypeInv, ChannelInv
    <3>2. Told(chan[v], shown[v], c)
      BY <2>2 DEF ViewInv
    <3>3. Told(Tail(chan[v]), {Head(chan[v])}, c)
      BY <2>1, <2>3, <3>1, <3>2, ToldTail
    <3> QED BY <1>1, <3>1, <3>3 DEF Told
  <2>4. CASE v # w
    <3>1. UNCHANGED <<chan[v], shown[v]>>
      BY <2>1, <2>2, <2>4 DEF ViewTypeInv, ChannelInv
    <3> QED BY <1>1, <2>2, <3>1, ToldBefore
  <2> QED BY <2>3, <2>4
<1> QED
  BY <1>2, <1>3, <1>4, <1>5 DEF ViewerStep

LEMMA ViewStep ==
  ASSUME TypeOK, PlaceInv, LevelInv, BusInv, ViewTypeInv, ViewInv, [PathNext]_pathVars
  PROVE  ViewInv'
<1>1. ASSUME UNCHANGED <<on, raced, outbox>>, UNCHANGED busVars PROVE ViewInv'
  <2> SUFFICES ASSUME NEW v \in clients' \ missed', NEW c \in Recorded, ~raced'[c], ~Pending(v, c)'
               PROVE  Told(chan[v], shown[v], c)'
    BY DEF ViewInv
  <2>1. UNCHANGED <<clients, missed, publishing, chan, shown>>
    BY <1>1 DEF busVars
  <2>2. ~Pending(v, c)
    BY <1>1, <2>1 DEF Pending
  <2> QED BY <1>1, <2>1, <2>2, ToldBefore
<1>2. ASSUME NEW a \in Emitters, EmitStep(a) PROVE ViewInv'
  BY <1>2, ViewEmitted
<1>3. CASE SubscriberStep
  <2>1. CASE HandleCall
    BY <2>1, ViewComputed DEF HandleCall
  <2>2. ASSUME NEW call \in calls, CallHandle(call) PROVE ViewInv'
    BY <1>1, <2>2 DEF CallHandle, Detect, levelVars, sendVars
  <2>3. CASE SubOnly
    BY <1>1, <2>3 DEF SubOnly, vars, levelVars, sendVars
  <2> QED BY <1>2, <1>3, <2>1, <2>2, <2>3 DEF SubscriberStep, Emitters
<1>4. CASE SweeperStep
  <2>1. CASE Sweep /\ MotionOnly
    BY <2>1, ViewComputed DEF MotionOnly
  <2>2. CASE Wake /\ MotionOnly
    BY <1>1, <2>2 DEF Wake, MotionOnly, levelVars, sendVars
  <2> QED BY <1>2, <1>4, <2>1, <2>2 DEF SweeperStep, Emitters
<1>5. CASE PullStep \/ AcknowledgeStep \/ ExpireStep \/ Fault \/ \E m \in Messages : PublishStep(m)
  BY <1>1, <1>5 DEF PullStep, AcknowledgeStep, ExpireStep, Fault, PublishStep, SubOnly, vars,
                    levelVars, sendVars
<1>6. ASSUME NEW c \in Cameras, SidecarStep(c) PROVE ViewInv'
  BY <1>1, <1>6 DEF SidecarStep, Take, Deliver, SidecarRestart, MotionOnly, levelVars, sendVars
<1>7. CASE (Tick /\ MotionOnly) \/ UNCHANGED pathVars
  BY <1>1, <1>7 DEF Tick, MotionOnly, pathVars, vars, levelVars, sendVars
<1>8. CASE PathRestart
  BY <1>8 DEF PathRestart, BusForgotten, ViewInv
<1> QED
  BY <1>3, <1>4, <1>5, <1>6, <1>7, <1>8, ViewerTold DEF PathNext

-----------------------------------------------------------------------------

\* All that is known of the path between two steps.
WholeInv == PathInv /\ CallsInv /\ MotionInv /\ SubTypeOK /\ ViewTypeInv /\ ViewInv

LEMMA WholeInit == PathInit => WholeInv
<1> SUFFICES ASSUME PathInit PROVE WholeInv
  OBVIOUS
<1>1. PathInv /\ MotionInv /\ CallsInv
  BY InitInv, MotionInit DEF PathInit, SubInit, CallsInv
<1>2. SubTypeOK
  BY FS_EmptySet, MessageAssumption DEF PathInit, SubInit, SubTypeOK
<1>3. clients = {} /\ open = {} /\ missed = {} /\ (\A v \in Viewers : chan[v] = <<>> /\ shown[v] = {})
      /\ (\A a \in Publishers : publishing[a].edge = {} /\ publishing[a].to = {})
  BY DEF PathInit, BusInit, Idle
<1>4. chan \in [Viewers -> Seq(Edge)] /\ shown \in [Viewers -> SUBSET Edge]
  BY DEF PathInit, BusInit
<1>5. ViewTypeInv /\ ViewInv
  BY <1>3, <1>4, PlacesAssumption DEF ViewTypeInv, BusTypeOK, PublishingInv, ChannelInv, ViewInv
<1> QED
  BY <1>1, <1>2, <1>5 DEF WholeInv

LEMMA WholeStep == WholeInv /\ [PathNext]_pathVars => WholeInv'
<1> SUFFICES ASSUME WholeInv, [PathNext]_pathVars PROVE WholeInv'
  OBVIOUS
<1>1. PathInv' /\ CallsInv' /\ SubTypeOK'
  BY StepInv, CallsStep, SubTypeStep DEF WholeInv
<1>2. MotionInv'
  BY RunsMotion, MotionStep DEF WholeInv
<1>3. ViewTypeInv'
  BY BusTypeStep DEF WholeInv, PathInv, MotionInv
<1>4. ViewInv'
  BY ViewStep DEF WholeInv, PathInv, MotionInv
<1> QED
  BY <1>1, <1>2, <1>3, <1>4 DEF WholeInv

\* No queue of an edge, no browser's channel and no batch is ever over its bound
\* (motion.go:199-251, bus.go:19-40, subscriber.go:257-307).
THEOREM PathTypes == PathSpec => []PathTypeOK
<1>1. WholeInv => PathTypeOK
  BY DEF WholeInv, MotionInv, ViewTypeInv, PathTypeOK
<1> QED
  BY <1>1, WholeInit, WholeStep, PTL DEF PathSpec

\* A browser whose channel was never full is told the level in the end
\* (bus.go:19-40), whichever goroutine emits and whoever comes and goes.
THEOREM BrowsersCorrect == PathSpec => []ViewersInformed
<1>1. WholeInv => ViewersInformed
  <2> SUFFICES ASSUME WholeInv, NEW v \in clients \ missed, NEW c \in Recorded, chan[v] = <<>>,
                      ~raced[c], \A a \in Emitters : ~InEmission(a, c)
               PROVE  \A e \in shown[v] : e.cam = c => e.on = on[c]
    BY DEF ViewersInformed
  <2>1. ~Pending(v, c)
    BY DEF Pending, InEmission
  <2>2. Told(<<>>, shown[v], c)
    BY <2>1 DEF WholeInv, ViewInv
  <2> QED BY <2>2 DEF Told
<1> QED
  BY <1>1, WholeInit, WholeStep, PTL DEF PathSpec

-----------------------------------------------------------------------------
(***************************************************************************)
(* The recorders                                                           *)
(*                                                                         *)
(* The bridge with the whole sidecar of a camera takes only steps of       *)
(* Motion and, seen from the sidecar, only steps of EventsService: what is *)
(* proved of each of them alone holds of both, and together the two say    *)
(* what a recorder gets.                                                   *)
(***************************************************************************)
SidecarProofs == INSTANCE EventsServiceProofs WITH motionState <- motionState[Watched]

LEMMA WatchedCamera == Watched \in Cameras
BY WatchedAssumption, RecordedAssumption

LEMMA RecorderStart == RecorderInit => Init /\ Sidecar!Init
BY DEF RecorderInit

LEMMA RecorderRunsMotion == [RecorderNext]_recorderVars => [Next]_vars
<1> SUFFICES ASSUME [RecorderNext]_recorderVars PROVE [Next]_vars
  OBVIOUS
<1>1. CASE Post \/ RestartSidecar
  BY <1>1, WatchedCamera DEF Post, RestartSidecar, Next
<1>2. CASE ServiceStep \/ UNCHANGED recorderVars
  BY <1>2 DEF ServiceStep, recorderVars
<1>3. CASE BridgeStep
  BY <1>3 DEF BridgeStep, Next
<1> QED
  BY <1>1, <1>2, <1>3 DEF RecorderNext

\* A step of the bridge, or of another camera's sidecar, leaves this level alone.
LEMMA BridgeLeavesLevel ==
    ASSUME TypeOK, BridgeStep
    PROVE  motionState'[Watched] = motionState[Watched]
<1>1. CASE UNCHANGED motionState
  BY <1>1
<1>2. ASSUME NEW c \in Cameras \ {Watched}, Deliver(c) \/ SidecarRestart(c)
      PROVE  motionState'[Watched] = motionState[Watched]
  BY <1>2, WatchedCamera DEF TypeOK, Deliver, SidecarRestart
<1>3. CASE \E c \in Cameras : Detect(c) \/ Take(c)
  BY <1>3 DEF Detect, Take, deliverVars
<1>4. CASE BridgeRestart \/ Handle \/ Wake \/ Sweep \/ Tick
  BY <1>4 DEF BridgeRestart, Handle, Wake, Sweep, Tick, deliverVars
<1>5. ASSUME NEW a \in Emitters, Send(a) PROVE UNCHANGED motionState
  BY <1>5 DEF Send, SendFirst, Displace, SendAgain, deliverVars
<1> QED
  BY <1>1, <1>2, <1>3, <1>4, <1>5 DEF BridgeStep

\* Seen from the sidecar, a post is a trigger or nothing.
LEMMA PostTriggers ==
    ASSUME TypeOK, Post
    PROVE  (\E state \in BOOLEAN : Sidecar!Trigger(state))
           \/ UNCHANGED <<ownVars, motionState[Watched]>>
<1>1. PICK e \in delivering[Watched] :
          /\ Deliver(Watched)
          /\ IF ~lost'[Watched] /\ Sidecar!Changes(e.on) THEN Sidecar!Trigger(e.on)
                                                         ELSE UNCHANGED ownVars
  BY DEF Post
<1>2. delivering[Watched] \in Place(Watched)
  BY WatchedCamera DEF TypeOK
<1>3. e.on \in BOOLEAN /\ delivering[Watched] = {e}
  BY <1>1, <1>2 DEF Place, Edge
<1>4. CASE ~lost'[Watched] /\ Sidecar!Changes(e.on)
  BY <1>1, <1>3, <1>4
<1>5. CASE lost'[Watched]
  <2>1. UNCHANGED ownVars
    BY <1>1, <1>5
  <2>2. UNCHANGED motionState
    BY <1>1, <1>5, WatchedCamera DEF Deliver, TypeOK
  <2> QED BY <2>1, <2>2
<1>6. CASE ~lost'[Watched] /\ ~Sidecar!Changes(e.on)
  <2>1. UNCHANGED ownVars
    BY <1>1, <1>6
  <2>2. motionState' = [motionState EXCEPT ![Watched] = e.on] \/ lost' = [lost EXCEPT ![Watched] = TRUE]
    BY <1>1, <1>3 DEF Deliver
  <2>3. motionState' = [motionState EXCEPT ![Watched] = e.on]
    BY <1>6, <2>2, WatchedCamera DEF TypeOK
  <2>4. e.on = motionState[Watched]
    BY <1>6 DEF Sidecar!Changes
  <2> QED BY <2>1, <2>3, <2>4, WatchedCamera DEF TypeOK
<1> QED
  BY <1>4, <1>5, <1>6

LEMMA RecorderRunsSidecar ==
    ASSUME TypeOK, [RecorderNext]_recorderVars
    PROVE  [Sidecar!Next]_(Sidecar!vars)
<1>1. CASE Post
  BY <1>1, PostTriggers DEF Sidecar!Next, Sidecar!vars, ownVars
<1>2. CASE RestartSidecar
  BY <1>2 DEF RestartSidecar, Sidecar!Next
<1>3. CASE ServiceStep
  BY <1>3 DEF ServiceStep, Sidecar!Next
<1>4. CASE BridgeStep
  BY <1>4, BridgeLeavesLevel DEF BridgeStep, ownVars, Sidecar!vars
<1>5. CASE UNCHANGED recorderVars
  BY <1>5 DEF recorderVars, vars, deliverVars, ownVars, Sidecar!vars
<1> QED
  BY <1>1, <1>2, <1>3, <1>4, <1>5 DEF RecorderNext

\* An instance of the proofs brings its own copy of the definitions.
LEMMA SameStart == Sidecar!Init => SidecarProofs!Init
BY DEF Sidecar!Init, SidecarProofs!Init, Sidecar!Ids, SidecarProofs!Ids,
       Sidecar!TopicSet, SidecarProofs!TopicSet

LEMMA SameStep == [Sidecar!Next]_(Sidecar!vars) => [SidecarProofs!Next]_(SidecarProofs!vars)
BY DEF Sidecar!Next, SidecarProofs!Next, Sidecar!vars, SidecarProofs!vars,
       Sidecar!SoapRequest, SidecarProofs!SoapRequest, Sidecar!CreatePullPoint,
       SidecarProofs!CreatePullPoint, Sidecar!PullMessages,
       SidecarProofs!PullMessages, Sidecar!Renew, SidecarProofs!Renew,
       Sidecar!Unsubscribe, SidecarProofs!Unsubscribe, Sidecar!OtherRequest,
       SidecarProofs!OtherRequest, Sidecar!Trigger, SidecarProofs!Trigger,
       Sidecar!Restart, SidecarProofs!Restart, Sidecar!Tick, SidecarProofs!Tick,
       Sidecar!Max, SidecarProofs!Max, Sidecar!Ids, SidecarProofs!Ids,
       Sidecar!TopicSet, SidecarProofs!TopicSet, Sidecar!MotionMessages,
       SidecarProofs!MotionMessages, Sidecar!Grace, SidecarProofs!Grace,
       Sidecar!LastState, SidecarProofs!LastState, Sidecar!Longest,
       SidecarProofs!Longest, Sidecar!Kept, SidecarProofs!Kept, Sidecar!Answer,
       SidecarProofs!Answer, Sidecar!NewId, SidecarProofs!NewId, Sidecar!Seed,
       SidecarProofs!Seed, Sidecar!Extended, SidecarProofs!Extended,
       Sidecar!Taken, SidecarProofs!Taken, Sidecar!Rest, SidecarProofs!Rest,
       Sidecar!Changes, SidecarProofs!Changes

LEMMA SameWord == SidecarProofs!LastWord => LastWord
BY DEF LastWord, Sidecar!LastWord, SidecarProofs!LastWord, Sidecar!LastState,
       SidecarProofs!LastState, Sidecar!TopicSet, SidecarProofs!TopicSet,
       Sidecar!Max, SidecarProofs!Max

LEMMA SameAlternation == SidecarProofs!EdgesAlternate => EdgesAlternate
BY DEF EdgesAlternate, Sidecar!EdgesAlternate, SidecarProofs!EdgesAlternate, Sidecar!LastState,
       SidecarProofs!LastState, Sidecar!TopicSet, SidecarProofs!TopicSet,
       Sidecar!Max, SidecarProofs!Max

LEMMA SameLife == SidecarProofs!LiveSubscriberKept => LiveSubscriberKept
<1>1. [\A s \in DOMAIN subscriptions \ DOMAIN subscriptions' :
          \/ silent[s] > SidecarProofs!Grace + Lifetime
          \/ SidecarProofs!Unsubscribe(s)
          \/ SidecarProofs!Restart]_(SidecarProofs!vars)
      => [\A s \in DOMAIN subscriptions \ DOMAIN subscriptions' :
             \/ silent[s] > Sidecar!Grace + Lifetime
             \/ Sidecar!Unsubscribe(s)
             \/ Sidecar!Restart]_(Sidecar!vars)
  BY DEF Sidecar!vars, SidecarProofs!vars, Sidecar!Grace, SidecarProofs!Grace,
         Sidecar!Unsubscribe, SidecarProofs!Unsubscribe, Sidecar!Restart,
         SidecarProofs!Restart, Sidecar!Answer, SidecarProofs!Answer,
         Sidecar!Kept, SidecarProofs!Kept
<1> QED
  BY <1>1, PTL DEF LiveSubscriberKept, Sidecar!LiveSubscriberKept,
                   SidecarProofs!LiveSubscriberKept

LEMMA SameSidecar == Sidecar!Spec => SidecarProofs!Spec
BY SameStart, SameStep, PTL DEF Sidecar!Spec, SidecarProofs!Spec

-----------------------------------------------------------------------------
(* The theorems about the recorders *)

\* The bridge behaves as Motion says, also when the level that it posts to is
\* that of a whole sidecar: its trigger endpoint sets the level (or ignores what
\* is no change), and nothing else but a restart touches it
\* (events-service.js:283-325).
THEOREM RecordersImplementMotion == RecorderSpec => Spec
BY RecorderStart, RecorderRunsMotion, PTL DEF RecorderSpec, Spec

\* Seen from the sidecar the bridge is a client that triggers: nothing the
\* tracker, the queues and the other cameras do touches it otherwise
\* (motion.go:316-345).
THEOREM RecordersImplementSidecar == RecorderSpec => Sidecar!Spec
<1>1. TypeOK /\ [RecorderNext]_recorderVars => [Sidecar!Next]_(Sidecar!vars)
  BY RecorderRunsSidecar
<1> QED
  BY <1>1, RecorderStart, RecordersImplementMotion, MotionTypes, PTL
     DEF RecorderSpec, Sidecar!Spec

\* The last word a recorder gets on a topic is the level of the sidecar, with the
\* bridge as it posts, loses and restarts (events-service.js:237-265).
THEOREM RecorderWordCorrect == RecorderSpec => []LastWord
<1>1. SidecarProofs!Spec => []SidecarProofs!LastWord
  BY SidecarProofs!WordCorrect, TopicsAssumption, NumbersAssumption, PTL
<1> QED
  BY <1>1, RecordersImplementSidecar, SameSidecar, SameWord, PTL

\* A recorder gets no state twice in a row, whatever the bridge posts: a trigger
\* that is no change queues nothing (events-service.js:283-325).
THEOREM RecorderAlternateCorrect == RecorderSpec => []EdgesAlternate
<1>1. SidecarProofs!Spec => []SidecarProofs!EdgesAlternate
  BY SidecarProofs!AlternateCorrect, TopicsAssumption, NumbersAssumption, PTL
<1> QED
  BY <1>1, RecordersImplementSidecar, SameSidecar, SameAlternation, PTL

\* A recorder that keeps in touch keeps its subscription until it unsubscribes
\* or the sidecar restarts, with the bridge as it is (events-service.js:206-227).
THEOREM RecorderLifeCorrect == RecorderSpec => LiveSubscriberKept
<1>1. SidecarProofs!Spec => SidecarProofs!LiveSubscriberKept
  BY SidecarProofs!LiveCorrect, TopicsAssumption, NumbersAssumption, PTL
<1> QED
  BY <1>1, RecordersImplementSidecar, SameSidecar, SameLife, PTL

\* From the tracker to the recorders: once nothing is on its way, the last word
\* of every subscription on every topic is the tracker's level, unless the last
\* post was lost, a restart came since, or two emissions raced.  SettleCorrect
\* brings the level to the sidecar (motion.go:229-277), LastWord brings it to
\* the recorder (events-service.js:215-325).
THEOREM RecordersCorrect == RecorderSpec => []RecordersInformed
<1>1. SettlesWithoutRace /\ LastWord => RecordersInformed
  BY WatchedAssumption DEF SettlesWithoutRace, LastWord, RecordersInformed, Sidecar!LastWord
<1> QED
  BY <1>1, RecordersImplementMotion, SettleCorrect, RecorderWordCorrect, PTL
==============================================================================
