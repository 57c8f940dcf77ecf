-------------------------- MODULE EventsServiceProofs --------------------------
(***************************************************************************)
(* Proofs about EventsService, for any topics, number of subscriptions,    *)
(* pull limit and lifetime: whatever a subscriber pulls, its last word is  *)
(* the present level, it never gets a state twice in a row, and it is not  *)
(* reaped while it is heard of.                                            *)
(*                                                                         *)
(* The first two follow from one fact about LastState: it may be computed  *)
(* piece by piece, so that it does not matter how pulls cut a queue.       *)
(***************************************************************************)
EXTENDS EventsService, TLAPS, SequenceTheorems, WellFoundedInduction

\* The types of the variables.
Types ==
    /\ DOMAIN subscriptions \subseteq Ids
    /\ subscriptions \in [DOMAIN subscriptions -> [left : Int, queue : Seq(Message)]]
    /\ motionState \in BOOLEAN
    /\ subCounter \in Nat
    /\ handedOut \in [Ids -> [TopicSet -> SUBSET BOOLEAN]]

-----------------------------------------------------------------------------
(* LastState *)

NatLess == {ss \in Nat \X Nat : ss[1] < ss[2]}

\* A set of numbers has a least one.
LEMMA NatLessWellFounded == IsWellFoundedOn(NatLess, Nat)
<1>1. OpToRel(<, Nat) = NatLess
  BY DEF OpToRel, NatLess
<1> QED
  BY <1>1, NatLessThanWellFounded, Zenon

\* The last message of t in q is at k.
LastAt(q, t, k) ==
    k \in 1 .. Len(q) /\ q[k].topic = t /\ \A j \in k + 1 .. Len(q) : q[j].topic # t

\* q has no message of t.
Lacks(q, t) == \A j \in 1 .. Len(q) : q[j].topic # t

\* If q has a message of t, it has a last one.
LEMMA HasLast ==
    ASSUME NEW q \in Seq(Message), NEW t, ~Lacks(q, t)
    PROVE  \E k : LastAt(q, t, k)
<1>0. PICK i \in 1 .. Len(q) : q[i].topic = t
  BY DEF Lacks
<1> DEFINE behind == {n \in 0 .. Len(q) - 1 : q[Len(q) - n].topic = t}
<1>1. Len(q) \in Nat
  OBVIOUS
<1>2. Len(q) - i \in behind /\ behind \subseteq Nat
  BY <1>0, <1>1
<1>3. PICK n \in behind : \A m \in behind : <<m, n>> \notin NatLess
  <2> HIDE DEF behind
  <2> QED BY <1>2, NatLessWellFounded, WFMin
<1>4. n \in 0 .. Len(q) - 1 /\ q[Len(q) - n].topic = t
  BY <1>3
<1>5. ASSUME NEW j \in Len(q) - n + 1 .. Len(q), q[j].topic = t PROVE FALSE
  <2>1. Len(q) - j \in 0 .. Len(q) - 1 /\ Len(q) - j < n /\ Len(q) - (Len(q) - j) = j
    BY <1>1, <1>4, <1>5
  <2>2. Len(q) - j \in behind
    BY <1>5, <2>1
  <2> QED
    BY <1>2, <1>3, <2>1, <2>2 DEF NatLess
<1>6. Len(q) - n \in 1 .. Len(q)
  BY <1>1, <1>4
<1> QED
  BY <1>4, <1>5, <1>6 DEF LastAt

\* LastState is the state of that message.
LEMMA LastStateAt ==
    ASSUME NEW q \in Seq(Message), NEW t, NEW before,
           NEW k, LastAt(q, t, k)
    PROVE  LastState(q, t, before) = {q[k].state}
<1> DEFINE of == {i \in DOMAIN q : q[i].topic = t}
<1>1. k \in of /\ \A i \in of : i \in Nat /\ i <= k
  <2>1. DOMAIN q = 1 .. Len(q) /\ Len(q) \in Nat
    OBVIOUS
  <2>2. ASSUME NEW i \in of PROVE i \in Nat /\ i <= k
    <3>1. i \in 1 .. Len(q) /\ i \notin k + 1 .. Len(q)
      BY <2>1 DEF LastAt
    <3> QED
      BY <2>1, <3>1 DEF LastAt
  <2> QED
    BY <2>1, <2>2 DEF LastAt
<1>2. Max(of) = k
  <2> HIDE DEF of
  <2>1. \A x \in of : (\A y \in of : x >= y) => x = k
    BY <1>1
  <2>2. k \in of /\ \A y \in of : k >= y
    BY <1>1
  <2>3. Max(of) \in of /\ \A y \in of : Max(of) >= y
    BY <2>2 DEF Max
  <2> QED
    BY <2>1, <2>3
<1> QED
  BY <1>1, <1>2 DEF LastState

\* Without such a message it is the state before.
LEMMA LastStateNone ==
    ASSUME NEW q \in Seq(Message), NEW t, NEW before,
           Lacks(q, t)
    PROVE  LastState(q, t, before) = before
<1>1. {i \in DOMAIN q : q[i].topic = t} = {}
  BY DEF Lacks
<1> QED
  BY <1>1 DEF LastState

\* So it is one state or none.
LEMMA LastStateType ==
    ASSUME NEW q \in Seq(Message), NEW t, NEW before \in SUBSET BOOLEAN
    PROVE  LastState(q, t, before) \in SUBSET BOOLEAN
<1>1. CASE Lacks(q, t)
  BY <1>1, LastStateNone
<1>2. CASE ~Lacks(q, t)
  <2>1. PICK k : LastAt(q, t, k)
    BY <1>2, HasLast
  <2>2. q[k] \in Message
    BY <2>1 DEF LastAt
  <2>3. q[k].state \in BOOLEAN
    BY <2>2 DEF Message
  <2>4. LastState(q, t, before) = {q[k].state}
    BY <2>1, LastStateAt
  <2> QED
    BY <2>3, <2>4
<1> QED
  BY <1>1, <1>2

\* r is q with p behind it.
Split(r, q, p) ==
    /\ Len(r) = Len(q) + Len(p)
    /\ \A i \in 1 .. Len(q) : r[i] = q[i]
    /\ \A i \in 1 .. Len(p) : r[Len(q) + i] = p[i]

\* LastState may be computed piece by piece.
LEMMA LastStateOfSplit ==
    ASSUME NEW q \in Seq(Message), NEW p \in Seq(Message), NEW r \in Seq(Message),
           Split(r, q, p), NEW t, NEW before
    PROVE  LastState(r, t, before) = LastState(p, t, LastState(q, t, before))
<1>1. Len(q) \in Nat /\ Len(p) \in Nat
  OBVIOUS
<1> USE DEF Split
<1>2. \A j \in Len(q) + 1 .. Len(r) : j - Len(q) \in 1 .. Len(p) /\ r[j] = p[j - Len(q)]
  <2> TAKE j \in Len(q) + 1 .. Len(r)
  <2>1. j - Len(q) \in 1 .. Len(p) /\ Len(q) + (j - Len(q)) = j
    BY <1>1
  <2> QED
    BY <2>1
<1>3. CASE ~Lacks(p, t)
  <2>1. PICK k : LastAt(p, t, k)
    BY <1>3, HasLast
  <2>2. LastAt(r, t, Len(q) + k)
    <3>1. Len(q) + k \in 1 .. Len(r) /\ r[Len(q) + k].topic = t
      BY <1>1, <2>1 DEF LastAt
    <3>2. ASSUME NEW j \in Len(q) + k + 1 .. Len(r) PROVE r[j].topic # t
      <4>1. j - Len(q) \in k + 1 .. Len(p) /\ j \in Len(q) + 1 .. Len(r)
        BY <1>1, <2>1 DEF LastAt
      <4> QED
        BY <1>2, <2>1, <4>1 DEF LastAt
    <3> QED
      BY <3>1, <3>2 DEF LastAt
  <2>3. r[Len(q) + k] = p[k]
    BY <2>1 DEF LastAt
  <2>4. LastState(r, t, before) = {p[k].state}
    BY <2>2, <2>3, LastStateAt
  <2>5. LastState(p, t, LastState(q, t, before)) = {p[k].state}
    BY <2>1, LastStateAt
  <2> QED
    BY <2>4, <2>5
<1>4. CASE Lacks(p, t) /\ ~Lacks(q, t)
  <2>1. PICK k : LastAt(q, t, k)
    BY <1>4, HasLast
  <2>2. LastAt(r, t, k)
    <3>1. k \in 1 .. Len(r) /\ r[k].topic = t
      BY <1>1, <2>1 DEF LastAt
    <3>2. ASSUME NEW j \in k + 1 .. Len(r) PROVE r[j].topic # t
      <4>1. CASE j \in k + 1 .. Len(q)
        BY <1>1, <2>1, <4>1 DEF LastAt
      <4>2. CASE j \in Len(q) + 1 .. Len(r)
        BY <1>2, <1>4, <4>2 DEF Lacks
      <4> QED
        BY <1>1, <2>1, <4>1, <4>2 DEF LastAt
    <3> QED
      BY <3>1, <3>2 DEF LastAt
  <2>3. r[k] = q[k]
    BY <2>1 DEF LastAt
  <2>4. LastState(r, t, before) = {q[k].state}
    BY <2>2, <2>3, LastStateAt
  <2>5. LastState(q, t, before) = {q[k].state}
    BY <2>1, LastStateAt
  <2>6. LastState(p, t, LastState(q, t, before)) = LastState(q, t, before)
    BY <1>4, LastStateNone
  <2> QED
    BY <2>4, <2>5, <2>6
<1>5. CASE Lacks(p, t) /\ Lacks(q, t)
  <2>1. ASSUME NEW j \in 1 .. Len(r) PROVE r[j].topic # t
    <3>1. CASE j \in 1 .. Len(q)
      BY <1>5, <3>1 DEF Lacks
    <3>2. CASE j \in Len(q) + 1 .. Len(r)
      BY <1>2, <1>5, <3>2 DEF Lacks
    <3> QED
      BY <1>1, <3>1, <3>2
  <2>2. Lacks(r, t)
    BY <2>1 DEF Lacks
  <2> QED
    BY <1>5, <2>2, LastStateNone
<1> QED
  BY <1>3, <1>4, <1>5

\* The m messages of q behind the k-th.
Slice(q, k, m) == SubSeq(q, k + 1, k + m)

\* The messages of a slice.
LEMMA SliceOf ==
    ASSUME NEW q \in Seq(Message), NEW k \in 0 .. Len(q), NEW m \in 0 .. Len(q) - k
    PROVE  /\ Slice(q, k, m) \in Seq(Message)
           /\ Len(Slice(q, k, m)) = m
           /\ \A i \in 1 .. m : Slice(q, k, m)[i] = q[k + i]
<1>1. Len(q) \in Nat /\ k \in Nat /\ m \in Nat
  OBVIOUS
<1>2. \A i \in k + 1 .. k + m : q[i] \in Message
  BY <1>1
<1>3. (k + m) - (k + 1) + 1 = m /\ (k + 1 <= k + m \/ m = 0)
  BY <1>1
<1>4. \A i \in 1 .. m : (k + 1) + i - 1 = k + i
  BY <1>1
<1> QED
  BY <1>1, <1>2, <1>3, <1>4, SubSeqProperties DEF Slice

\* And of a prefix.
LEMMA PrefixOf ==
    ASSUME NEW q \in Seq(Message), NEW m \in 0 .. Len(q)
    PROVE  /\ Slice(q, 0, m) \in Seq(Message)
           /\ Len(Slice(q, 0, m)) = m
           /\ \A i \in 1 .. m : Slice(q, 0, m)[i] = q[i]
<1>1. 0 \in 0 .. Len(q) /\ m \in 0 .. Len(q) - 0 /\ \A i \in 1 .. m : 0 + i = i
  OBVIOUS
<1> QED
  BY <1>1, SliceOf

\* A queue, or a part of it, cut into two, as a pull does it.
LEMMA SliceSplits ==
    ASSUME NEW q \in Seq(Message), NEW k \in 0 .. Len(q), NEW m \in 0 .. Len(q) - k
    PROVE  Split(Slice(q, 0, k + m), Slice(q, 0, k), Slice(q, k, m))
<1>1. k \in Nat /\ m \in Nat /\ k + m \in 0 .. Len(q)
  OBVIOUS
<1>2. /\ Len(Slice(q, 0, k + m)) = k + m
      /\ \A i \in 1 .. k + m : Slice(q, 0, k + m)[i] = q[i]
  BY <1>1, PrefixOf
<1>3. /\ Len(Slice(q, 0, k)) = k
      /\ \A i \in 1 .. k : Slice(q, 0, k)[i] = q[i]
  BY PrefixOf
<1>4. /\ Len(Slice(q, k, m)) = m
      /\ \A i \in 1 .. m : Slice(q, k, m)[i] = q[k + i]
  BY SliceOf
<1>5. (\A i \in 1 .. m : k + i \in 1 .. k + m) /\ 1 .. k \subseteq 1 .. k + m
  BY <1>1
<1> QED
  BY <1>2, <1>3, <1>4, <1>5 DEF Split

\* An edge is one message of each topic.
LEMMA EdgeMessages ==
    ASSUME NEW state \in BOOLEAN
    PROVE  /\ MotionMessages(state) \in Seq(Message)
           /\ Len(MotionMessages(state)) = Len(Topics)
           /\ \A i \in 1 .. Len(Topics) :
                 /\ MotionMessages(state)[i].topic = Topics[i]
                 /\ MotionMessages(state)[i].state = state
<1>1. DOMAIN Topics = 1 .. Len(Topics) /\ Len(Topics) \in Nat
  BY TopicsAssumption
<1>2. MotionMessages(state) \in [1 .. Len(Topics) -> Message]
  <2>1. \A i \in 1 .. Len(Topics) : Topics[i] \in TopicSet
    BY <1>1 DEF TopicSet
  <2>2. \A i \in 1 .. Len(Topics) : [topic |-> Topics[i], state |-> state] \in Message
    BY <2>1 DEF Message
  <2> QED
    BY <1>1, <2>2 DEF MotionMessages
<1> DEFINE edge == MotionMessages(state)
<1>3. \A i \in 1 .. Len(Topics) : edge[i] = [topic |-> Topics[i], state |-> state]
  BY <1>1 DEF MotionMessages
<1> HIDE DEF edge
<1>4. ASSUME NEW i \in 1 .. Len(Topics)
      PROVE  edge[i].topic = Topics[i] /\ edge[i].state = state
  <2> DEFINE msg == [topic |-> Topics[i], state |-> state]
  <2>1. msg.topic = Topics[i]
    OBVIOUS
  <2>2. msg.state = state
    OBVIOUS
  <2>3. edge[i] = msg
    BY <1>3
  <2> HIDE DEF msg
  <2> QED
    BY <2>1, <2>2, <2>3
<1>5. edge \in Seq(Message) /\ Len(edge) = Len(Topics)
  <2>1. edge \in [1 .. Len(Topics) -> Message]
    BY <1>2 DEF edge
  <2> QED
    BY <1>1, <2>1
<1> QED
  BY <1>4, <1>5 DEF edge

\* After an edge its state is the last word.
LEMMA LastStateOfEdge ==
    ASSUME NEW state \in BOOLEAN, NEW t \in TopicSet, NEW before
    PROVE  LastState(MotionMessages(state), t, before) = {state}
<1> DEFINE edge == MotionMessages(state)
<1>0. edge \in Seq(Message) /\ Len(edge) = Len(Topics)
  BY EdgeMessages
<1>1. PICK i \in 1 .. Len(Topics) : Topics[i] = t
  BY TopicsAssumption DEF TopicSet
<1>2. ~Lacks(edge, t)
  BY <1>0, <1>1, EdgeMessages DEF Lacks
<1> HIDE DEF edge
<1>3. PICK k : LastAt(edge, t, k)
  BY <1>0, <1>2, HasLast
<1>4. LastState(edge, t, before) = {edge[k].state}
  BY <1>0, <1>3, LastStateAt
<1>5. edge[k].state = state
  BY <1>0, <1>3, EdgeMessages DEF edge, LastAt
<1> QED
  BY <1>4, <1>5 DEF edge

-----------------------------------------------------------------------------
(* What a subscription is owed *)

\* After what h says was handed out, no state comes twice in a row.
NeverTwice(q, h) ==
    \A i \in 1 .. Len(q) :
        LastState(Slice(q, 0, i - 1), q[i].topic, h[q[i].topic]) # {q[i].state}

\* And the last word of the queue q on every topic is state.
Tells(q, h, state) ==
    /\ q \in Seq(Message)
    /\ \A t \in TopicSet : LastState(q, t, h[t]) = {state}
    /\ NeverTwice(q, h)

\* What was handed out once the first n messages of q have been pulled.
After(q, h, n) == [t \in TopicSet |-> LastState(Slice(q, 0, n), t, h[t])]

\* A pull leaves what is owed as it was, wherever it cuts the queue.
LEMMA PullTells ==
    ASSUME NEW q, NEW h, NEW state, Tells(q, h, state), NEW n \in 0 .. Len(q)
    PROVE  Tells(Slice(q, n, Len(q) - n), After(q, h, n), state)
<1>1. q \in Seq(Message) /\ Len(q) \in Nat /\ n \in Nat /\ Len(q) - n \in 0 .. Len(q) - n
      /\ n + (Len(q) - n) = Len(q)
  BY DEF Tells
<1> DEFINE first == Slice(q, 0, n)
           rest == Slice(q, n, Len(q) - n)
<1>2. /\ first \in Seq(Message)
      /\ rest \in Seq(Message) /\ Len(rest) = Len(q) - n
      /\ \A i \in 1 .. Len(q) - n : rest[i] = q[n + i]
  BY <1>1, SliceOf, PrefixOf
<1>3. \A m \in 0 .. Len(q) - n, t \in TopicSet :
         LastState(Slice(q, 0, n + m), t, h[t])
            = LastState(Slice(q, n, m), t, After(q, h, n)[t])
  <2> TAKE m \in 0 .. Len(q) - n, t \in TopicSet
  <2>1. n + m \in 0 .. Len(q)
    BY <1>1
  <2>2. Slice(q, 0, n + m) \in Seq(Message) /\ Slice(q, n, m) \in Seq(Message)
    BY <1>1, <2>1, SliceOf, PrefixOf
  <2>3. Split(Slice(q, 0, n + m), first, Slice(q, n, m))
    BY <1>1, SliceSplits
  <2> QED
    BY <1>2, <2>2, <2>3, LastStateOfSplit DEF After
<1>4. Slice(q, 0, n + (Len(q) - n)) = q
  BY <1>1, SubSeqFull DEF Slice
<1>5. \A t \in TopicSet : LastState(rest, t, After(q, h, n)[t]) = {state}
  BY <1>1, <1>3, <1>4 DEF Tells
<1>6. ASSUME NEW i \in 1 .. Len(rest)
      PROVE  LastState(Slice(rest, 0, i - 1), rest[i].topic, After(q, h, n)[rest[i].topic])
                # {rest[i].state}
  <2>0. Len(rest) = Len(q) - n /\ rest[i] = q[n + i]
    <3>1. i \in 1 .. Len(q) - n
      BY <1>2
    <3> QED
      BY <1>2, <3>1
  <2>1. /\ n + i \in 1 .. Len(q) /\ rest[i] = q[n + i] /\ (n + i) - 1 = n + (i - 1)
        /\ i - 1 \in 0 .. Len(q) - n /\ i - 1 \in 0 .. Len(rest)
    <3> HIDE DEF rest
    <3> QED
      BY <1>1, <2>0
  <2>2. rest[i].topic \in TopicSet
    <3>1. rest[i] \in Message
      BY <1>2, ElementOfSeq
    <3> QED
      BY <3>1 DEF Message
  <2>3. Slice(rest, 0, i - 1) = Slice(q, n, i - 1)
    <3>1. /\ Slice(rest, 0, i - 1) \in Seq(Message) /\ Len(Slice(rest, 0, i - 1)) = i - 1
          /\ \A j \in 1 .. i - 1 : Slice(rest, 0, i - 1)[j] = rest[j]
      BY <1>2, <2>1, PrefixOf
    <3>2. /\ Slice(q, n, i - 1) \in Seq(Message) /\ Len(Slice(q, n, i - 1)) = i - 1
          /\ \A j \in 1 .. i - 1 : Slice(q, n, i - 1)[j] = q[n + j]
      BY <1>1, <2>1, SliceOf
    <3>3. \A j \in 1 .. i - 1 : rest[j] = q[n + j]
      BY <1>1, <1>2
    <3> QED
      BY <3>1, <3>2, <3>3, SeqEqual
  <2>4. LastState(Slice(q, 0, (n + i) - 1), q[n + i].topic, h[q[n + i].topic]) # {q[n + i].state}
    BY <2>1 DEF Tells, NeverTwice
  <2>5. LastState(Slice(q, 0, n + (i - 1)), rest[i].topic, h[rest[i].topic])
           = LastState(Slice(q, n, i - 1), rest[i].topic, After(q, h, n)[rest[i].topic])
    BY <1>3, <2>1, <2>2
  <2> QED
    BY <2>1, <2>3, <2>4, <2>5
<1>7. rest \in Seq(Message) /\ NeverTwice(rest, After(q, h, n))
  <2> HIDE DEF rest
  <2> QED BY <1>2, <1>6 DEF NeverTwice
<1> QED
  BY <1>5, <1>7 DEF Tells

\* An edge behind a queue that ends otherwise is owed as well, and the last word.
LEMMA EdgeTells ==
    ASSUME NEW q \in Seq(Message), NEW h, NeverTwice(q, h), NEW state \in BOOLEAN,
           \A t \in TopicSet : LastState(q, t, h[t]) # {state},
           NEW r \in Seq(Message), Split(r, q, MotionMessages(state))
    PROVE  Tells(r, h, state)
<1> DEFINE edge == MotionMessages(state)
<1>1. /\ edge \in Seq(Message) /\ Len(edge) = Len(Topics)
      /\ \A i \in 1 .. Len(Topics) : edge[i].topic = Topics[i] /\ edge[i].state = state
  BY EdgeMessages
<1>2. Len(q) \in Nat /\ Len(Topics) \in Nat /\ DOMAIN Topics = 1 .. Len(Topics)
  BY TopicsAssumption
<1>3. Split(r, q, edge)
  OBVIOUS
<1> HIDE DEF edge
<1>4. /\ Len(r) = Len(q) + Len(Topics)
      /\ \A i \in 1 .. Len(q) : r[i] = q[i]
      /\ \A i \in 1 .. Len(Topics) : r[Len(q) + i] = edge[i]
  BY <1>1, <1>3 DEF Split
<1>5. \A t \in TopicSet : LastState(r, t, h[t]) = {state}
  <2> TAKE t \in TopicSet
  <2>1. LastState(r, t, h[t]) = LastState(edge, t, LastState(q, t, h[t]))
    BY <1>1, <1>3, LastStateOfSplit
  <2> QED
    BY <2>1, LastStateOfEdge DEF edge
<1>6. \A m \in 0 .. Len(q) : Slice(r, 0, m) = Slice(q, 0, m)
  <2> TAKE m \in 0 .. Len(q)
  <2>1. m \in 0 .. Len(r) /\ m \in Nat
    BY <1>2, <1>4
  <2>2. /\ Slice(r, 0, m) \in Seq(Message) /\ Len(Slice(r, 0, m)) = m
        /\ \A j \in 1 .. m : Slice(r, 0, m)[j] = r[j]
    BY <2>1, PrefixOf
  <2>3. /\ Slice(q, 0, m) \in Seq(Message) /\ Len(Slice(q, 0, m)) = m
        /\ \A j \in 1 .. m : Slice(q, 0, m)[j] = q[j]
    BY PrefixOf
  <2>4. \A j \in 1 .. m : r[j] = q[j]
    BY <1>2, <1>4
  <2> QED
    BY <2>2, <2>3, <2>4, SeqEqual
<1>7. ASSUME NEW i \in 1 .. Len(r)
      PROVE  LastState(Slice(r, 0, i - 1), r[i].topic, h[r[i].topic]) # {r[i].state}
  <2>1. CASE i \in 1 .. Len(q)
    <3>1. i - 1 \in 0 .. Len(q) /\ r[i] = q[i]
      BY <1>2, <1>4, <2>1
    <3>2. LastState(Slice(q, 0, i - 1), q[i].topic, h[q[i].topic]) # {q[i].state}
      BY <2>1 DEF NeverTwice
    <3> QED
      BY <1>6, <3>1, <3>2
  <2>2. CASE i \in Len(q) + 1 .. Len(r)
    <3> DEFINE j == i - Len(q)
               t == Topics[j]
               part == Slice(r, Len(q), j - 1)
    <3>1. /\ j \in 1 .. Len(Topics) /\ i = Len(q) + j /\ i - 1 = Len(q) + (j - 1)
          /\ Len(q) \in 0 .. Len(r) /\ j - 1 \in 0 .. Len(r) - Len(q) /\ j - 1 \in Nat
          /\ \A k \in 1 .. j - 1 : k \in 1 .. Len(Topics) /\ k # j
      <4>1. j \in 1 .. Len(Topics) /\ i = Len(q) + j
        BY <1>2, <1>4, <2>2
      <4> HIDE DEF j
      <4>2. i - 1 = Len(q) + (j - 1) /\ j - 1 \in Nat
        BY <1>2, <4>1
      <4>3. Len(q) \in 0 .. Len(r) /\ j - 1 \in 0 .. Len(r) - Len(q)
        BY <1>2, <1>4, <4>1
      <4>4. \A k \in 1 .. j - 1 : k \in 1 .. Len(Topics) /\ k # j
        BY <1>2, <4>1
      <4> QED
        BY <4>1, <4>2, <4>3, <4>4
    <3>2. t \in TopicSet /\ r[i].topic = t /\ r[i].state = state
      <4> HIDE DEF j
      <4>1. r[i] = edge[j] /\ j \in DOMAIN Topics
        BY <1>2, <1>4, <3>1
      <4> QED
        BY <1>1, <3>1, <4>1 DEF TopicSet
    <3>3. /\ part \in Seq(Message) /\ Len(part) = j - 1
          /\ \A k \in 1 .. j - 1 : part[k] = r[Len(q) + k]
      <4> HIDE DEF j
      <4>1. Len(q) \in 0 .. Len(r) /\ j - 1 \in 0 .. Len(r) - Len(q)
        BY <3>1
      <4> QED
        BY <4>1, SliceOf
    <3> HIDE DEF part
    <3>4. \A k \in 1 .. j - 1 : part[k].topic # t
      <4> TAKE k \in 1 .. j - 1
      <4>1. k \in 1 .. Len(Topics) /\ k # j
        BY <3>1
      <4>2. Topics[k] # t
        BY <1>2, <3>1, <4>1, TopicsAssumption
      <4>3. part[k] = edge[k]
        BY <1>4, <3>3, <4>1
      <4> QED
        BY <1>1, <4>1, <4>2, <4>3
    <3>5. Lacks(part, t)
      BY <3>3, <3>4 DEF Lacks
    <3>6. Slice(r, 0, Len(q)) = q
      <4>1. Len(q) \in 0 .. Len(q)
        BY <1>2
      <4>2. Slice(q, 0, Len(q)) = q
        BY SubSeqFull, <1>2 DEF Slice
      <4> QED
        BY <1>6, <4>1, <4>2
    <3>7. Split(Slice(r, 0, i - 1), q, part)
      <4>1. Split(Slice(r, 0, Len(q) + (j - 1)), Slice(r, 0, Len(q)), Slice(r, Len(q), j - 1))
        BY <3>1, SliceSplits
      <4> QED
        BY <3>1, <3>6, <4>1 DEF part
    <3>8. Slice(r, 0, i - 1) \in Seq(Message)
      <4>1. i - 1 \in 0 .. Len(r)
        BY <1>2, <1>4, <2>2
      <4> QED
        BY <4>1, PrefixOf
    <3>9. LastState(Slice(r, 0, i - 1), t, h[t]) = LastState(part, t, LastState(q, t, h[t]))
      BY <3>3, <3>7, <3>8, LastStateOfSplit
    <3>10. LastState(part, t, LastState(q, t, h[t])) = LastState(q, t, h[t])
      BY <3>3, <3>5, LastStateNone
    <3> QED
      BY <3>2, <3>9, <3>10
  <2> QED
    BY <1>2, <1>4, <2>1, <2>2
<1> QED
  BY <1>5, <1>7 DEF Tells, NeverTwice

\* So is the seed of a new subscription, to which nothing was handed out.
LEMMA SeedTells ==
    ASSUME NEW state \in BOOLEAN
    PROVE  Tells(MotionMessages(state), [t \in TopicSet |-> {}], state)
<1> DEFINE h == [t \in TopicSet |-> {}]
           none == <<>>
           edge == MotionMessages(state)
<1>1. none \in Seq(Message) /\ Len(none) = 0
  OBVIOUS
<1>2. edge \in Seq(Message) /\ Len(edge) \in Nat
  BY EdgeMessages
<1> HIDE DEF none, edge
<1>3. Split(edge, none, edge) /\ NeverTwice(none, h)
  BY <1>1, <1>2 DEF Split, NeverTwice
<1>4. \A t \in TopicSet : LastState(none, t, h[t]) # {state}
  <2> TAKE t \in TopicSet
  <2>1. Lacks(none, t)
    BY <1>1 DEF Lacks
  <2>2. LastState(none, t, h[t]) = h[t]
    BY <1>1, <2>1, LastStateNone
  <2> QED
    BY <2>2
<1> QED
  BY <1>1, <1>2, <1>3, <1>4, EdgeTells DEF edge

-----------------------------------------------------------------------------
(* The steps *)

\* Every subscription is owed the present level.
Owed ==
    \A s \in DOMAIN subscriptions :
        Tells(subscriptions[s].queue, handedOut[s], motionState)

ServiceInv == Types /\ Owed

\* No subscriptions are a map of subscriptions.
LEMMA NothingIsFunction ==
    ASSUME NEW S
    PROVE  <<>> \in [{} -> S]
<1>1. <<>> \in Seq(S) /\ Len(<<>>) = 0
  OBVIOUS
<1>2. <<>> \in [1 .. 0 -> S]
  BY <1>1, LenProperties
<1> QED
  BY <1>2

\* At the start nobody has subscribed.
LEMMA ServiceInit == Init => ServiceInv
<1> SUFFICES ASSUME Init PROVE ServiceInv
  OBVIOUS
<1>1. DOMAIN subscriptions = {}
  BY DEF Init
<1>2. Types
  <2>1. subscriptions \in [{} -> [left : Int, queue : Seq(Message)]]
    BY NothingIsFunction DEF Init
  <2> QED
    BY <1>1, <2>1 DEF Init, Types
<1> QED
  BY <1>1, <1>2 DEF ServiceInv, Owed

\* The subscriptions a request keeps lose at most time.
LEMMA KeptSubscriptions ==
    ASSUME Types
    PROVE  /\ Kept \subseteq DOMAIN subscriptions /\ Kept \subseteq Ids
           /\ \A k \in DOMAIN subscriptions :
                 subscriptions[k] \in [left : Int, queue : Seq(Message)]
           /\ Lifetime \in Int
BY NumbersAssumption DEF Types, Kept

\* A request that touches no queue and no history.
LEMMA QuietRequest ==
    ASSUME ServiceInv, NEW D \in SUBSET DOMAIN subscriptions,
           DOMAIN subscriptions' = D,
           subscriptions' \in [D -> [left : Int, queue : Seq(Message)]],
           \A k \in D : subscriptions'[k].queue = subscriptions[k].queue,
           motionState' = motionState, handedOut' = handedOut, subCounter' \in Nat
    PROVE  ServiceInv'
<1>1. Types'
  BY DEF ServiceInv, Types
<1>2. Owed'
  BY DEF ServiceInv, Owed
<1> QED
  BY <1>1, <1>2 DEF ServiceInv

\* A new subscription is owed its seed.
LEMMA StepCreate == ServiceInv /\ CreatePullPoint => ServiceInv'
<1> SUFFICES ASSUME ServiceInv, CreatePullPoint PROVE ServiceInv'
  OBVIOUS
<1> DEFINE s == NewId
           h == [t \in TopicSet |-> {}]
<1>0. Types /\ Owed
  BY DEF ServiceInv
<1>1. s \in Ids /\ motionState' = motionState /\ motionState \in BOOLEAN
  BY <1>0, NumbersAssumption DEF Types, CreatePullPoint, Answer, NewId, Ids
<1>2. Tells(Seed, h, motionState) /\ Seed \in Seq(Message)
  BY <1>1, SeedTells DEF Seed, Tells
<1>3. handedOut' = [handedOut EXCEPT ![s] = h] /\ handedOut'[s] = h
      /\ (\A k \in Ids : k # s => handedOut'[k] = handedOut[k])
      /\ handedOut' \in [Ids -> [TopicSet -> SUBSET BOOLEAN]]
  BY <1>0, <1>1 DEF Types, CreatePullPoint
<1>4. subscriptions' = [k \in Kept \cup {s} |->
          IF k = s THEN [left |-> Lifetime, queue |-> Seed] ELSE subscriptions[k]]
  BY DEF CreatePullPoint, Answer
<1>5. subCounter' \in Nat
  BY <1>0 DEF Types, CreatePullPoint
<1> HIDE DEF s, h
<1>6. /\ DOMAIN subscriptions' = Kept \cup {s}
      /\ \A k \in Kept \cup {s} : subscriptions'[k] =
            IF k = s THEN [left |-> Lifetime, queue |-> Seed] ELSE subscriptions[k]
  BY <1>4
<1>7. \A k \in Kept \cup {s} : subscriptions'[k] \in [left : Int, queue : Seq(Message)]
  BY <1>0, <1>2, <1>6, KeptSubscriptions
<1>8. Types'
  BY <1>0, <1>1, <1>3, <1>4, <1>5, <1>6, <1>7, KeptSubscriptions DEF Types
<1>9. Owed'
  BY <1>0, <1>1, <1>2, <1>3, <1>6, KeptSubscriptions DEF Owed
<1> QED
  BY <1>8, <1>9 DEF ServiceInv

\* What a pull makes of a subscription.
LEMMA ExtendedRest ==
    ASSUME NEW sub \in [left : Int, queue : Seq(Message)], NEW r \in Seq(Message)
    PROVE  Extended([sub EXCEPT !.queue = r], TRUE) = [left |-> Lifetime, queue |-> r]
<1> DEFINE one == [sub EXCEPT !.queue = r]
<1>1. one \in [left : Int, queue : Seq(Message)] /\ one.queue = r
  OBVIOUS
<1> HIDE DEF one
<1>2. Lifetime \in Int
  BY NumbersAssumption
<1> DEFINE two == [one EXCEPT !.left = Lifetime]
<1>3. two \in [left : Int, queue : Seq(Message)] /\ two.left = Lifetime /\ two.queue = r
  BY <1>1, <1>2
<1>4. Extended([sub EXCEPT !.queue = r], TRUE) = two
  BY DEF Extended, one
<1> HIDE DEF two
<1>5. two = [left |-> Lifetime, queue |-> r]
  BY <1>3
<1> QED
  BY <1>4, <1>5

\* A pull moves messages from the queue to the history.
LEMMA StepPull ==
    ASSUME ServiceInv, NEW s \in Ids, PullMessages(s)
    PROVE  ServiceInv'
<1>0. Types /\ Owed
  BY DEF ServiceInv
<1>1. CASE s \in Kept
  <2> DEFINE q == subscriptions[s].queue
             n == Taken(q)
             h == handedOut[s]
  <2>1. Tells(q, h, motionState) /\ q \in Seq(Message) /\ Len(q) \in Nat
    <3>1. s \in DOMAIN subscriptions
      BY <1>0, <1>1, KeptSubscriptions
    <3>2. Tells(q, h, motionState)
      BY <1>0, <3>1 DEF Owed
    <3> HIDE DEF q, n, h
    <3>3. q \in Seq(Message)
      BY <3>2 DEF Tells
    <3> QED
      BY <3>2, <3>3
  <2>2. n \in 0 .. Len(q) /\ n + (Len(q) - n) = Len(q) /\ 0 + 1 = 1 /\ 0 + n = n
    BY <2>1, NumbersAssumption DEF Taken
  <2>3. Rest(q) = Slice(q, n, Len(q) - n)
    BY <2>2 DEF Rest, Slice
  <2>4. SubSeq(q, 1, n) = Slice(q, 0, n)
    BY <2>2 DEF Slice
  <2>5. handedOut' = [handedOut EXCEPT ![s] =
            [t \in TopicSet |-> LastState(SubSeq(q, 1, n), t, h[t])]]
    BY <1>1 DEF PullMessages
  <2>6. Tells(Rest(q), After(q, h, n), motionState)
    BY <2>1, <2>2, <2>3, PullTells
  <2>7. handedOut'[s] = After(q, h, n) /\ \A k \in Ids : k # s => handedOut'[k] = handedOut[k]
    BY <1>0, <2>4, <2>5 DEF Types, After
  <2>8. subscriptions' = [k \in Kept |->
            IF k = s THEN Extended([subscriptions[s] EXCEPT !.queue = Rest(q)], TRUE)
                     ELSE subscriptions[k]]
        /\ motionState' = motionState /\ subCounter' = subCounter
    BY <1>1 DEF PullMessages, Answer
  <2>9. Rest(q) \in Seq(Message)
    BY <2>6 DEF Tells
  <2>10. \A t \in TopicSet : LastState(Slice(q, 0, n), t, h[t]) \in SUBSET BOOLEAN
    <3> TAKE t \in TopicSet
    <3>1. Slice(q, 0, n) \in Seq(Message)
      BY <2>1, <2>2, PrefixOf
    <3> QED
      BY <1>0, <3>1, LastStateType DEF Types
  <2> HIDE DEF q, n, h
  <2>11. /\ DOMAIN subscriptions' = Kept
         /\ subscriptions'[s] = [left |-> Lifetime, queue |-> Rest(q)]
         /\ \A k \in Kept : k # s => subscriptions'[k] = subscriptions[k]
    <3>1. Extended([subscriptions[s] EXCEPT !.queue = Rest(q)], TRUE)
             = [left |-> Lifetime, queue |-> Rest(q)]
      BY <1>0, <1>1, <2>9, KeptSubscriptions, ExtendedRest
    <3> QED
      BY <1>1, <2>8, <3>1
  <2>12. handedOut' \in [Ids -> [TopicSet -> SUBSET BOOLEAN]]
    BY <1>0, <2>4, <2>5, <2>10 DEF Types
  <2>13. Types'
    <3>1. \A k \in Kept : subscriptions'[k] \in [left : Int, queue : Seq(Message)]
      <4> TAKE k \in Kept
      <4>1. CASE k = s
        <5>1. [left |-> Lifetime, queue |-> Rest(q)] \in [left : Int, queue : Seq(Message)]
          BY <2>9, NumbersAssumption
        <5> QED
          BY <2>11, <4>1, <5>1
      <4>2. CASE k # s
        <5>1. subscriptions'[k] = subscriptions[k] /\ k \in DOMAIN subscriptions
          BY <1>0, <2>11, <4>2, KeptSubscriptions
        <5> QED
          BY <1>0, <5>1, KeptSubscriptions
      <4> QED
        BY <4>1, <4>2
    <3> QED
      BY <1>0, <2>8, <2>11, <2>12, <3>1, KeptSubscriptions DEF Types
  <2>14. Owed'
    <3> SUFFICES ASSUME NEW k \in Kept
                 PROVE  Tells(subscriptions'[k].queue, handedOut'[k], motionState)
      BY <2>8, <2>11 DEF Owed
    <3>1. CASE k = s
      <4>1. subscriptions'[k].queue = Rest(q)
        BY <2>11, <3>1
      <4> QED
        BY <2>6, <2>7, <3>1, <4>1
    <3>2. CASE k # s
      <4>1. subscriptions'[k] = subscriptions[k] /\ handedOut'[k] = handedOut[k]
            /\ k \in DOMAIN subscriptions
        BY <1>0, <2>7, <2>11, <3>2, KeptSubscriptions
      <4> QED
        BY <1>0, <4>1 DEF Owed
    <3> QED
      BY <3>1, <3>2
  <2> QED
    BY <2>13, <2>14 DEF ServiceInv
<1>2. CASE s \notin Kept
  <2>1. /\ subscriptions' = [k \in Kept |-> subscriptions[k]]
        /\ motionState' = motionState /\ handedOut' = handedOut /\ subCounter' = subCounter
    BY <1>2 DEF PullMessages, Answer
  <2> QED
    BY <1>0, <2>1, KeptSubscriptions, QuietRequest DEF Types
<1> QED
  BY <1>1, <1>2

\* The other requests and time leave the queues they keep alone.
LEMMA StepQuiet ==
    ASSUME ServiceInv,
           (\E s \in Ids : Renew(s) \/ Unsubscribe(s)) \/ OtherRequest \/ Tick
    PROVE  ServiceInv'
<1>0. Types /\ subCounter \in Nat /\ Kept \subseteq DOMAIN subscriptions
  BY KeptSubscriptions DEF ServiceInv, Types
<1>1. ASSUME NEW s \in Ids, Renew(s) PROVE ServiceInv'
  <2>1. /\ subscriptions' = [k \in Kept |-> IF k = s THEN Extended(subscriptions[k], FALSE)
                                                    ELSE subscriptions[k]]
        /\ motionState' = motionState /\ handedOut' = handedOut /\ subCounter' = subCounter
    BY <1>1 DEF Renew, Answer
  <2>2. \A k \in Kept :
          /\ Extended(subscriptions[k], FALSE) \in [left : Int, queue : Seq(Message)]
          /\ Extended(subscriptions[k], FALSE).queue = subscriptions[k].queue
    BY <1>0, KeptSubscriptions DEF Extended
  <2>3. /\ DOMAIN subscriptions' = Kept
        /\ subscriptions' \in [Kept -> [left : Int, queue : Seq(Message)]]
        /\ \A k \in Kept : subscriptions'[k].queue = subscriptions[k].queue
    BY <1>0, <2>1, <2>2, KeptSubscriptions
  <2> QED
    BY <1>0, <2>1, <2>3, QuietRequest
<1>2. ASSUME NEW s \in Ids, Unsubscribe(s) PROVE ServiceInv'
  <2>1. /\ subscriptions' = [k \in Kept \ {s} |-> subscriptions[k]]
        /\ motionState' = motionState /\ handedOut' = handedOut /\ subCounter' = subCounter
    BY <1>2 DEF Unsubscribe, Answer
  <2>2. /\ DOMAIN subscriptions' = Kept \ {s}
        /\ subscriptions' \in [Kept \ {s} -> [left : Int, queue : Seq(Message)]]
        /\ \A k \in Kept \ {s} : subscriptions'[k].queue = subscriptions[k].queue
    BY <1>0, <2>1, KeptSubscriptions
  <2> QED
    BY <1>0, <2>1, <2>2, QuietRequest
<1>3. ASSUME OtherRequest PROVE ServiceInv'
  <2>1. /\ subscriptions' = [k \in Kept |-> subscriptions[k]]
        /\ motionState' = motionState /\ handedOut' = handedOut /\ subCounter' = subCounter
    BY <1>3 DEF OtherRequest
  <2> QED
    BY <1>0, <2>1, KeptSubscriptions, QuietRequest
<1>4. ASSUME Tick PROVE ServiceInv'
  <2> DEFINE D == DOMAIN subscriptions
  <2>1. /\ subscriptions' = [s \in D |->
              [subscriptions[s] EXCEPT !.left = IF @ < -Grace THEN @ ELSE @ - 1]]
        /\ motionState' = motionState /\ handedOut' = handedOut /\ subCounter' = subCounter
    BY <1>4 DEF Tick
  <2>2. \A k \in D : subscriptions[k] \in [left : Int, queue : Seq(Message)]
    BY <1>0, KeptSubscriptions
  <2> HIDE DEF D
  <2>3. /\ DOMAIN subscriptions' = D
        /\ subscriptions' \in [D -> [left : Int, queue : Seq(Message)]]
        /\ \A k \in D : subscriptions'[k].queue = subscriptions[k].queue
    BY <2>1, <2>2
  <2> QED
    BY <1>0, <2>1, <2>3, QuietRequest DEF D
<1> QED
  BY <1>1, <1>2, <1>3, <1>4

\* A change of the level queues an edge everywhere.
LEMMA StepTrigger ==
    ASSUME ServiceInv, NEW state \in BOOLEAN, Trigger(state)
    PROVE  ServiceInv'
<1> DEFINE D == DOMAIN subscriptions
           edge == MotionMessages(state)
<1>0. Types /\ Owed
  BY DEF ServiceInv
<1>1. /\ state # motionState /\ motionState' = state
      /\ handedOut' = handedOut /\ subCounter' = subCounter
  BY DEF Trigger, Changes
<1>2. subscriptions' = [s \in D |-> [subscriptions[s] EXCEPT !.queue = @ \o edge]]
  BY DEF Trigger
<1>3. \A s \in D : subscriptions[s] \in [left : Int, queue : Seq(Message)]
  BY <1>0, KeptSubscriptions
<1>4. edge \in Seq(Message)
  BY EdgeMessages
<1> HIDE DEF D, edge
<1>5. \A s \in D : LET r == subscriptions[s].queue \o edge
                   IN  r \in Seq(Message) /\ Split(r, subscriptions[s].queue, edge)
  <2> TAKE s \in D
  <2> DEFINE q == subscriptions[s].queue
  <2>1. q \in Seq(Message)
    BY <1>3
  <2> HIDE DEF q
  <2>2. Len(q) \in Nat /\ Len(edge) \in Nat
    BY <1>4, <2>1
  <2>3. \A i \in 1 .. Len(edge) :
          Len(q) + i \in 1 .. Len(q) + Len(edge) /\ ~(Len(q) + i <= Len(q))
          /\ (Len(q) + i) - Len(q) = i
    BY <2>2
  <2>4. \A i \in 1 .. Len(q) : i \in 1 .. Len(q) + Len(edge) /\ i <= Len(q)
    BY <2>2
  <2> QED
    BY <1>4, <2>1, <2>2, <2>3, <2>4, ConcatProperties DEF Split, q
<1>6. /\ DOMAIN subscriptions' = D
      /\ \A s \in D : subscriptions'[s] \in [left : Int, queue : Seq(Message)]
      /\ \A s \in D : subscriptions'[s].queue = subscriptions[s].queue \o edge
  BY <1>2, <1>3, <1>5
<1>7. Types'
  BY <1>0, <1>1, <1>2, <1>6 DEF Types, D
<1>8. ASSUME NEW s \in D PROVE Tells(subscriptions[s].queue \o edge, handedOut[s], state)
  <2> DEFINE q == subscriptions[s].queue
             h == handedOut[s]
             r == q \o edge
  <2>1. Tells(q, h, motionState)
    BY <1>0 DEF Owed, D
  <2>2. r \in Seq(Message) /\ Split(r, q, edge)
    BY <1>5
  <2> HIDE DEF q, h, r
  <2>3. /\ q \in Seq(Message) /\ NeverTwice(q, h)
        /\ \A t \in TopicSet : LastState(q, t, h[t]) # {state}
    BY <1>1, <2>1 DEF Tells
  <2> QED
    BY <2>2, <2>3, EdgeTells DEF edge, q, h, r
<1>9. Owed'
  BY <1>1, <1>6, <1>8 DEF Owed
<1> QED
  BY <1>7, <1>9 DEF ServiceInv

\* A restart forgets every subscription.
LEMMA StepRestart == ServiceInv /\ Restart => ServiceInv'
<1> SUFFICES ASSUME ServiceInv, Restart PROVE ServiceInv'
  OBVIOUS
<1>1. DOMAIN subscriptions' = {}
  BY DEF Restart
<1>2. Types'
  <2>1. subscriptions' \in [{} -> [left : Int, queue : Seq(Message)]]
    BY NothingIsFunction DEF Restart
  <2> QED
    BY <1>1, <2>1 DEF Restart, Types, ServiceInv
<1> QED
  BY <1>1, <1>2 DEF ServiceInv, Owed

\* Every step keeps the invariant.
LEMMA ServiceStep == ServiceInv /\ [Next]_vars => ServiceInv'
<1> SUFFICES ASSUME ServiceInv, [Next]_vars PROVE ServiceInv'
  OBVIOUS
<1>1. CASE SoapRequest
  BY <1>1, StepCreate, StepPull, StepQuiet DEF SoapRequest
<1>2. CASE \E state \in BOOLEAN : Trigger(state)
  BY <1>2, StepTrigger
<1>3. CASE Restart \/ Tick
  BY <1>3, StepRestart, StepQuiet
<1>4. CASE UNCHANGED vars
  BY <1>4 DEF vars, ServiceInv, Types, Owed
<1> QED
  BY <1>1, <1>2, <1>3, <1>4 DEF Next

\* What is owed is what the properties say.
LEMMA OwedMeans == ServiceInv => LastWord /\ EdgesAlternate
<1> SUFFICES ASSUME ServiceInv, NEW s \in DOMAIN subscriptions
             PROVE  LET q == subscriptions[s].queue
                        h == handedOut[s]
                    IN  \A t \in TopicSet :
                          /\ LastState(q, t, h[t]) = {motionState}
                          /\ \A i \in {j \in DOMAIN q : q[j].topic = t} :
                                LastState(SubSeq(q, 1, i - 1), t, h[t]) # {q[i].state}
  BY DEF LastWord, EdgesAlternate
<1> DEFINE q == subscriptions[s].queue
           h == handedOut[s]
<1>1. Tells(q, h, motionState)
  BY DEF ServiceInv, Owed
<1> HIDE DEF q, h
<1>2. q \in Seq(Message) /\ DOMAIN q = 1 .. Len(q) /\ Len(q) \in Nat
  BY <1>1 DEF Tells
<1>3. ASSUME NEW t \in TopicSet, NEW i \in DOMAIN q, q[i].topic = t
      PROVE  LastState(SubSeq(q, 1, i - 1), t, h[t]) # {q[i].state}
  <2>1. i \in 1 .. Len(q) /\ 0 + 1 = 1 /\ 0 + (i - 1) = i - 1
    BY <1>2
  <2>2. SubSeq(q, 1, i - 1) = Slice(q, 0, i - 1)
    BY <2>1 DEF Slice
  <2> QED
    BY <1>1, <1>3, <2>1, <2>2 DEF Tells, NeverTwice
<1> QED
  BY <1>1, <1>3 DEF q, h, Tells

\* What is owed is owed always.
LEMMA ServiceCorrect == Spec => []ServiceInv
<1>1. Init => ServiceInv
  BY ServiceInit
<1>2. ServiceInv /\ [Next]_vars => ServiceInv'
  BY ServiceStep
<1> QED
  BY <1>1, <1>2, PTL DEF Spec

\* Whatever a subscriber has pulled and will pull, the last word it gets on a
\* topic is the present level.
THEOREM WordCorrect == Spec => []LastWord
<1>1. ServiceInv => LastWord
  BY OwedMeans
<1> QED
  BY <1>1, ServiceCorrect, PTL

\* A subscriber never gets the same state of a topic twice in a row, however the
\* edges fall into its pulls.
THEOREM AlternateCorrect == Spec => []EdgesAlternate
<1>1. ServiceInv => EdgesAlternate
  BY OwedMeans
<1> QED
  BY <1>1, ServiceCorrect, PTL

-----------------------------------------------------------------------------
(* Who is reaped *)

\* As long as a subscription is silent it loses its time, and no faster: what
\* is left of it and its silence make up a lifetime.
Contact ==
    /\ silent \in [Ids -> Nat]
    /\ \A s \in DOMAIN subscriptions :
          silent[s] >= Longest \/ silent[s] + subscriptions[s].left >= Lifetime

ContactInv == Types /\ Contact

\* A request leaves a subscription alone, or starts its lifetime afresh.
LEMMA ContactKept ==
    ASSUME ContactInv, Types', silent' \in [Ids -> Nat],
           \A k \in DOMAIN subscriptions' :
              \/ subscriptions'[k].left = Lifetime /\ silent'[k] = 0
              \/ /\ k \in DOMAIN subscriptions /\ silent'[k] = silent[k]
                 /\ subscriptions'[k].left = subscriptions[k].left
    PROVE  ContactInv'
<1>1. Lifetime \in Nat /\ Types /\ Contact
  BY NumbersAssumption DEF ContactInv
<1>2. ASSUME NEW k \in DOMAIN subscriptions'
      PROVE  (silent[k] >= Longest \/ silent[k] + subscriptions[k].left >= Lifetime)'
  <2>1. CASE subscriptions'[k].left = Lifetime /\ silent'[k] = 0
    BY <1>1, <2>1
  <2>2. CASE /\ k \in DOMAIN subscriptions /\ silent'[k] = silent[k]
             /\ subscriptions'[k].left = subscriptions[k].left
    BY <1>1, <2>2 DEF Contact, Longest, Grace
  <2> QED
    BY <2>1, <2>2
<1> QED
  BY <1>2 DEF ContactInv, Contact

\* At the start there is nobody to contact.
LEMMA ContactInit == Init => ContactInv
<1> SUFFICES ASSUME Init PROVE ContactInv
  OBVIOUS
<1>1. Types /\ DOMAIN subscriptions = {}
  BY ServiceInit DEF ServiceInv, Init
<1> QED
  BY <1>1 DEF Init, ContactInv, Contact

\* A contact with s, of which no trace is left or a whole lifetime.
LEMMA ContactAnswer ==
    ASSUME ContactInv, Types', NEW s \in Ids, silent' = [silent EXCEPT ![s] = 0],
           \A k \in DOMAIN subscriptions' :
              IF k = s THEN subscriptions'[k].left = Lifetime
              ELSE k \in DOMAIN subscriptions /\ subscriptions'[k] = subscriptions[k]
    PROVE  ContactInv'
<1>1. silent \in [Ids -> Nat] /\ DOMAIN subscriptions \subseteq Ids
  BY DEF ContactInv, Contact, Types
<1>2. silent' \in [Ids -> Nat] /\ silent'[s] = 0
      /\ \A k \in Ids : k # s => silent'[k] = silent[k]
  BY <1>1
<1>3. ASSUME NEW k \in DOMAIN subscriptions'
      PROVE  \/ subscriptions'[k].left = Lifetime /\ silent'[k] = 0
             \/ /\ k \in DOMAIN subscriptions /\ silent'[k] = silent[k]
                /\ subscriptions'[k].left = subscriptions[k].left
  <2>1. CASE k = s
    BY <1>2, <2>1
  <2>2. CASE k # s
    BY <1>1, <1>2, <2>2
  <2> QED
    BY <2>1, <2>2
<1> QED
  BY <1>2, <1>3, ContactKept

\* Time takes from what is left what it adds to the silence.
LEMMA ContactTick == ContactInv /\ Types' /\ Tick => ContactInv'
<1> SUFFICES ASSUME ContactInv, Types', Tick PROVE ContactInv'
  OBVIOUS
<1> DEFINE D == DOMAIN subscriptions
<1>1. Types /\ Contact /\ Lifetime \in Nat \ {0}
  BY NumbersAssumption DEF ContactInv
<1>2. \A s \in D : s \in Ids /\ subscriptions[s] \in [left : Int, queue : Seq(Message)]
  BY <1>1, KeptSubscriptions DEF Types
<1>3. subscriptions' = [s \in D |->
          [subscriptions[s] EXCEPT !.left = IF @ < -Grace THEN @ ELSE @ - 1]]
      /\ silent' = [s \in Ids |-> IF s \in D /\ silent[s] < Longest
                                  THEN silent[s] + 1 ELSE silent[s]]
  BY DEF Tick
<1>4. silent' \in [Ids -> Nat]
  BY <1>1, <1>3 DEF Contact
<1> HIDE DEF D
<1>5. DOMAIN subscriptions' = D
      /\ \A s \in D : subscriptions'[s].left =
            IF subscriptions[s].left < -Grace THEN subscriptions[s].left
                                              ELSE subscriptions[s].left - 1
  BY <1>2, <1>3
<1>6. ASSUME NEW s \in D
      PROVE  (silent[s] >= Longest \/ silent[s] + subscriptions[s].left >= Lifetime)'
  <2>1. /\ silent[s] \in Nat /\ subscriptions[s].left \in Int
        /\ silent[s] >= Longest \/ silent[s] + subscriptions[s].left >= Lifetime
    BY <1>1, <1>2 DEF Contact, D
  <2>2. silent'[s] = IF silent[s] < Longest THEN silent[s] + 1 ELSE silent[s]
    BY <1>2, <1>3
  <2> QED
    BY <1>1, <1>5, <2>1, <2>2 DEF Longest, Grace
<1> QED
  BY <1>4, <1>5, <1>6 DEF ContactInv, Contact

\* Every step keeps that sum.
LEMMA ContactStep == ContactInv /\ Types' /\ [Next]_vars => ContactInv'
<1> SUFFICES ASSUME ContactInv, Types', [Next]_vars PROVE ContactInv'
  OBVIOUS
<1>1. Types /\ Kept \subseteq DOMAIN subscriptions
  BY DEF ContactInv, Kept
<1>2. CASE CreatePullPoint
  <2>1. NewId \in Ids
    BY <1>1, <1>2, NumbersAssumption DEF Types, CreatePullPoint, NewId, Ids
  <2>2. silent' = [silent EXCEPT ![NewId] = 0]
        /\ subscriptions' = [k \in Kept \cup {NewId} |->
               IF k = NewId THEN [left |-> Lifetime, queue |-> Seed] ELSE subscriptions[k]]
    BY <1>2 DEF CreatePullPoint, Answer
  <2> QED
    BY <1>1, <2>1, <2>2, ContactAnswer
<1>3. ASSUME NEW s \in Ids, PullMessages(s) PROVE ContactInv'
  <2>1. CASE s \in Kept
    <3> DEFINE r == Rest(subscriptions[s].queue)
    <3>1. silent' = [silent EXCEPT ![s] = 0]
          /\ subscriptions' = [k \in Kept |->
                IF k = s THEN Extended([subscriptions[s] EXCEPT !.queue = r], TRUE)
                ELSE subscriptions[k]]
      BY <1>3, <2>1 DEF PullMessages, Answer
    <3>2. subscriptions[s] \in [left : Int, queue : Seq(Message)]
      BY <1>1, <2>1, KeptSubscriptions
    <3> HIDE DEF r
    <3>3. Extended([subscriptions[s] EXCEPT !.queue = r], TRUE).left = Lifetime
      BY <3>2 DEF Extended
    <3> QED
      BY <1>1, <3>1, <3>3, ContactAnswer
  <2>2. CASE s \notin Kept
    <3>1. silent' = [silent EXCEPT ![s] = 0]
          /\ subscriptions' = [k \in Kept |-> subscriptions[k]]
      BY <1>3, <2>2 DEF PullMessages, Answer
    <3> QED
      BY <1>1, <2>2, <3>1, ContactAnswer
  <2> QED
    BY <2>1, <2>2
<1>4. ASSUME NEW s \in Ids, Renew(s) PROVE ContactInv'
  <2>1. silent' = [silent EXCEPT ![s] = 0]
        /\ subscriptions' = [k \in Kept |-> IF k = s THEN Extended(subscriptions[k], FALSE)
                                                   ELSE subscriptions[k]]
    BY <1>4 DEF Renew, Answer
  <2>2. s \in Kept => Extended(subscriptions[s], FALSE).left = Lifetime
    BY <1>1, KeptSubscriptions DEF Extended
  <2> QED
    BY <1>1, <2>1, <2>2, ContactAnswer
<1>5. ASSUME NEW s \in Ids, Unsubscribe(s) PROVE ContactInv'
  <2>1. silent' = [silent EXCEPT ![s] = 0]
        /\ subscriptions' = [k \in Kept \ {s} |-> subscriptions[k]]
    BY <1>5 DEF Unsubscribe, Answer
  <2> QED
    BY <1>1, <2>1, ContactAnswer
<1>6. CASE OtherRequest
  <2>1. subscriptions' = [k \in Kept |-> subscriptions[k]] /\ silent' = silent
    BY <1>6 DEF OtherRequest
  <2> QED
    BY <1>1, <2>1, ContactKept DEF ContactInv, Contact
<1>7. ASSUME NEW state \in BOOLEAN, Trigger(state) PROVE ContactInv'
  <2>1. /\ subscriptions' = [s \in DOMAIN subscriptions |->
              [subscriptions[s] EXCEPT !.queue = @ \o MotionMessages(state)]]
        /\ silent' = silent
    BY <1>7 DEF Trigger
  <2>2. \A s \in DOMAIN subscriptions :
          subscriptions[s] \in [left : Int, queue : Seq(Message)]
    BY <1>1, KeptSubscriptions
  <2>3. /\ DOMAIN subscriptions' = DOMAIN subscriptions
        /\ \A s \in DOMAIN subscriptions : subscriptions'[s].left = subscriptions[s].left
    BY <2>1, <2>2
  <2> QED
    BY <2>1, <2>3, ContactKept DEF ContactInv, Contact
<1>8. CASE Restart
  <2>1. DOMAIN subscriptions' = {} /\ silent' = silent
    BY <1>8 DEF Restart
  <2> QED
    BY <2>1, ContactKept DEF ContactInv, Contact
<1>9. CASE Tick
  BY <1>9, ContactTick
<1>10. CASE UNCHANGED vars
  BY <1>10 DEF vars, ContactInv, Contact, Types
<1> QED
  BY <1>2, <1>3, <1>4, <1>5, <1>6, <1>7, <1>8, <1>9, <1>10 DEF Next, SoapRequest

\* Only Unsubscribe, a restart or more than six lifetimes of silence take a
\* subscription away.
THEOREM LiveCorrect == Spec => LiveSubscriberKept
<1> DEFINE Gone(s) == s \in DOMAIN subscriptions \ DOMAIN subscriptions'
<1>1. ASSUME ContactInv, [Next]_vars, NEW s, Gone(s)
      PROVE  silent[s] > Grace + Lifetime \/ Unsubscribe(s) \/ Restart
  <2>1. Types /\ Contact /\ Lifetime \in Nat /\ s \in Ids
    BY <1>1, NumbersAssumption DEF ContactInv, Types
  <2>2. s \in Kept => Unsubscribe(s) \/ Restart
    BY <1>1 DEF Next, SoapRequest, CreatePullPoint, PullMessages, Renew, Unsubscribe,
                OtherRequest, Answer, Trigger, Tick, vars
  <2>3. CASE s \notin Kept
    <3>1. subscriptions[s].left < -Grace
      BY <1>1, <2>1, <2>3, KeptSubscriptions DEF Kept, Grace
    <3>2. silent[s] \in Nat /\ subscriptions[s].left \in Int
      BY <1>1, <2>1, KeptSubscriptions DEF Contact
    <3>3. silent[s] >= Longest \/ silent[s] + subscriptions[s].left >= Lifetime
      BY <1>1, <2>1 DEF Contact
    <3> QED
      BY <2>1, <3>1, <3>2, <3>3 DEF Longest, Grace
  <2> QED
    BY <2>2, <2>3
<1>2. ContactInv /\ [Next]_vars =>
         [\A s \in DOMAIN subscriptions \ DOMAIN subscriptions' :
             \/ silent[s] > Grace + Lifetime
             \/ Unsubscribe(s)
             \/ Restart]_vars
  BY <1>1
<1>3. Init => ContactInv
  BY ContactInit
<1>4. ContactInv /\ ServiceInv' /\ [Next]_vars => ContactInv'
  BY ContactStep DEF ServiceInv
<1> QED
  BY <1>2, <1>3, <1>4, ServiceCorrect, PTL DEF Spec, LiveSubscriberKept

=============================================================================
