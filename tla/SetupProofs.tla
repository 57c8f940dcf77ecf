----------------------------- MODULE SetupProofs -----------------------------
(***************************************************************************)
(* Proofs about Setup, for any cameras, hosts, keys, scenarios and numbers *)
(* of requests and callbacks.                                              *)
(*                                                                         *)
(*   SetupTypes      TypeInv, of which the point is that addresses stay    *)
(*                   distinct: finalizeCameras gives away only free ones   *)
(*                   (FinalizedOwnMAC), and what a start merges from the   *)
(*                   files has addresses of its own (LoadedOK).            *)
(*   SavedCorrect    SavedInv: while nobody is between changing the draft  *)
(*                   and saving it, the draft file holds the draft.        *)
(*   RestartCorrect  from SavedInv: merging the files of a saved draft     *)
(*                   gives it back, whatever config.yaml and deploy.env    *)
(*                   say (LoadedKeeps).                                    *)
(*   StreamsCorrect  DeployInv: what a deployment on its own has written   *)
(*                   so far fits its configuration.                        *)
(*   KeyCorrect      KeyInv: a deployment that installs a key has one.     *)
(*   FailCorrect     FailInv, with ComposeInv: the compose file binds the  *)
(*                   placeholder or a host it was patched for, so that the *)
(*                   patch fails for a reason on record.                   *)
(***************************************************************************)
EXTENDS Setup, FiniteSetTheorems, SequenceTheorems, WellFoundedInduction, TLAPS

-----------------------------------------------------------------------------
(* The n-th member of a set *)

NatLess == {ss \in Nat \X Nat : ss[1] < ss[2]}

LEMMA NatLessWellFounded == IsWellFoundedOn(NatLess, Nat)
<1>1. OpToRel(<, Nat) = NatLess
  BY DEF OpToRel, NatLess
<1> QED
  BY <1>1, NatLessThanWellFounded, Zenon

\* A set of numbers has a least one.
LEMMA LeastNatural ==
    ASSUME NEW S \in SUBSET Nat, S # {}
    PROVE  \E n \in S : \A m \in S : n <= m
<1>1. PICK n \in S : \A m \in S : <<m, n>> \notin NatLess
  BY NatLessWellFounded, WFMin
<1>2. ASSUME NEW m \in S PROVE n <= m
  <2>1. m \in Nat /\ n \in Nat /\ ~(m < n)
    BY <1>1 DEF NatLess
  <2> QED BY <2>1
<1> QED
  BY <1>2

\* A finite set of positions.
Positive(S) == S \in SUBSET Nat /\ IsFiniteSet(S) /\ 0 \notin S

LEMMA PositivePositions ==
    ASSUME NEW N \in Nat, NEW S \in SUBSET (1 .. N)
    PROVE  Positive(S) /\ Cardinality(S) \in Nat /\ Cardinality(S) <= N
<1>1. IsFiniteSet(1 .. N) /\ Cardinality(1 .. N) = N
  BY FS_Interval
<1>2. IsFiniteSet(S) /\ Cardinality(S) <= N
  BY <1>1, FS_Subset
<1>3. Cardinality(S) \in Nat
  BY <1>2, FS_CardinalityType
<1>4. S \in SUBSET Nat /\ 0 \notin S
  OBVIOUS
<1> QED
  BY <1>2, <1>3, <1>4 DEF Positive

UpTo(S, i) == {k \in S : k <= i}

LEMMA UpToType ==
    ASSUME NEW S, Positive(S), NEW i
    PROVE  IsFiniteSet(UpTo(S, i)) /\ Cardinality(UpTo(S, i)) \in Nat
<1>1. UpTo(S, i) \in SUBSET S
  BY DEF UpTo
<1>2. IsFiniteSet(UpTo(S, i))
  BY <1>1, FS_Subset DEF Positive
<1> QED
  BY <1>2, FS_CardinalityType

\* One member more counts as one more.
LEMMA UpToNext ==
    ASSUME NEW S, Positive(S), NEW i \in Nat
    PROVE  Cardinality(UpTo(S, i + 1))
                = IF i + 1 \in S THEN Cardinality(UpTo(S, i)) + 1
                                 ELSE Cardinality(UpTo(S, i))
<1>1. \A k \in S : k <= i + 1 <=> k <= i \/ k = i + 1
  BY DEF Positive
<1>2. UpTo(S, i + 1) = IF i + 1 \in S THEN UpTo(S, i) \cup {i + 1} ELSE UpTo(S, i)
  BY <1>1 DEF UpTo
<1>3. i + 1 \notin UpTo(S, i)
  BY DEF UpTo
<1>4. IsFiniteSet(UpTo(S, i))
  BY UpToType
<1>5. Cardinality(UpTo(S, i) \cup {i + 1}) = Cardinality(UpTo(S, i)) + 1
  BY <1>3, <1>4, FS_AddElement
<1> QED
  BY <1>2, <1>5

\* A later member counts for more.
LEMMA UpToGrows ==
    ASSUME NEW S, Positive(S), NEW i \in S, NEW j \in S, i < j
    PROVE  Cardinality(UpTo(S, i)) < Cardinality(UpTo(S, j))
<1>1. \A k \in S : k \in Nat
  BY DEF Positive
<1>2. UpTo(S, i) \in SUBSET UpTo(S, j)
  BY <1>1 DEF UpTo
<1>3. j \in UpTo(S, j) /\ j \notin UpTo(S, i)
  BY <1>1 DEF UpTo
<1>4. /\ IsFiniteSet(UpTo(S, j)) /\ Cardinality(UpTo(S, j)) \in Nat
      /\ Cardinality(UpTo(S, i)) \in Nat
  BY UpToType
<1>5. /\ Cardinality(UpTo(S, i)) <= Cardinality(UpTo(S, j))
      /\ Cardinality(UpTo(S, i)) # Cardinality(UpTo(S, j))
  BY <1>2, <1>3, <1>4, FS_Subset
<1> QED
  BY <1>4, <1>5

\* Members that count for the same are the same.
LEMMA UpToSame ==
    ASSUME NEW S, Positive(S), NEW i \in S, NEW j \in S,
           Cardinality(UpTo(S, i)) = Cardinality(UpTo(S, j))
    PROVE  i = j
<1>1. i \in Nat /\ j \in Nat
  BY DEF Positive
<1>2. Cardinality(UpTo(S, i)) \in Nat
  BY UpToType
<1>3. ~(i < j) /\ ~(j < i)
  BY <1>2, UpToGrows
<1> QED
  BY <1>1, <1>3

\* There is an n-th member, and it is the n-th.
LEMMA NthMember ==
    ASSUME NEW S, Positive(S), NEW N \in Nat, \A k \in S : k <= N,
           NEW n \in 1 .. Cardinality(S)
    PROVE  Nth(S, n) \in S /\ Cardinality(UpTo(S, Nth(S, n))) = n
<1> DEFINE enough == {i \in Nat : n <= Cardinality(UpTo(S, i))}
<1>0. Cardinality(S) \in Nat
  BY FS_CardinalityType DEF Positive
<1>1. N \in enough
  <2>1. UpTo(S, N) = S
    BY DEF UpTo
  <2> QED BY <1>0, <2>1
<1>2. PICK m \in enough : \A i \in enough : m <= i
  <2>1. enough \in SUBSET Nat /\ enough # {}
    BY <1>1
  <2> HIDE DEF enough
  <2> QED BY <2>1, LeastNatural
<1>3. m \in Nat /\ n <= Cardinality(UpTo(S, m))
  BY <1>2
<1>4. m # 0
  <2>1. UpTo(S, 0) = {}
    <3>1. \A k \in S : k \in Nat /\ k # 0
      BY DEF Positive
    <3> QED BY <3>1 DEF UpTo
  <2>2. Cardinality(UpTo(S, 0)) = 0
    BY <2>1, FS_EmptySet
  <2> QED BY <1>0, <1>3, <2>2
<1>5. PICK i \in Nat : m = i + 1
  <2>1. m - 1 \in Nat /\ m = (m - 1) + 1
    BY <1>3, <1>4
  <2> QED BY <2>1
<1>6. i \notin enough
  BY <1>2, <1>5
<1>7. Cardinality(UpTo(S, i)) \in Nat /\ Cardinality(UpTo(S, i)) < n
  <2>1. Cardinality(UpTo(S, i)) \in Nat
    BY UpToType
  <2> QED BY <1>0, <1>6, <2>1
<1>8. Cardinality(UpTo(S, m)) = IF m \in S THEN Cardinality(UpTo(S, i)) + 1
                                           ELSE Cardinality(UpTo(S, i))
  BY <1>5, UpToNext
<1>9. m \in S /\ Cardinality(UpTo(S, m)) = n
  <2> HIDE DEF enough
  <2> QED BY <1>0, <1>3, <1>7, <1>8
<1>10. Nth(S, n) = CHOOSE k \in S : Cardinality(UpTo(S, k)) = n
  BY DEF Nth, UpTo
<1> QED
  BY <1>9, <1>10

\* Every member is the n-th of as many as there are up to it.
LEMMA EveryNth ==
    ASSUME NEW S, Positive(S), NEW N \in Nat, \A k \in S : k <= N, NEW i \in S
    PROVE  /\ Cardinality(UpTo(S, i)) \in 1 .. Cardinality(S)
           /\ Nth(S, Cardinality(UpTo(S, i))) = i
<1>1. Cardinality(S) \in Nat /\ i \in Nat
  BY FS_CardinalityType DEF Positive
<1>2. /\ IsFiniteSet(UpTo(S, i)) /\ Cardinality(UpTo(S, i)) \in Nat
  BY UpToType
<1>3. i \in UpTo(S, i) /\ UpTo(S, i) \in SUBSET S
  BY <1>1 DEF UpTo
<1>4. Cardinality(UpTo(S, i)) # 0
  BY <1>2, <1>3, FS_EmptySet
<1>5. Cardinality(UpTo(S, i)) <= Cardinality(S)
  BY <1>3, FS_Subset DEF Positive
<1>6. Cardinality(UpTo(S, i)) \in 1 .. Cardinality(S)
  BY <1>1, <1>2, <1>4, <1>5
<1> DEFINE j == Nth(S, Cardinality(UpTo(S, i)))
<1>7. j \in S /\ Cardinality(UpTo(S, j)) = Cardinality(UpTo(S, i))
  BY <1>6, NthMember
<1>8. i = j
  <2> HIDE DEF j
  <2> QED BY <1>7, UpToSame
<1> QED
  BY <1>6, <1>8

-----------------------------------------------------------------------------
(* Lists of cameras *)

LEMMA FunctionSeq == ASSUME NEW C, NEW n \in Nat, NEW f \in [1 .. n -> C] PROVE f \in Seq(C)
OBVIOUS

\* What is picked is what is at the positions, each once.
LEMMA PickedMembers ==
    ASSUME NEW C, NEW s \in Seq(C), NEW at \in SUBSET DOMAIN s
    PROVE  /\ Picked(s, at) \in Seq(C)
           /\ DOMAIN Picked(s, at) = 1 .. Cardinality(at) /\ Cardinality(at) \in Nat
           /\ \A k \in DOMAIN Picked(s, at) :
                 Nth(at, k) \in at /\ Picked(s, at)[k] = s[Nth(at, k)]
           /\ \A k, m \in DOMAIN Picked(s, at) : Nth(at, k) = Nth(at, m) => k = m
           /\ \A i \in at : \E k \in DOMAIN Picked(s, at) : Nth(at, k) = i
<1>1. Len(s) \in Nat /\ DOMAIN s = 1 .. Len(s)
  OBVIOUS
<1>2. Positive(at) /\ Cardinality(at) \in Nat /\ \A i \in at : i <= Len(s)
  BY <1>1, PositivePositions
<1>3. DOMAIN Picked(s, at) = 1 .. Cardinality(at)
  BY DEF Picked
<1>4. ASSUME NEW k \in 1 .. Cardinality(at)
      PROVE  /\ Nth(at, k) \in at /\ Cardinality(UpTo(at, Nth(at, k))) = k
             /\ Picked(s, at)[k] = s[Nth(at, k)]
  BY <1>1, <1>2, NthMember DEF Picked
<1>5. Picked(s, at) \in Seq(C)
  <2>1. \A k \in 1 .. Cardinality(at) : s[Nth(at, k)] \in C
    BY <1>1, <1>4
  <2>2. Picked(s, at) \in [1 .. Cardinality(at) -> C]
    BY <2>1 DEF Picked
  <2> DEFINE p == Picked(s, at)
             n == Cardinality(at)
  <2>3. n \in Nat /\ p \in [1 .. n -> C]
    BY <1>2, <2>2
  <2> HIDE DEF p, n
  <2>4. p \in Seq(C)
    BY <2>3, FunctionSeq
  <2> QED BY <2>4 DEF p
<1>6. \A i \in at : \E k \in 1 .. Cardinality(at) : Nth(at, k) = i
  BY <1>1, <1>2, EveryNth
<1>7. \A k, m \in 1 .. Cardinality(at) : Nth(at, k) = Nth(at, m) => k = m
  BY <1>4
<1> DEFINE p == Picked(s, at)
<1> HIDE DEF p
<1>8. /\ p \in Seq(C) /\ DOMAIN p = 1 .. Cardinality(at)
      /\ \A k \in 1 .. Cardinality(at) : Nth(at, k) \in at /\ p[k] = s[Nth(at, k)]
  BY <1>3, <1>4, <1>5 DEF p
<1>9. /\ \A k \in DOMAIN p : Nth(at, k) \in at /\ p[k] = s[Nth(at, k)]
      /\ \A k, m \in DOMAIN p : Nth(at, k) = Nth(at, m) => k = m
      /\ \A i \in at : \E k \in DOMAIN p : Nth(at, k) = i
  BY <1>6, <1>7, <1>8
<1> QED
  BY <1>2, <1>8, <1>9 DEF p

\* The members of a list of cameras have addresses of their own.
OwnMAC(cams) == Distinct(cams, LAMBDA cam : CanonicalMAC(cam.mac))

LEMMA OwnMACs ==
    ASSUME NEW cams
    PROVE  OwnMAC(cams) <=> \A i, j \in DOMAIN cams : cams[i].mac.addr = cams[j].mac.addr => i = j
BY DEF OwnMAC, Distinct, CanonicalMAC

\* So the chosen and given addresses of a list differ if those at the positions do.
LEMMA GivenMACs ==
    ASSUME NEW cams \in Seq(Camera)
    PROVE  OwnMAC(WithMAC(cams)) <=>
             \A i, j \in {i \in DOMAIN cams : cams[i].selected /\ cams[i].mac # NoAddress} :
                cams[i].mac.addr = cams[j].mac.addr => i = j
<1> DEFINE at == {i \in DOMAIN cams : cams[i].selected /\ cams[i].mac # NoAddress}
           s == Picked(cams, at)
<1>1. WithMAC(cams) = s
  BY DEF WithMAC
<1>2. /\ \A k \in DOMAIN s : Nth(at, k) \in at /\ s[k] = cams[Nth(at, k)]
      /\ \A k, m \in DOMAIN s : Nth(at, k) = Nth(at, m) => k = m
      /\ \A i \in at : \E k \in DOMAIN s : Nth(at, k) = i
  <2>1. at \in SUBSET DOMAIN cams
    OBVIOUS
  <2> HIDE DEF at
  <2> QED BY <2>1, PickedMembers
<1> HIDE DEF at, s
<1>3. OwnMAC(s) <=> \A i, j \in at : cams[i].mac.addr = cams[j].mac.addr => i = j
  BY <1>2, OwnMACs
<1> QED
  BY <1>1, <1>3 DEF at

LEMMA AddressedOwnMAC ==
    ASSUME NEW cams \in Seq(Camera), Addressed(cams)
    PROVE  OwnMAC(WithMAC(cams))
<1>1. \A i, j \in DOMAIN cams : cams[i].mac.addr = cams[j].mac.addr => i = j
  BY DEF Addressed, Distinct, CanonicalMAC
<1> QED
  BY <1>1, GivenMACs

\* An address is given to a camera that another one has not got.
LEMMA FreeMACIsFree ==
    ASSUME NEW cams \in Seq(Camera), UsedMACs(cams) \in SUBSET (1 .. MaxMAC),
           NEW n \in 1 .. Len(cams)
    PROVE  /\ FreeMAC(cams, n) \in Nat \ {0} /\ FreeMAC(cams, n) \notin UsedMACs(cams)
           /\ Cardinality(UpTo(FreeMACs(cams), FreeMAC(cams, n))) = n
<1> DEFINE N == MaxMAC + Len(cams)
           U == UsedMACs(cams)
           F == FreeMACs(cams)
<1>1. Len(cams) \in Nat /\ MaxMAC \in Nat /\ N \in Nat
  BY MaxMACAssumption
<1>2. F = (1 .. N) \ U /\ U \in SUBSET (1 .. MaxMAC)
  BY DEF FreeMACs
<1> HIDE DEF F, U
<1>3. /\ IsFiniteSet(1 .. N) /\ Cardinality(1 .. N) = N
  BY <1>1, FS_Interval
<1>5. /\ Cardinality((1 .. N) \cap U) \in Nat /\ Cardinality((1 .. N) \cap U) <= MaxMAC
  <2>1. (1 .. N) \cap U \in SUBSET (1 .. MaxMAC)
    BY <1>2
  <2> QED BY <1>1, <2>1, PositivePositions
<1>6. Cardinality(F) = N - Cardinality((1 .. N) \cap U)
  BY <1>2, <1>3, FS_Difference
<1>7. n \in 1 .. Cardinality(F)
  BY <1>1, <1>5, <1>6
<1>8. F \in SUBSET (1 .. N)
  BY <1>2
<1>9. Positive(F)
  BY <1>1, <1>8, PositivePositions
<1>10. \A k \in F : k <= N
  BY <1>1, <1>8
<1>11. Nth(F, n) \in F /\ Cardinality(UpTo(F, Nth(F, n))) = n
  BY <1>1, <1>7, <1>9, <1>10, NthMember
<1>12. FreeMAC(cams, n) = Nth(F, n)
  BY DEF FreeMAC, F
<1> QED
  BY <1>2, <1>9, <1>11, <1>12 DEF Positive, F, U

\* The cameras step gives each camera an address of its own.
LEMMA FinalizedOwnMAC ==
    ASSUME NEW cams \in Seq(Camera), Finalizable(cams)
    PROVE  Finalized(cams) \in Seq(Camera) /\ OwnMAC(WithMAC(Finalized(cams)))
<1> DEFINE given == {i \in DOMAIN cams : cams[i].selected /\ cams[i].mac # NoAddress}
           needy == {i \in DOMAIN cams : cams[i].selected /\ cams[i].mac = NoAddress}
           Rank(i) == Cardinality(UpTo(needy, i))
           Free(i) == FreeMAC(cams, Rank(i))
           fin == Finalized(cams)
<1>1. Len(cams) \in Nat /\ DOMAIN cams = 1 .. Len(cams)
  OBVIOUS
<1>2. \A i \in DOMAIN cams : Needy(cams, i) = UpTo(needy, i)
  BY <1>1 DEF Needy, UpTo
<1>3. Needy(cams, Len(cams)) = needy
  BY <1>1 DEF Needy
<1>4. Positive(needy) /\ Cardinality(needy) \in Nat /\ Cardinality(needy) <= Len(cams)
  <2>1. needy \in SUBSET (1 .. Len(cams))
    BY <1>1
  <2> QED BY <1>1, <2>1, PositivePositions
<1>5. \A i \in needy : i <= Len(cams)
  BY <1>1
<1>6. fin = [i \in DOMAIN cams |->
               IF i \in needy THEN [cams[i] EXCEPT !.mac = FormatMAC(Free(i))]
                              ELSE cams[i]]
  BY <1>2, <1>3 DEF Finalized
<1>7. UsedMACs(cams) = {cams[i].mac.addr : i \in given}
  <2> DEFINE s == WithMAC(cams)
  <2>1. given \in SUBSET DOMAIN cams /\ s = Picked(cams, given)
    BY DEF WithMAC
  <2>2. /\ \A k \in DOMAIN s : Nth(given, k) \in given /\ s[k] = cams[Nth(given, k)]
        /\ \A i \in given : \E k \in DOMAIN s : Nth(given, k) = i
    <3> HIDE DEF given, s
    <3> QED BY <2>1, PickedMembers
  <2>3. UsedMACs(cams) = {s[k].mac.addr : k \in DOMAIN s}
    BY DEF UsedMACs, CanonicalMAC, Range
  <2> HIDE DEF given, s
  <2> QED BY <2>2, <2>3
<1>8. UsedMACs(cams) \in SUBSET (1 .. MaxMAC)
  BY DEF Finalizable, UsedMACs, IsMAC, CanonicalMAC
<1>9. \A i \in needy : Rank(i) \in 1 .. Len(cams)
  <2> HIDE DEF needy
  <2>1. \A i \in needy : Rank(i) \in 1 .. Cardinality(needy)
    BY <1>1, <1>4, <1>5, EveryNth
  <2> QED BY <1>1, <1>4, <2>1
<1>10. \A i \in needy : /\ Free(i) \in Nat \ {0} /\ Free(i) \notin UsedMACs(cams)
                        /\ Cardinality(UpTo(FreeMACs(cams), Free(i))) = Rank(i)
  <2> HIDE DEF needy
  <2> QED BY <1>8, <1>9, FreeMACIsFree
<1>11. \A i, j \in needy : Free(i) = Free(j) => i = j
  <2> HIDE DEF needy
  <2>1. \A i, j \in needy : Rank(i) = Rank(j) => i = j
    BY <1>4, UpToSame
  <2> QED BY <1>10, <2>1
<1>12. \A i, j \in given : cams[i].mac.addr = cams[j].mac.addr => i = j
  <2>1. OwnMAC(WithMAC(cams))
    BY DEF Finalizable, OwnMAC
  <2> QED BY <2>1, GivenMACs
<1>13. \A i \in DOMAIN cams : cams[i] \in Camera
  BY <1>1
<1>14. \A i \in needy : FormatMAC(Free(i)) \in Address
  <2>1. \A n \in Nat : FormatMAC(n) \in Address
    BY DEF FormatMAC, Address
  <2> HIDE DEF Free, needy
  <2> QED BY <1>10, <2>1
<1> HIDE DEF Free, Rank
<1>15. \A i \in DOMAIN cams :
          IF i \in needy
          THEN fin[i] \in Camera /\ fin[i].mac = FormatMAC(Free(i)) /\ i \notin given
          ELSE fin[i] = cams[i]
  <2> HIDE DEF fin
  <2>1. \A i \in DOMAIN cams : i \in needy =>
           fin[i] = [cams[i] EXCEPT !.mac = FormatMAC(Free(i))] /\ i \notin given
    <3>1. \A i \in needy : i \notin given
      OBVIOUS
    <3> DEFINE new(i) == [cams[i] EXCEPT !.mac = FormatMAC(Free(i))]
    <3>2. fin = [i \in DOMAIN cams |-> IF i \in needy THEN new(i) ELSE cams[i]]
      BY <1>6
    <3>3. \A i \in DOMAIN cams : i \in needy => fin[i] = new(i)
      <4> HIDE DEF new, needy
      <4> QED BY <3>2
    <3> QED BY <3>1, <3>3
  <2>2. \A i \in DOMAIN cams : i \notin needy => fin[i] = cams[i]
    BY <1>6
  <2>3. \A cam \in Camera, mac \in Address :
           [cam EXCEPT !.mac = mac] \in Camera /\ [cam EXCEPT !.mac = mac].mac = mac
    BY DEF Camera
  <2> HIDE DEF needy, given
  <2>4. ASSUME NEW i \in DOMAIN cams, i \in needy
        PROVE  fin[i] \in Camera /\ fin[i].mac = FormatMAC(Free(i)) /\ i \notin given
    <3>1. PICK cam \in Camera : cam = cams[i]
      BY <1>13
    <3>2. PICK mac \in Address : mac = FormatMAC(Free(i))
      BY <1>14, <2>4
    <3>3. fin[i] = [cam EXCEPT !.mac = mac] /\ i \notin given
      BY <2>1, <2>4, <3>1, <3>2
    <3> QED BY <2>3, <3>2, <3>3
  <2> QED BY <2>2, <2>4
<1>16. DOMAIN fin = 1 .. Len(cams)
  BY <1>1, <1>6
<1>17. fin \in Seq(Camera)
  <2>1. fin \in [1 .. Len(cams) -> Camera]
    <3>1. \A i \in 1 .. Len(cams) : fin[i] \in Camera
      BY <1>1, <1>13, <1>15
    <3>2. fin = [i \in 1 .. Len(cams) |-> fin[i]]
      <4>1. fin = [i \in DOMAIN fin |-> fin[i]]
        BY DEF Finalized
      <4> HIDE DEF fin
      <4> QED BY <1>16, <4>1
    <3> HIDE DEF fin
    <3> QED BY <3>1, <3>2
  <2> HIDE DEF fin
  <2> QED BY <1>1, <2>1, FunctionSeq
<1>18. ASSUME NEW i \in {k \in DOMAIN fin : fin[k].selected /\ fin[k].mac # NoAddress},
              NEW j \in {k \in DOMAIN fin : fin[k].selected /\ fin[k].mac # NoAddress},
              fin[i].mac.addr = fin[j].mac.addr
       PROVE  i = j
  <2>1. \A k \in needy : fin[k].mac.addr = Free(k)
    <3>1. \A n : FormatMAC(n).addr = n
      BY DEF FormatMAC
    <3>2. \A k \in needy : fin[k].mac = FormatMAC(Free(k))
      BY <1>15
    <3> HIDE DEF needy, fin
    <3> QED BY <3>1, <3>2
  <2>2. \A k \in DOMAIN fin \ needy :
           fin[k].selected /\ fin[k].mac # NoAddress =>
              k \in given /\ fin[k].mac.addr = cams[k].mac.addr
    BY <1>1, <1>15, <1>16
  <2>3. (i \in needy \/ i \in given) /\ (j \in needy \/ j \in given)
    BY <2>2
  <2>4. \A k \in given : k \notin needy /\ cams[k].mac.addr \in UsedMACs(cams)
    BY <1>7
  <2>5. /\ i \in given => fin[i].mac.addr = cams[i].mac.addr
        /\ j \in given => fin[j].mac.addr = cams[j].mac.addr
    BY <2>2, <2>4
  <2> HIDE DEF given, needy, fin
  <2> QED BY <1>10, <1>11, <1>12, <1>18, <2>1, <2>3, <2>4, <2>5
<1>19. OwnMAC(WithMAC(fin))
  <2> HIDE DEF fin
  <2> QED BY <1>17, <1>18, GivenMACs
<1> QED
  BY <1>17, <1>19

\* The cameras that are selected.
LEMMA SelectedCameras ==
    ASSUME NEW cams \in Seq(Camera)
    PROVE  /\ Selected(cams) \in Seq(Camera)
           /\ AnyEvents(Selected(cams)) <=> AnyEvents(cams)
<1> DEFINE at == {i \in DOMAIN cams : cams[i].selected}
           s == Selected(cams)
<1>1. at \in SUBSET DOMAIN cams /\ s = Picked(cams, at)
  BY DEF Selected
<1>2. /\ s \in Seq(Camera)
      /\ \A k \in DOMAIN s : Nth(at, k) \in at /\ s[k] = cams[Nth(at, k)]
      /\ \A i \in at : \E k \in DOMAIN s : Nth(at, k) = i
  <2> HIDE DEF at, s
  <2> QED BY <1>1, PickedMembers
<1>3. AnyEvents(s) <=> \E k \in DOMAIN s : s[k].selected /\ s[k].events
  BY DEF AnyEvents, Range
<1>4. AnyEvents(cams) <=> \E i \in DOMAIN cams : cams[i].selected /\ cams[i].events
  BY DEF AnyEvents, Range
<1>5. \A i : i \in at <=> i \in DOMAIN cams /\ cams[i].selected
  OBVIOUS
<1> HIDE DEF at, s
<1> QED
  BY <1>2, <1>3, <1>4, <1>5 DEF s

\* What Draft.validate asks of a Google section.
Complete(google) == Named(google) /\ google.rest = "valid"

\* What is asked of a configuration that is deployed.
Sound(cfg) == Complete(cfg.google) /\ cfg.cams # <<>> /\ Addressed(cfg.cams)

\* What the wizard writes of a valid draft is that.
LEMMA ToFileSound ==
    ASSUME NEW d \in Draft, ValidDraft(d)
    PROVE  /\ ToFile(d) \in ConfigFile /\ Sound(ToFile(d))
           /\ AnyEvents(ToFile(d).cams) <=> AnyEvents(d.cams)
<1> DEFINE sel == Selected(d.cams)
           Written1(cam) == [cam EXCEPT !.linger = CASE ~cam.events -> "none"
                                                     [] @ = "none"  -> "60s"
                                                     [] OTHER       -> @]
           f == ToFile(d)
           cams == f.cams
<1>1. d.cams \in Seq(Camera) /\ d.google \in Credentials /\ d.sub \in Subs \cup {NoSub}
  BY DEF Draft
<1>2. sel \in Seq(Camera) /\ (AnyEvents(sel) <=> AnyEvents(d.cams))
  BY <1>1, SelectedCameras
<1>3. Complete(d.google) /\ sel # <<>> /\ Addressed(sel)
  BY DEF ValidDraft, Complete
<1>4. /\ f = [google |-> d.google, sub |-> d.sub, onvif |-> AnyEvents(d.cams),
              cams |-> [i \in DOMAIN sel |-> Written1(sel[i])]]
  BY DEF ToFile
<1>5. cams = [i \in DOMAIN sel |-> Written1(sel[i])]
  BY <1>4
<1>6. \A cam \in Camera :
         /\ Written1(cam) \in Camera
         /\ Written1(cam).mac = cam.mac /\ Written1(cam).ip = cam.ip
         /\ Written1(cam).selected = cam.selected /\ Written1(cam).events = cam.events
  BY DEF Camera
<1> HIDE DEF sel, Written1, cams, f
<1>7. \A i \in DOMAIN sel : sel[i] \in Camera
  BY <1>2
<1>8. \A i \in DOMAIN sel :
         /\ cams[i] \in Camera
         /\ cams[i].mac = sel[i].mac /\ cams[i].ip = sel[i].ip
         /\ cams[i].selected = sel[i].selected /\ cams[i].events = sel[i].events
  BY <1>5, <1>6, <1>7
<1>9. Len(sel) \in Nat /\ DOMAIN sel = 1 .. Len(sel) /\ DOMAIN cams = 1 .. Len(sel)
  BY <1>2, <1>5
<1>10. cams \in Seq(Camera)
  <2>1. cams \in [1 .. Len(sel) -> Camera]
    BY <1>5, <1>8, <1>9
  <2> QED BY <1>9, <2>1, FunctionSeq
<1>11. cams # <<>>
  <2>1. Len(sel) # 0
    BY <1>2, <1>3
  <2> QED BY <1>9, <2>1
<1>12. Addressed(cams)
  <2>1. /\ \A i \in DOMAIN sel : IsMAC(sel[i].mac) /\ IsIP(sel[i].ip)
        /\ \A i, j \in DOMAIN sel : sel[i].mac.addr = sel[j].mac.addr => i = j
        /\ \A i, j \in DOMAIN sel : sel[i].ip = sel[j].ip => i = j
    BY <1>3 DEF Addressed, Distinct, CanonicalMAC, Range
  <2>2. /\ \A i \in DOMAIN cams : IsMAC(cams[i].mac) /\ IsIP(cams[i].ip)
        /\ \A i, j \in DOMAIN cams : cams[i].mac.addr = cams[j].mac.addr => i = j
        /\ \A i, j \in DOMAIN cams : cams[i].ip = cams[j].ip => i = j
    BY <1>8, <1>9, <2>1
  <2> QED BY <2>2 DEF Addressed, Distinct, CanonicalMAC, Range
<1>13. AnyEvents(cams) <=> AnyEvents(sel)
  <2>1. AnyEvents(sel) <=> \E i \in DOMAIN sel : sel[i].selected /\ sel[i].events
    BY DEF AnyEvents, Range
  <2>2. AnyEvents(cams) <=> \E i \in DOMAIN cams : cams[i].selected /\ cams[i].events
    BY DEF AnyEvents, Range
  <2> QED BY <1>8, <1>9, <2>1, <2>2
<1>14. AnyEvents(d.cams) \in BOOLEAN
  BY DEF AnyEvents
<1>15. f.cams = cams /\ f.google = d.google
  BY <1>4 DEF cams
<1>16. f \in ConfigFile
  <2>1. f = [google |-> d.google, sub |-> d.sub, onvif |-> AnyEvents(d.cams),
             cams |-> cams]
    BY <1>4, <1>5
  <2> QED BY <1>1, <1>10, <1>14, <2>1 DEF ConfigFile
<1>17. Sound(f)
  BY <1>3, <1>11, <1>12, <1>15 DEF Sound
<1> QED
  BY <1>2, <1>13, <1>15, <1>16, <1>17 DEF f

-----------------------------------------------------------------------------
(* The compose file *)

\* The least of a set of numbers.
LEMMA MinLeast ==
    ASSUME NEW S \in SUBSET Nat, S # {}
    PROVE  Min(S) \in S
<1>1. \E n \in S : \A m \in S : n <= m
  BY LeastNatural
<1>2. Min(S) = CHOOSE n \in S : \A m \in S : n <= m
  BY DEF Min
<1> QED
  BY <1>1, <1>2

\* A list that has the host gets the loopback binding, and keeps the host.
LEMMA RepairedBindings ==
    ASSUME NEW T, Loopback \in T, NEW binds \in Seq(T), NEW host \in Range(binds)
    PROVE  /\ Repaired(binds, host) \in Seq(T)
           /\ {Loopback, host} \subseteq Range(Repaired(binds, host))
<1> DEFINE at == Positions(binds, host)
           res == Repaired(binds, host)
<1>1. Len(binds) \in Nat /\ DOMAIN binds = 1 .. Len(binds)
  OBVIOUS
<1>2. at \in SUBSET (1 .. Len(binds)) /\ at \in SUBSET Nat /\ at # {}
  BY <1>1 DEF Positions, Range
<1>3. Positive(at)
  BY <1>1, <1>2, PositivePositions
<1>4. Min(at) \in at
  BY <1>2, MinLeast
<1>5. CASE Loopback \in Range(binds)
  BY <1>5 DEF Repaired
<1>6. CASE Loopback \notin Range(binds) /\ Cardinality(at) = 1
  <2> DEFINE m == Min(at)
  <2>1. res = InsertAt(binds, m + 1, Loopback)
    BY <1>2, <1>6 DEF Repaired
  <2>2. res = SubSeq(binds, 1, m) \o <<Loopback>> \o SubSeq(binds, m + 1, Len(binds))
    <3>1. (m + 1) - 1 = m
      BY <1>2, <1>4
    <3> QED BY <2>1, <3>1 DEF InsertAt
  <2>3. m \in 1 .. Len(binds) /\ binds[m] = host
    BY <1>1, <1>2, <1>4 DEF Positions
  <2> HIDE DEF res, at, m
  <2> DEFINE a == SubSeq(binds, 1, m)
             b == SubSeq(binds, m + 1, Len(binds))
             c == a \o <<Loopback>>
  <2>4. a \in Seq(T) /\ Len(a) = m /\ a[m] = host
    BY <1>1, <2>3
  <2>5. b \in Seq(T)
    BY <1>1, <2>3
  <2> HIDE DEF a, b
  <2>6. c \in Seq(T) /\ Len(c) = m + 1 /\ c[m] = host /\ c[m + 1] = Loopback
    BY <2>3, <2>4
  <2> HIDE DEF c
  <2>7. /\ res = c \o b
    BY <2>2 DEF a, b, c
  <2>8. res \in Seq(T) /\ Len(res) >= m + 1
    BY <2>3, <2>5, <2>6, <2>7
  <2>9. res[m] = host /\ res[m + 1] = Loopback
    BY <2>3, <2>5, <2>6, <2>7
  <2>10. {m, m + 1} \subseteq DOMAIN res
    BY <2>3, <2>8
  <2> QED BY <2>8, <2>9, <2>10 DEF Range, res
<1>7. CASE Loopback \notin Range(binds) /\ Cardinality(at) # 1
  <2> DEFINE m == Min(at)
             rest == at \ {m}
             k == Min(rest)
  <2>1. rest # {}
    <3>1. ASSUME rest = {} PROVE FALSE
      <4>1. at = {m}
        BY <1>4, <3>1
      <4> QED BY <1>7, <4>1, FS_Singleton
    <3> QED BY <3>1
  <2>2. k \in rest
    BY <1>2, <2>1, MinLeast
  <2>3. res = [binds EXCEPT ![k] = Loopback]
    BY <1>2, <1>7 DEF Repaired
  <2>4. m \in 1 .. Len(binds) /\ k \in 1 .. Len(binds) /\ m # k /\ binds[m] = host
    BY <1>1, <1>2, <1>4, <2>2 DEF Positions
  <2> HIDE DEF res, at, m, k
  <2>5. res \in Seq(T) /\ DOMAIN res = 1 .. Len(binds)
    BY <1>1, <2>3, <2>4
  <2>6. res[m] = host /\ res[k] = Loopback
    BY <1>1, <2>3, <2>4
  <2> QED BY <2>4, <2>5, <2>6 DEF Range, res
<1> QED
  BY <1>5, <1>6, <1>7

\* A file that binds the host or the placeholder can be patched, and has the
\* host then; one that does not cannot.
LEMMA PatchedBindings ==
    ASSUME NEW T, Loopback \in T, NEW binds \in Seq(T), NEW host \in T
    PROVE  /\ Patchable(binds, host) <=> {Placeholder, host} \cap Range(binds) # {}
           /\ Patchable(binds, host) =>
                 Patched(binds, host) \in Seq(T) /\ host \in Range(Patched(binds, host))
<1> DEFINE rep == Replaced(binds, host)
<1>1. Len(binds) \in Nat /\ DOMAIN binds = 1 .. Len(binds)
  OBVIOUS
<1>2. rep \in Seq(T) /\ DOMAIN rep = DOMAIN binds
  <2>1. rep \in [1 .. Len(binds) -> T]
    BY <1>1 DEF Replaced
  <2>2. DOMAIN rep = DOMAIN binds
    BY DEF Replaced
  <2> HIDE DEF rep
  <2> QED BY <1>1, <2>1, <2>2, FunctionSeq
<1>3. ASSUME {Placeholder, host} \cap Range(binds) # {} PROVE host \in Range(rep)
  <2>1. PICK i \in DOMAIN binds : binds[i] = Placeholder \/ binds[i] = host
    BY <1>3 DEF Range
  <2>2. rep[i] = host
    BY <2>1 DEF Replaced
  <2> QED BY <1>2, <2>1, <2>2 DEF Range
<1>4. ASSUME {Placeholder, host} \cap Range(binds) # {}
      PROVE  /\ Repaired(rep, host) \in Seq(T)
             /\ Loopback \in Range(Repaired(rep, host))
             /\ host \in Range(Repaired(rep, host))
  <2>1. host \in Range(rep)
    BY <1>3, <1>4
  <2> HIDE DEF rep
  <2>2. /\ Repaired(rep, host) \in Seq(T)
        /\ {Loopback, host} \subseteq Range(Repaired(rep, host))
    BY <1>2, <2>1, RepairedBindings
  <2> QED BY <2>2
<1> QED
  BY <1>4 DEF Patchable, Patched

-----------------------------------------------------------------------------
(* Types *)

JobLabels == {"save", "deploy", "onvif", "mediamtx", "compose", "config",
              "key", "up", "done", "failed"}

\* A save or a deployment, with what it took along.
Job ==
    [pc : JobLabels, at : JobLabels \cup {""}, cfg : ConfigFile,
     host : Hosts \cup {NoHost}, onvif : BOOLEAN, key : Uploads \cup {NoKey},
     settled : BOOLEAN, alone : BOOLEAN]

BoundInv ==
    /\ offered \in Scenarios /\ left \in 0 .. offered.requests
    /\ root \in BOOLEAN

RequestInv ==
    /\ DOMAIN request = Requests
    /\ \A r \in Requests :
          request[r].pc \in {"idle", "persist"} \/ request[r] \in Job

\* One request at a time writes config.yaml, and holds mu.
MuInv ==
    /\ mu \subseteq Requests
    /\ \A r \in Requests : request[r].pc \in {"save", "deploy"} <=> r \in mu
    /\ \A q, r \in mu : q = r

\* The draft, whose cameras have addresses of their own; and its key.
DraftOK(d) ==
    /\ d \in Draft /\ OwnMAC(WithMAC(d.cams))
    /\ d.key # NoKey => d.hasKey

DraftInv == DraftOK(draft)

ConfigInv ==
    /\ config \in ConfigFile \cup {Absent, Empty}
    /\ config \in ConfigFile => config.cams # <<>> /\ Addressed(config.cams)

DraftFileOK(df) ==
    /\ df \in DraftFile \cup {Absent, Empty}
    /\ df \in DraftFile => OwnMAC(WithMAC(df.cams))

KeyFiles == Uploads \cup {Absent, Empty}

FileInv ==
    /\ DraftFileOK(draftFile)
    /\ keyFile \in KeyFiles
    /\ keyCut \in BOOLEAN
    /\ deployEnv \in Hosts \cup {Absent, Empty}
    /\ deployedKey \in KeyFiles

\* A save or a deployment is of a sound configuration, and is beyond its first
\* step only with a host address.
JobInv ==
    \A r \in Requests : request[r] \in Job =>
        /\ Sound(request[r].cfg)
        /\ request[r].pc \notin {"save", "deploy"} => request[r].host # NoHost

\* A callback under way is one of an authorisation.
AuthInv ==
    AuthTypeOK /\ \A c \in Callbacks : callback[c].pc # "idle" => callback[c].auth # 0

TypeInv ==
    /\ BoundInv /\ RequestInv /\ MuInv /\ DraftInv /\ ConfigInv /\ FileInv /\ JobInv
    /\ AuthInv

\* A file with contents is neither missing nor cut off.
LEMMA WholeFiles ==
    /\ \A file \in ConfigFile \cup {Absent, Empty} : Whole(file) <=> file \in ConfigFile
    /\ \A file \in DraftFile \cup {Absent, Empty} : Whole(file) <=> file \in DraftFile
    /\ \A file \in Hosts \cup {Absent, Empty} : Whole(file) <=> file \in Hosts
    /\ \A file \in KeyFiles : Whole(file) <=> file \in Uploads
BY FilesAssumption DEF Whole, KeyFiles

-----------------------------------------------------------------------------
(* What the steps do *)

\* The other requests are where they were.
Alone(r) ==
    /\ DOMAIN request' = Requests
    /\ \A q \in Requests \ {r} : request'[q] = request[q]

\* A job goes to another label and keeps what it took along.
Moved(r, label) ==
    /\ request'[r] \in Job /\ request'[r].pc = label
    /\ request'[r].cfg = request[r].cfg /\ request'[r].host = request[r].host
    /\ request'[r].onvif = request[r].onvif /\ request'[r].key = request[r].key
    /\ request'[r].settled = request[r].settled
    /\ request'[r].alone = request[r].alone

LEMMA JobMoves ==
    ASSUME NEW job \in Job, NEW label \in JobLabels
    PROVE  LET new == [job EXCEPT !.pc = label]
           IN  /\ new \in Job /\ new.pc = label /\ new.at = job.at
               /\ new.cfg = job.cfg /\ new.host = job.host /\ new.onvif = job.onvif
               /\ new.key = job.key /\ new.settled = job.settled
               /\ new.alone = job.alone
BY DEF Job

LEMMA JobFails ==
    ASSUME NEW job \in Job
    PROVE  LET new == [job EXCEPT !.pc = "failed", !.at = job.pc]
           IN  /\ new \in Job /\ new.pc = "failed" /\ new.at = job.pc
               /\ new.cfg = job.cfg /\ new.host = job.host /\ new.onvif = job.onvif
               /\ new.key = job.key /\ new.settled = job.settled
               /\ new.alone = job.alone
BY DEF Job, JobLabels

LEMMA ProceedMoves ==
    ASSUME RequestInv, NEW r \in Requests, request[r] \in Job,
           NEW label \in JobLabels, NEW ok, Proceed(r, label, ok)
    PROVE  /\ Alone(r)
           /\ ok => Moved(r, label) /\ request'[r].at = request[r].at
           /\ ~ok => Moved(r, "failed") /\ request'[r].at = request[r].pc
<1>1. Alone(r)
  BY DEF Proceed, RequestInv, Alone
<1> PICK job \in Job : job = request[r]
  OBVIOUS
<1> DEFINE moved == [job EXCEPT !.pc = label]
           failed == [job EXCEPT !.pc = "failed", !.at = job.pc]
<1>2. /\ moved \in Job /\ moved.pc = label /\ moved.at = job.at
      /\ moved.cfg = job.cfg /\ moved.host = job.host /\ moved.onvif = job.onvif
      /\ moved.key = job.key /\ moved.settled = job.settled
      /\ moved.alone = job.alone
  BY JobMoves
<1>3. /\ failed \in Job /\ failed.pc = "failed" /\ failed.at = job.pc
      /\ failed.cfg = job.cfg /\ failed.host = job.host /\ failed.onvif = job.onvif
      /\ failed.key = job.key /\ failed.settled = job.settled
      /\ failed.alone = job.alone
  BY JobFails
<1>4. /\ ok => request'[r] = moved
      /\ ~ok => request'[r] = failed
  BY DEF Proceed, RequestInv
<1> HIDE DEF moved, failed
<1>5. ok => Moved(r, label) /\ request'[r].at = request[r].at
  BY <1>2, <1>4 DEF Moved
<1>6. ~ok => Moved(r, "failed") /\ request'[r].at = request[r].pc
  BY <1>3, <1>4 DEF Moved
<1> QED
  BY <1>1, <1>5, <1>6

\* A step of a deployment.
DeployMove(r) ==
    GenerateOnvif(r) \/ GenerateMediamtx(r) \/ PatchCompose(r)
       \/ InstallConfig(r) \/ InstallKey(r) \/ BringUp(r)

LEMMA DeployMoves ==
    ASSUME RequestInv, NEW r \in Requests, DeployMove(r)
    PROVE  /\ Alone(r) /\ request[r] \in Job
           /\ request[r].pc \notin {"save", "deploy", "done", "failed"}
           /\ \E label \in JobLabels \ {"save", "deploy", "onvif"} : Moved(r, label)
           /\ UNCHANGED <<boundVars, mu, draft, touched, config, draftVars, deployEnv,
                          keyCut, authVars>>
<1>0. PICK label \in JobLabels \ {"save", "deploy", "onvif"} :
          \E ok : Proceed(r, label, ok)
  BY DEF DeployMove, GenerateOnvif, GenerateMediamtx, PatchCompose, InstallConfig,
         InstallKey, BringUp, JobLabels
<1>1. PICK ok : Proceed(r, label, ok)
  BY <1>0
<1>2. request[r].pc \in {"onvif", "mediamtx", "compose", "config", "key", "up"}
  BY DEF DeployMove, GenerateOnvif, GenerateMediamtx, PatchCompose, InstallConfig,
         InstallKey, BringUp
<1>3. request[r] \in Job
  BY <1>2 DEF RequestInv
<1>4. Alone(r) /\ (Moved(r, label) \/ Moved(r, "failed"))
  BY <1>1, <1>3, ProceedMoves
<1> QED
  BY <1>1, <1>2, <1>3, <1>4 DEF Proceed, JobLabels

\* Another request is the job it was, but not alone any more.
Joined(q) ==
    /\ request'[q] \in Job /\ request'[q].pc = request[q].pc
    /\ request'[q].at = request[q].at
    /\ request'[q].cfg = request[q].cfg /\ request'[q].host = request[q].host
    /\ request'[q].onvif = request[q].onvif /\ request'[q].key = request[q].key
    /\ request'[q].settled = request[q].settled
    /\ request'[q].alone = FALSE

LEMMA JobJoined ==
    ASSUME NEW job \in Job
    PROVE  LET new == [job EXCEPT !.alone = FALSE]
           IN  /\ new \in Job /\ new.pc = job.pc /\ new.at = job.at
               /\ new.cfg = job.cfg /\ new.host = job.host /\ new.onvif = job.onvif
               /\ new.key = job.key /\ new.settled = job.settled
               /\ new.alone = FALSE
BY DEF Job

\* A job begins; the deployments under way are no longer alone.
LEMMA WriteMoves ==
    ASSUME RequestInv, DraftInv, NEW r \in Requests,
           NEW label \in {"save", "deploy"}, Write(r, label)
    PROVE  /\ request'[r] \in Job /\ request'[r].pc = label
           /\ request'[r].cfg = ToFile(draft) /\ request'[r].host = draft.host
           /\ request'[r].onvif = draft.onvif /\ request'[r].key = draft.key
           /\ request'[r].settled = (draft.onvif = AnyEvents(draft.cams))
           /\ request'[r].alone => \A q \in Requests \ {r} : ~Deploying(q)
           /\ DOMAIN request' = Requests
           /\ \A q \in Requests \ {r} :
                 IF Deploying(q) THEN Joined(q) ELSE request'[q] = request[q]
           /\ Sound(ToFile(draft))
           /\ AnyEvents(ToFile(draft).cams) <=> AnyEvents(draft.cams)
<1> DEFINE busy == \E q \in Requests \ {r} : Deploying(q)
           settled == draft.onvif = AnyEvents(draft.cams)
           new == [pc |-> label, at |-> "", cfg |-> ToFile(draft), host |-> draft.host,
                   onvif |-> draft.onvif, key |-> draft.key, settled |-> settled,
                   alone |-> ~busy]
<1>1. /\ draft \in Draft /\ ValidDraft(draft)
  BY DEF Write, DraftInv, DraftOK
<1>2. /\ ToFile(draft) \in ConfigFile /\ Sound(ToFile(draft))
      /\ AnyEvents(ToFile(draft).cams) <=> AnyEvents(draft.cams)
  BY <1>1, ToFileSound
<1>3. new \in Job
  <2>1. /\ draft.host \in Hosts \cup {NoHost} /\ draft.onvif \in BOOLEAN
        /\ draft.key \in Uploads \cup {NoKey}
    BY <1>1 DEF Draft
  <2>2. settled \in BOOLEAN /\ (~busy) \in BOOLEAN
    OBVIOUS
  <2> HIDE DEF settled, busy
  <2> QED BY <1>2, <2>1, <2>2 DEF Job, JobLabels
<1>4. request' = [Overlapped(r) EXCEPT ![r] = new]
  BY DEF Write
<1>5. DOMAIN Overlapped(r) = Requests
  BY DEF Overlapped
<1>6. DOMAIN request' = Requests /\ request'[r] = new
  <2> HIDE DEF new
  <2> QED BY <1>4, <1>5
<1>7. ASSUME NEW q \in Requests \ {r}
      PROVE  IF Deploying(q) THEN Joined(q) ELSE request'[q] = request[q]
  <2>1. request'[q] = IF Deploying(q) THEN [request[q] EXCEPT !.alone = FALSE]
                                      ELSE request[q]
    <3>1. request'[q] = Overlapped(r)[q]
      <4> HIDE DEF new
      <4> QED BY <1>4, <1>5
    <3> QED BY <3>1 DEF Overlapped
  <2>2. CASE Deploying(q)
    <3>1. PICK job \in Job : job = request[q]
      BY <2>2 DEF Deploying, RequestInv
    <3>2. request'[q] = [job EXCEPT !.alone = FALSE]
      BY <2>1, <2>2, <3>1
    <3> QED BY <2>2, <3>1, <3>2, JobJoined DEF Joined
  <2> QED BY <2>1, <2>2
<1>8. /\ new.pc = label /\ new.cfg = ToFile(draft) /\ new.host = draft.host
      /\ new.onvif = draft.onvif /\ new.key = draft.key /\ new.settled = settled
      /\ new.alone = ~busy
  <2> HIDE DEF settled, busy
  <2> QED OBVIOUS
<1>9. (~busy) => \A q \in Requests \ {r} : ~Deploying(q)
  OBVIOUS
<1> HIDE DEF new, busy
<1> QED
  BY <1>2, <1>3, <1>6, <1>7, <1>8, <1>9

\* config.yaml is written; the job goes on or is done.
LEMMA WrittenMoves ==
    ASSUME RequestInv, NEW r \in Requests, Written(r)
    PROVE  /\ Alone(r) /\ request[r] \in Job
           /\ \/ request'[r] = Idle
              \/ /\ Moved(r, "onvif") /\ request[r].host # NoHost
                 /\ request[r].pc = "deploy"
<1>1. request[r] \in Job
  BY DEF Written, RequestInv
<1>2. Alone(r)
  BY DEF Written, RequestInv, Alone, Goto
<1>3. CASE request' = [request EXCEPT ![r] = Idle]
  <2>1. request'[r] = Idle
    BY <1>3 DEF RequestInv
  <2> QED BY <1>1, <1>2, <2>1
<1>4. CASE /\ request[r].pc = "deploy" /\ request[r].host # NoHost
           /\ Goto(r, "onvif")
  <2>1. PICK job \in Job : job = request[r]
    BY <1>1
  <2>2. request'[r] = [job EXCEPT !.pc = "onvif"]
    BY <1>4, <2>1 DEF Goto, RequestInv
  <2>3. "onvif" \in JobLabels
    BY DEF JobLabels
  <2>4. Moved(r, "onvif")
    BY <2>1, <2>2, <2>3, JobMoves DEF Moved
  <2> QED BY <1>1, <1>2, <1>4, <2>4
<1> QED
  BY <1>3, <1>4 DEF Written

\* An edit replaces the draft by one that is as good.
LEMMA EditMoves ==
    ASSUME RequestInv, DraftInv, NEW r \in Requests, Edit(r)
    PROVE  /\ Alone(r) /\ request[r].pc = "idle" /\ request'[r].pc = "persist"
           /\ DraftInv' /\ touched' /\ mu' = {} /\ mu = {} /\ left > 0 /\ left' = left - 1
           /\ draft'.hasKey => draft'.key \in Uploads \/ (draft.hasKey /\ draft'.key = draft.key)
           /\ UNCHANGED <<offered, root, config, draftVars, deployEnv, deployVars,
                          keyCut, authVars>>
<1>1. draft \in Draft /\ OwnMAC(WithMAC(draft.cams)) /\ (draft.key # NoKey => draft.hasKey)
  BY DEF DraftInv, DraftOK
<1> DEFINE Good(d) == /\ DraftOK(d)
                      /\ d.hasKey => d.key \in Uploads \/ (draft.hasKey /\ d.key = draft.key)
<1>2. ASSUME NEW d, Assign(r, d), Good(d), request[r].pc = "idle", left > 0, left' = left - 1
      PROVE  /\ Alone(r) /\ request[r].pc = "idle" /\ request'[r].pc = "persist"
             /\ DraftInv' /\ touched' /\ mu' = {} /\ mu = {} /\ left > 0
             /\ left' = left - 1
             /\ draft'.hasKey =>
                   draft'.key \in Uploads \/ (draft.hasKey /\ draft'.key = draft.key)
             /\ UNCHANGED <<offered, root, config, draftVars, deployEnv, deployVars,
                            keyCut, authVars>>
  <2>1. draft' = d /\ request' = [request EXCEPT ![r] = [pc |-> "persist", draft |-> d]]
    BY <1>2 DEF Assign
  <2>2. Alone(r) /\ request'[r].pc = "persist"
    BY <2>1 DEF RequestInv, Alone
  <2>3. DraftInv'
    BY <1>2, <2>1 DEF DraftInv, DraftOK
  <2> QED BY <1>2, <2>1, <2>2, <2>3 DEF Assign
<1>3. ASSUME NEW google \in Credentials PROVE Good([draft EXCEPT !.google = google])
  BY <1>1 DEF Draft, DraftOK
<1>4. ASSUME NEW host \in Hosts \cup {NoHost} PROVE Good([draft EXCEPT !.host = host])
  BY <1>1 DEF Draft, DraftOK
<1>5. ASSUME NEW sub \in Subs \cup {NoSub}, NEW onvif \in BOOLEAN
      PROVE  Good([draft EXCEPT !.sub = sub, !.onvif = onvif])
  BY <1>1 DEF Draft, DraftOK
<1>6. ASSUME NEW cams \in Seq(Camera), OwnMAC(WithMAC(cams)), NEW onvif \in BOOLEAN
      PROVE  Good([draft EXCEPT !.cams = cams, !.onvif = onvif])
  BY <1>1, <1>6 DEF Draft, DraftOK
<1>7. ASSUME NEW key \in Uploads PROVE Good([draft EXCEPT !.key = key, !.hasKey = TRUE])
  BY <1>1 DEF Draft, DraftOK
<1> DEFINE Changed == request[r].pc = "idle" /\ left > 0 /\ left' = left - 1
                      /\ \E d : Assign(r, d) /\ Good(d)
<1>8. CASE Google(r)
  <2>1. PICK google \in Credentials : Assign(r, [draft EXCEPT !.google = google])
    BY <1>8, InputsAssumption DEF Google
  <2>2. Good([draft EXCEPT !.google = google])
    BY <1>3
  <2>3. Changed
    <3> HIDE DEF Good
    <3> QED BY <1>8, <2>1, <2>2 DEF Google, Begins
  <2> QED BY <1>2, <2>3
<1>9. CASE Network(r)
  <2>1. Hosts \cup Detected \subseteq Hosts \cup {NoHost}
    BY InputsAssumption
  <2>2. PICK host \in Hosts \cup {NoHost} : Assign(r, [draft EXCEPT !.host = host])
    BY <1>9, <2>1 DEF Network
  <2>3. Good([draft EXCEPT !.host = host])
    BY <1>4
  <2>4. Changed
    <3> HIDE DEF Good
    <3> QED BY <1>9, <2>2, <2>3 DEF Network, Begins
  <2> QED BY <1>2, <2>4
<1>10. CASE Events(r)
  <2>1. Changed BY <1>5, <1>10 DEF Events, Begins
  <2> QED BY <1>2, <2>1
<1>11. CASE Cameras(r)
  <2>1. PICK cams \in CameraLists :
           /\ Finalizable(cams)
           /\ Assign(r, [draft EXCEPT !.cams = Finalized(cams), !.onvif = AnyEvents(cams)])
    BY <1>11 DEF Cameras
  <2>2. cams \in Seq(Camera)
    BY InputsAssumption
  <2>3. Finalized(cams) \in Seq(Camera) /\ OwnMAC(WithMAC(Finalized(cams)))
    BY <2>1, <2>2, FinalizedOwnMAC
  <2>4. AnyEvents(cams) \in BOOLEAN
    BY DEF AnyEvents
  <2>5. Good([draft EXCEPT !.cams = Finalized(cams), !.onvif = AnyEvents(cams)])
    BY <1>6, <2>3, <2>4
  <2>6. Changed
    <3> HIDE DEF Good
    <3> QED BY <1>11, <2>1, <2>5 DEF Cameras, Begins
  <2> QED BY <1>2, <2>6
<1>12. CASE PubSubKey(r)
  <2>1. Changed BY <1>7, <1>12 DEF PubSubKey, Begins
  <2> QED BY <1>2, <2>1
<1> QED
  BY <1>8, <1>9, <1>10, <1>11, <1>12 DEF Edit

\* A draft is written to a file.
LEMMA BodyOK ==
    ASSUME NEW d, DraftOK(d)
    PROVE  DraftFileOK(DraftBody(d)) /\ DraftBody(d) \in DraftFile
<1>1. DraftBody(d) \in DraftFile
  BY DEF DraftOK, Draft, DraftBody, DraftFile
<1>2. DraftBody(d).cams = d.cams
  BY DEF DraftBody
<1> QED
  BY <1>1, <1>2 DEF DraftOK, DraftFileOK

LEMMA PersistMoves ==
    ASSUME RequestInv, DraftInv, FileInv, NEW r \in Requests, Persist(r)
    PROVE  /\ Alone(r) /\ request[r].pc = "persist" /\ request'[r] = Idle
           /\ DraftInv' /\ FileInv' /\ mu = {}
           /\ draft'.key = draft.key
           /\ draft'.hasKey = draft.hasKey
           /\ keyFile' = Empty => keyFile = Empty
<1>1. draft' = [draft EXCEPT !.onvif = AnyEvents(draft.cams)]
      /\ request' = [request EXCEPT ![r] = Idle]
      /\ request[r].pc = "persist" /\ mu = {}
  BY DEF Persist, ToPersist
<1>2. draft \in Draft /\ OwnMAC(WithMAC(draft.cams)) /\ (draft.key # NoKey => draft.hasKey)
  BY DEF DraftInv, DraftOK
<1>3. AnyEvents(draft.cams) \in BOOLEAN
  BY DEF AnyEvents
<1>4. /\ draft' \in Draft /\ draft'.cams = draft.cams
      /\ draft'.key = draft.key /\ draft'.hasKey = draft.hasKey
  BY <1>1, <1>2, <1>3 DEF Draft
<1>5. DraftOK(draft') /\ DraftInv'
  BY <1>2, <1>4 DEF DraftInv, DraftOK
<1>6. DraftFileOK(draftFile')
  <2>1. draftFile' = DraftBody(draft')
    BY DEF Persist
  <2> QED BY <1>5, <2>1, BodyOK
<1>8. keyFile' \in {keyFile, Absent} \/ (keyFile' = draft'.key /\ draft'.key # NoKey)
  BY DEF Persist, KeyAfter
<1>9. draft'.key \in Uploads \cup {NoKey}
  BY <1>4 DEF Draft
<1>10. keyFile' \in KeyFiles /\ (keyFile' = Empty => keyFile = Empty)
  BY <1>8, <1>9, FilesAssumption DEF FileInv, KeyFiles
<1>11. FileInv'
  BY <1>6, <1>10 DEF Persist, FileInv, DraftFileOK, deployVars
<1>12. Alone(r) /\ request'[r] = Idle
  BY <1>1 DEF Alone, RequestInv
<1> QED
  BY <1>1, <1>4, <1>5, <1>10, <1>11, <1>12

-----------------------------------------------------------------------------
(* Starting again *)

NoDraftFile ==
    [google |-> NoGoogle, sub |-> NoSub, onvif |-> FALSE, host |-> NoHost,
     cams |-> <<>>, hasKey |-> FALSE]

Remembered(df) == IF Whole(df) THEN df ELSE NoDraftFile

LEMMA NoCameras == <<>> \in Seq(Camera) /\ OwnMAC(WithMAC(<<>>))
<1>1. <<>> \in Seq(Camera) /\ DOMAIN <<>> = {}
  OBVIOUS
<1> DEFINE none == <<>>
<1>2. none \in Seq(Camera) /\ DOMAIN none = {}
  BY <1>1
<1> HIDE DEF none
<1>3. OwnMAC(WithMAC(none))
  BY <1>2, GivenMACs
<1> QED
  BY <1>2, <1>3 DEF none

LEMMA FromConfigOK ==
    ASSUME ConfigInv
    PROVE  LET d == FromConfig(config)
           IN  /\ DraftOK(d) /\ d.key = NoKey /\ d.hasKey = FALSE /\ d.host = NoHost
<1> DEFINE d == FromConfig(config)
<1>1. DefaultDraft \in Draft
  BY NoCameras DEF DefaultDraft, Draft, NoGoogle, Credentials
<1>2. DefaultDraft.cams = <<>> /\ DefaultDraft.key = NoKey
      /\ DefaultDraft.hasKey = FALSE /\ DefaultDraft.host = NoHost
  BY DEF DefaultDraft
<1>3. CASE Whole(config)
  <2>1. config \in ConfigFile
    BY <1>3, WholeFiles DEF ConfigInv
  <2>2. d = [DefaultDraft EXCEPT !.google = config.google, !.sub = config.sub,
                                 !.onvif = config.onvif, !.cams = config.cams]
    BY <1>3 DEF FromConfig
  <2>3. /\ config.google \in Credentials /\ config.sub \in Subs \cup {NoSub}
        /\ config.onvif \in BOOLEAN /\ config.cams \in Seq(Camera)
    BY <2>1 DEF ConfigFile
  <2>4. /\ d \in Draft /\ d.cams = config.cams
        /\ d.key = NoKey /\ d.hasKey = FALSE /\ d.host = NoHost
    BY <1>1, <1>2, <2>2, <2>3 DEF Draft
  <2>5. OwnMAC(WithMAC(config.cams))
    BY <2>1, <2>3, AddressedOwnMAC DEF ConfigInv
  <2> QED BY <2>4, <2>5 DEF DraftOK
<1>4. CASE ~Whole(config)
  <2>1. d = DefaultDraft
    BY <1>4 DEF FromConfig
  <2> QED BY <1>1, <1>2, <1>4, <2>1, NoCameras DEF DraftOK
<1> QED
  BY <1>3, <1>4

LEMMA MergedOK ==
    ASSUME NEW d, DraftOK(d), NEW df, DraftFileOK(df)
    PROVE  LET e == Merged(d, Remembered(df))
           IN  /\ DraftOK(e) /\ e.key = d.key /\ e.hasKey = d.hasKey
<1> DEFINE w == Remembered(df)
           e == Merged(d, w)
<1>1. w \in DraftFile /\ OwnMAC(WithMAC(w.cams))
  <2>1. CASE Whole(df)
    BY <2>1, WholeFiles DEF DraftFileOK, Remembered
  <2>2. CASE ~Whole(df)
    <3>1. w = NoDraftFile
      BY <2>2 DEF Remembered
    <3>2. NoDraftFile \in DraftFile /\ NoDraftFile.cams = <<>>
      BY NoCameras DEF NoDraftFile, DraftFile, NoGoogle, Credentials
    <3> QED BY <3>1, <3>2, NoCameras
  <2> QED BY <2>1, <2>2
<1> HIDE DEF w
<1>2. d \in Draft /\ OwnMAC(WithMAC(d.cams)) /\ (d.key # NoKey => d.hasKey)
  BY DEF DraftOK
<1>3. /\ e \in Draft /\ e.key = d.key /\ e.hasKey = d.hasKey
      /\ e.cams = w.cams \/ e.cams = d.cams
  <2> DEFINE google == IF Named(w.google) THEN w.google ELSE d.google
             sub == IF w.sub # NoSub \/ w.onvif THEN w.sub ELSE d.sub
             onvif == IF w.sub # NoSub \/ w.onvif THEN w.onvif ELSE d.onvif
             host == IF w.host # NoHost THEN w.host ELSE d.host
             cams == IF w.cams # <<>> THEN w.cams ELSE d.cams
  <2>1. e = [d EXCEPT !.google = google, !.sub = sub, !.onvif = onvif,
                      !.host = host, !.cams = cams]
    BY DEF Merged
  <2>2. /\ google \in Credentials /\ sub \in Subs \cup {NoSub} /\ onvif \in BOOLEAN
        /\ host \in Hosts \cup {NoHost} /\ cams \in Seq(Camera)
    BY <1>1, <1>2 DEF Draft, DraftFile
  <2>3. cams = w.cams \/ cams = d.cams
    OBVIOUS
  <2> HIDE DEF google, sub, onvif, host, cams, e
  <2>4. /\ e \in Draft /\ e.key = d.key /\ e.hasKey = d.hasKey
        /\ e.cams = cams
    BY <1>2, <2>1, <2>2 DEF Draft
  <2> QED BY <2>3, <2>4
<1>4. DraftOK(e)
  <2> HIDE DEF e
  <2> QED BY <1>1, <1>2, <1>3 DEF DraftOK
<1> QED
  BY <1>3, <1>4 DEF w

LEMMA WithKeyFileOK ==
    ASSUME NEW d, DraftOK(d), d.key = NoKey, d.hasKey = FALSE, NEW w,
           NEW kf \in KeyFiles
    PROVE  LET e == WithKeyFile(d, w, kf)
           IN  /\ DraftOK(e)
               /\ e.hasKey => e.key \in Uploads \/ kf = Empty
<1> DEFINE e == WithKeyFile(d, w, kf)
<1>1. d \in Draft /\ OwnMAC(WithMAC(d.cams))
  BY DEF DraftOK
<1>2. kf \in Uploads \/ kf = Absent \/ kf = Empty
  BY DEF KeyFiles
<1>3. Whole(kf) <=> kf \in Uploads
  BY WholeFiles
<1>4. /\ e \in Draft /\ e.cams = d.cams
      /\ e.hasKey => e.key \in Uploads \/ kf = Empty
      /\ e.key # NoKey => e.hasKey
  <2>1. CASE ~w.hasKey
    BY <1>1, <2>1 DEF WithKeyFile
  <2>2. CASE w.hasKey
    <3> DEFINE has == kf # Absent
               key == IF kf \in Uploads THEN kf ELSE NoKey
    <3>1. e = [d EXCEPT !.hasKey = has, !.key = key]
      BY <1>3, <2>2 DEF WithKeyFile
    <3>2. has \in BOOLEAN /\ key \in Uploads \cup {NoKey}
      OBVIOUS
    <3>3. key # NoKey => has
      BY FilesAssumption
    <3>4. has => key \in Uploads \/ kf = Empty
      BY <1>2
    <3> HIDE DEF has, key, e
    <3>5. /\ e \in Draft /\ e.cams = d.cams
          /\ e.hasKey = has /\ e.key = key
      BY <1>1, <3>1, <3>2 DEF Draft
    <3> QED BY <3>3, <3>4, <3>5
  <2> QED BY <2>1, <2>2
<1>5. DraftOK(e)
  <2> HIDE DEF e
  <2> QED BY <1>1, <1>4 DEF DraftOK
<1> QED
  BY <1>4, <1>5

LEMMA WithEnvOK ==
    ASSUME NEW d, DraftOK(d), NEW env \in Hosts \cup {Absent, Empty}
    PROVE  LET e == WithEnv(d, env)
           IN  /\ DraftOK(e) /\ e.key = d.key
               /\ e.hasKey = d.hasKey
<1> DEFINE e == WithEnv(d, env)
<1>1. d \in Draft /\ OwnMAC(WithMAC(d.cams)) /\ (d.key # NoKey => d.hasKey)
  BY DEF DraftOK
<1>2. /\ e \in Draft /\ e.cams = d.cams /\ e.key = d.key
      /\ e.hasKey = d.hasKey
  <2>1. CASE d.host = NoHost /\ Whole(env)
    <3>1. env \in Hosts
      BY <2>1, WholeFiles
    <3>2. e = [d EXCEPT !.host = env]
      BY <2>1 DEF WithEnv
    <3> QED BY <1>1, <3>1, <3>2 DEF Draft
  <2>2. CASE ~(d.host = NoHost /\ Whole(env))
    BY <1>1, <2>2 DEF WithEnv
  <2> QED BY <2>1, <2>2
<1>3. DraftOK(e)
  <2> HIDE DEF e
  <2> QED BY <1>1, <1>2 DEF DraftOK
<1> QED
  BY <1>2, <1>3

LEMMA WithExistingKeyOK ==
    ASSUME NEW d, DraftOK(d), NEW kf, NEW dk, NEW cut \in BOOLEAN,
           d.hasKey => d.key \in Uploads \/ cut
    PROVE  LET e == WithExistingKey(d, kf, dk)
           IN  /\ DraftOK(e)
               /\ e.hasKey => e.key \in Uploads \/ cut
<1> DEFINE e == WithExistingKey(d, kf, dk)
           key == IF kf \in Keys THEN kf ELSE dk
<1>1. d \in Draft /\ OwnMAC(WithMAC(d.cams)) /\ (d.key # NoKey => d.hasKey)
  BY DEF DraftOK
<1>2. CASE (d.hasKey /\ d.key # NoKey) \/ {kf, dk} \cap Keys = {}
  <2>1. e = d
    BY <1>2 DEF WithExistingKey
  <2> QED BY <2>1
<1>3. CASE ~((d.hasKey /\ d.key # NoKey) \/ {kf, dk} \cap Keys = {})
  <2>1. e = [d EXCEPT !.key = key, !.hasKey = TRUE]
    BY <1>3 DEF WithExistingKey
  <2>2. key \in Keys /\ key \in Uploads
    BY <1>3 DEF Uploads
  <2> HIDE DEF key, e
  <2>3. /\ e \in Draft /\ e.cams = d.cams /\ e.key = key
        /\ e.hasKey
    BY <1>1, <2>1, <2>2 DEF Draft
  <2> QED BY <1>1, <2>2, <2>3 DEF DraftOK, e
<1> QED
  BY <1>2, <1>3

LEMMA LoadedOK ==
    ASSUME ConfigInv, FileInv, NEW df, DraftFileOK(df), NEW kf \in KeyFiles
    PROVE  LET e == Loaded(df, kf)
           IN  /\ DraftOK(e)
               /\ e.hasKey => e.key \in Uploads \/ kf = Empty
<1> DEFINE d0 == FromConfig(config)
           w == Remembered(df)
           d1 == Merged(d0, w)
           d2 == WithKeyFile(d1, w, kf)
           d3 == WithEnv(d2, deployEnv)
           d4 == WithExistingKey(d3, kf, deployedKey)
           d5 == Loaded(df, kf)
           cut == kf = Empty
<1>0. deployEnv \in Hosts \cup {Absent, Empty} /\ cut \in BOOLEAN
  BY DEF FileInv
<1>1. /\ DraftOK(d0) /\ d0.key = NoKey /\ d0.hasKey = FALSE
  BY FromConfigOK
<1>2. /\ DraftOK(d1) /\ d1.key = NoKey /\ d1.hasKey = FALSE
  <2> HIDE DEF d0
  <2> QED BY <1>1, MergedOK
<1>3. /\ DraftOK(d2) /\ (d2.hasKey => d2.key \in Uploads \/ cut)
  <2> HIDE DEF d1, w
  <2> QED BY <1>2, WithKeyFileOK
<1>4. /\ DraftOK(d3) /\ d3.key = d2.key /\ d3.hasKey = d2.hasKey
  <2> HIDE DEF d2
  <2> QED BY <1>0, <1>3, WithEnvOK
<1>5. /\ DraftOK(d4)
      /\ d4.hasKey => d4.key \in Uploads \/ cut
  <2> HIDE DEF d3, d2, cut
  <2> QED BY <1>0, <1>3, <1>4, WithExistingKeyOK
<1>6. d5 = IF df = Absent THEN d4 ELSE [d4 EXCEPT !.onvif = AnyEvents(d4.cams)]
  BY DEF Loaded, Remembered, NoDraftFile
<1> HIDE DEF d0, d1, d2, d3, d4, d5, cut, w
<1>8. d4 \in Draft /\ OwnMAC(WithMAC(d4.cams)) /\ (d4.key # NoKey => d4.hasKey)
  BY <1>5 DEF DraftOK
<1>9. AnyEvents(d4.cams) \in BOOLEAN
  BY DEF AnyEvents
<1>10. /\ d5 \in Draft /\ d5.cams = d4.cams /\ d5.key = d4.key
       /\ d5.hasKey = d4.hasKey
  BY <1>6, <1>8, <1>9 DEF Draft
<1>11. DraftOK(d5)
  BY <1>8, <1>10 DEF DraftOK
<1> QED
  BY <1>5, <1>10, <1>11 DEF d5, cut

\* What a request that was saving leaves behind.
LEMMA CutFiles ==
    ASSUME DraftInv, FileInv, NEW cut \in CutPersist
    PROVE  /\ DraftFileOK(cut[1]) /\ cut[2] \in {keyFile, Empty}
           /\ (\A r \in Requests : request[r].pc # "persist") =>
                 cut[1] = draftFile /\ cut[2] = keyFile
<1> DEFINE d == [draft EXCEPT !.onvif = AnyEvents(draft.cams)]
<1>1. draft \in Draft /\ OwnMAC(WithMAC(draft.cams)) /\ (draft.key # NoKey => draft.hasKey)
  BY DEF DraftInv, DraftOK
<1>2. AnyEvents(draft.cams) \in BOOLEAN
  BY DEF AnyEvents
<1>3. DraftOK(d)
  <2>1. /\ d \in Draft /\ d.cams = draft.cams /\ d.key = draft.key
        /\ d.hasKey = draft.hasKey
    BY <1>1, <1>2 DEF Draft
  <2> HIDE DEF d
  <2> QED BY <1>1, <2>1 DEF DraftOK
<1> HIDE DEF d
<1>4. DraftFileOK(DraftBody(d)) /\ DraftFileOK(Empty) /\ DraftFileOK(draftFile)
  <2>1. DraftFileOK(DraftBody(d))
    BY <1>3, BodyOK
  <2>2. DraftFileOK(Empty)
    BY FilesAssumption DEF DraftFileOK
  <2> QED BY <2>1, <2>2 DEF FileInv
<1>5. \/ cut = <<draftFile, keyFile>>
      \/ /\ \E r \in Requests : request[r].pc = "persist"
         /\ cut \in {<<Empty, keyFile>>, <<DraftBody(d), keyFile>>, <<DraftBody(d), Empty>>}
  BY DEF CutPersist, d
<1> QED
  BY <1>4, <1>5

\* The wizard is started again from what is on disk.
LEMMA RestartMoves ==
    ASSUME TypeInv, Restart
    PROVE  /\ DraftInv' /\ FileInv'
           /\ draft'.hasKey => draft'.key \in Uploads \/ keyFile' = Empty
           /\ keyCut' = (keyCut \/ (keyFile' = Empty /\ keyFile # Empty))
           /\ DOMAIN request' = Requests /\ \A r \in Requests : request'[r] = Idle
           /\ (\A r \in Requests : request[r].pc # "persist") =>
                 /\ keyFile' = keyFile
                 /\ \E found \in Detected :
                       draft' = [Loaded(draftFile, keyFile) EXCEPT
                                    !.host = IF @ = NoHost THEN found ELSE @]
<1>1. PICK cut \in CutPersist :
         /\ draftFile' = cut[1]
         /\ keyFile' = cut[2]
         /\ keyCut' = (keyCut \/ (cut[2] = Empty /\ keyFile # Empty))
         /\ Starts(cut[1], cut[2])
  BY DEF Restart
<1> DEFINE df == cut[1]
           kf == cut[2]
           e == Loaded(df, kf)
<1>2. /\ DraftFileOK(df) /\ kf \in {keyFile, Empty}
      /\ (\A r \in Requests : request[r].pc # "persist") =>
            df = draftFile /\ kf = keyFile
  BY CutFiles DEF TypeInv
<1>3. kf \in KeyFiles
  BY <1>2 DEF TypeInv, FileInv, KeyFiles
<1>4. PICK found \in Detected :
         draft' = [e EXCEPT !.host = IF e.host = NoHost THEN found ELSE e.host]
  BY <1>1 DEF Starts
<1>5. /\ draftFile' = df /\ keyFile' = kf
      /\ keyCut' = (keyCut \/ (kf = Empty /\ keyFile # Empty))
  BY <1>1
<1> HIDE DEF df, kf
<1>6. /\ DraftOK(e)
      /\ e.hasKey => e.key \in Uploads \/ kf = Empty
  BY <1>2, <1>3, LoadedOK DEF TypeInv
<1>7. /\ DraftOK(draft') /\ draft'.key = e.key
      /\ draft'.hasKey = e.hasKey
  <2> DEFINE host == IF e.host = NoHost THEN found ELSE e.host
  <2>1. e \in Draft /\ OwnMAC(WithMAC(e.cams)) /\ (e.key # NoKey => e.hasKey)
    BY <1>6 DEF DraftOK
  <2> HIDE DEF e
  <2>2. host \in Hosts \cup {NoHost}
    BY <2>1, InputsAssumption DEF Draft
  <2>3. draft' = [e EXCEPT !.host = host]
    BY <1>4
  <2> HIDE DEF host
  <2>4. /\ draft' \in Draft /\ draft'.key = e.key
        /\ draft'.hasKey = e.hasKey /\ draft'.cams = e.cams
    BY <2>1, <2>2, <2>3 DEF Draft
  <2> QED BY <2>1, <2>4 DEF DraftOK
<1>8. DraftInv'
  BY <1>7 DEF DraftInv, DraftOK
<1>9. FileInv'
  <2>1. DraftFileOK(draftFile') /\ keyFile' \in KeyFiles
    BY <1>2, <1>3, <1>5
  <2>2. keyCut' \in BOOLEAN
    BY <1>5 DEF TypeInv, FileInv
  <2>3. deployedKey' \in {deployedKey, Empty} /\ deployEnv' \in {deployEnv, Empty}
    BY DEF Restart, Cut
  <2>4. deployedKey' \in KeyFiles /\ deployEnv' \in Hosts \cup {Absent, Empty}
    BY <2>3 DEF TypeInv, FileInv, KeyFiles
  <2> QED BY <2>1, <2>2, <2>4 DEF FileInv, DraftFileOK
<1>10. DOMAIN request' = Requests /\ \A r \in Requests : request'[r] = Idle
  BY DEF Restart
<1>11. ASSUME \A r \in Requests : request[r].pc # "persist"
       PROVE  /\ keyFile' = keyFile
              /\ \E x \in Detected :
                    draft' = [Loaded(draftFile, keyFile) EXCEPT
                                 !.host = IF @ = NoHost THEN x ELSE @]
  BY <1>2, <1>4, <1>5, <1>11
<1> QED
  BY <1>5, <1>6, <1>7, <1>8, <1>9, <1>10, <1>11

LEMMA ReportMoves ==
    ASSUME RequestInv, NEW r \in Requests, Report(r)
    PROVE  /\ Alone(r) /\ request[r] \in Job /\ request'[r] = Idle
           /\ request[r].pc \in {"done", "failed"}
BY DEF Report, RequestInv, Alone

-----------------------------------------------------------------------------
(* The types are kept *)

\* The steps of Next, as the proofs take them.
LEMMA Steps ==
    ASSUME [Next]_vars
    PROVE  \/ \E r \in Requests : Edit(r)
           \/ \E r \in Requests : Persist(r)
           \/ \E r \in Requests, label \in {"save", "deploy"} :
                 Begins(r, label) /\ Write(r, label)
           \/ \E r \in Requests : Written(r)
           \/ \E r \in Requests : DeployMove(r)
           \/ \E r \in Requests : Report(r)
           \/ Restart
           \/ AuthNext /\ UNCHANGED setupVars
           \/ UNCHANGED setupVars /\ UNCHANGED authVars
<1>1. CASE UNCHANGED vars
  BY <1>1 DEF vars
<1>2. CASE Next
  BY <1>2 DEF Next, Save, Deploy, DeployStep, DeployMove
<1> QED
  BY <1>1, <1>2

LEMMA SetupUnchanged ==
    ASSUME UNCHANGED setupVars
    PROVE  /\ UNCHANGED <<offered, left, root, draft, mu, request, touched, config>>
           /\ UNCHANGED <<draftFile, keyFile, deployEnv, compose, onvifYml, mediamtxYml>>
           /\ UNCHANGED <<deployed, deployedKey, patchedFor, keyCut>>
BY DEF setupVars, boundVars, wizardVars, draftVars, deployVars

LEMMA BoundChanges ==
    ASSUME TypeInv, [Next]_vars
    PROVE  /\ offered' = offered /\ root' = root
           /\ left' = left \/ (left > 0 /\ left' = left - 1)
<1>1. CASE \E r \in Requests : Edit(r)
  BY <1>1, EditMoves DEF TypeInv
<1>2. CASE \E r \in Requests : Persist(r)
  BY <1>2 DEF Persist, boundVars
<1>3. CASE \E r \in Requests, label \in {"save", "deploy"} :
              Begins(r, label) /\ Write(r, label)
  BY <1>3 DEF Begins, Write
<1>4. CASE \E r \in Requests : Written(r)
  BY <1>4 DEF Written, boundVars
<1>5. CASE \E r \in Requests : DeployMove(r)
  BY <1>5, DeployMoves DEF TypeInv, boundVars
<1>6. CASE \E r \in Requests : Report(r)
  BY <1>6 DEF Report, boundVars
<1>7. CASE Restart
  BY <1>7 DEF Restart
<1>8. CASE UNCHANGED setupVars
  BY <1>8, SetupUnchanged
<1> QED
  BY <1>1, <1>2, <1>3, <1>4, <1>5, <1>6, <1>7, <1>8, Steps

LEMMA BoundStep == TypeInv /\ [Next]_vars => BoundInv'
<1> SUFFICES ASSUME TypeInv, [Next]_vars PROVE BoundInv'
  OBVIOUS
<1>1. /\ offered \in Scenarios /\ left \in 0 .. offered.requests /\ root \in BOOLEAN
      /\ offered.requests \in Nat
  BY ScenariosAssumption DEF TypeInv, BoundInv
<1> QED
  BY <1>1, BoundChanges DEF BoundInv

LEMMA AuthTypes == AuthInv /\ AuthNext => AuthInv'
<1> SUFFICES ASSUME AuthInv, AuthNext PROVE AuthInv'
  OBVIOUS
<1> DEFINE Types == [Callbacks -> [pc : {"idle", "exchange", "send"}, auth : 0 .. MaxAuths]]
           Owned == \A c \in Callbacks : callback[c].pc # "idle" => callback[c].auth # 0
<1>1. /\ oauthState \in 0 .. MaxAuths /\ waiting \subseteq Auths /\ posted \subseteq Auths
      /\ callback \in Types /\ tokens \in {NoTokens} \cup 0 .. MaxAuths
      /\ calls \in 0 .. MaxCalls /\ Owned
  BY DEF AuthInv, AuthTypeOK
<1>2. SUFFICES /\ oauthState' \in 0 .. MaxAuths /\ waiting' \subseteq Auths
               /\ posted' \subseteq Auths
               /\ callback' \in Types /\ tokens' \in {NoTokens} \cup 0 .. MaxAuths
               /\ calls' \in 0 .. MaxCalls /\ Owned'
  BY DEF AuthInv, AuthTypeOK
<1>3. CASE AuthStart
  BY <1>1, <1>3, CallsAssumption DEF AuthStart, Auths
<1>4. CASE \E a \in Auths : Receive(a)
  BY <1>1, <1>4 DEF Receive
<1>5. CASE \E c \in Callbacks : Arrive(c)
  <2>1. PICK c \in Callbacks, label \in {"exchange", "send"} :
           callback' = [callback EXCEPT ![c] = [pc |-> label, auth |-> oauthState]]
    BY <1>5 DEF Arrive
  <2>2. oauthState # 0
    BY <1>5 DEF Arrive
  <2>3. callback' \in Types /\ Owned'
    BY <1>1, <2>1, <2>2
  <2>4. calls' \in 0 .. MaxCalls /\ UNCHANGED <<oauthState, waiting, posted, tokens>>
    BY <1>1, <1>5, CallsAssumption DEF Arrive
  <2> QED BY <1>1, <2>3, <2>4
<1>6. ASSUME NEW c \in Callbacks, NEW label \in {"idle", "send"}, Step(c, label),
             callback[c].pc # "idle"
      PROVE  callback' \in Types /\ Owned' /\ callback[c].auth \in Auths
  BY <1>1, <1>6 DEF Step, Auths
<1>7. CASE \E c \in Callbacks : Exchange(c)
  <2>1. PICK c \in Callbacks : Exchange(c)
    BY <1>7
  <2>2. callback' \in Types /\ Owned' /\ callback[c].auth \in Auths
    BY <1>6, <2>1 DEF Exchange
  <2>3. tokens' \in {NoTokens} \cup 0 .. MaxAuths
    BY <1>1, <2>1, <2>2 DEF Exchange, Auths
  <2> QED BY <1>1, <2>1, <2>2, <2>3 DEF Exchange
<1>8. CASE \E c \in Callbacks : Send(c)
  <2>1. PICK c \in Callbacks : Send(c)
    BY <1>8
  <2>2. callback' \in Types /\ Owned' /\ callback[c].auth \in Auths
    BY <1>6, <2>1 DEF Send
  <2> QED BY <1>1, <2>1, <2>2 DEF Send
<1> QED
  BY <1>3, <1>4, <1>5, <1>7, <1>8 DEF AuthNext

LEMMA AuthStep == TypeInv /\ [Next]_vars => AuthInv'
<1> SUFFICES ASSUME TypeInv, [Next]_vars PROVE AuthInv'
  OBVIOUS
<1>0. AuthInv
  BY DEF TypeInv
<1>1. CASE UNCHANGED authVars
  BY <1>0, <1>1 DEF authVars, AuthInv, AuthTypeOK
<1>2. CASE AuthNext
  BY <1>0, <1>2, AuthTypes
<1>3. CASE Restart
  <2>1. AuthForgotten
    BY <1>3 DEF Restart
  <2> QED BY <1>0, <2>1, CallsAssumption DEF AuthForgotten, AuthInv, AuthTypeOK, NoCallback
<1>4. ASSUME NEW r \in Requests,
             \/ Edit(r) \/ Persist(r) \/ Written(r) \/ DeployMove(r) \/ Report(r)
             \/ \E label \in {"save", "deploy"} : Begins(r, label) /\ Write(r, label)
      PROVE  UNCHANGED authVars
  <2>1. CASE Edit(r)
    BY <2>1, EditMoves DEF TypeInv
  <2>2. CASE DeployMove(r)
    BY <2>2, DeployMoves DEF TypeInv
  <2> QED BY <1>4, <2>1, <2>2 DEF Persist, Written, Report, Write
<1> QED
  BY <1>1, <1>2, <1>3, <1>4, Steps

LEMMA RequestStep == TypeInv /\ [Next]_vars => RequestInv'
<1> SUFFICES ASSUME TypeInv, [Next]_vars PROVE RequestInv'
  OBVIOUS
<1>0. RequestInv
  BY DEF TypeInv
<1>1. ASSUME NEW r \in Requests, Alone(r),
             request'[r].pc \in {"idle", "persist"} \/ request'[r] \in Job
      PROVE  RequestInv'
  BY <1>0, <1>1 DEF RequestInv, Alone
<1>2. Idle.pc = "idle"
  BY DEF Idle
<1>3. CASE \E r \in Requests : Edit(r)
  BY <1>1, <1>3, EditMoves DEF TypeInv
<1>4. CASE \E r \in Requests : Persist(r)
  BY <1>1, <1>2, <1>4, PersistMoves DEF TypeInv
<1>5. CASE \E r \in Requests, label \in {"save", "deploy"} :
              Begins(r, label) /\ Write(r, label)
  <2>1. PICK r \in Requests, label \in {"save", "deploy"} : Write(r, label)
    BY <1>5
  <2>2. /\ request'[r] \in Job /\ DOMAIN request' = Requests
        /\ \A q \in Requests \ {r} : Joined(q) \/ request'[q] = request[q]
    BY <2>1, WriteMoves DEF TypeInv
  <2> QED BY <1>0, <2>2 DEF RequestInv, Joined
<1>6. CASE \E r \in Requests : Written(r)
  BY <1>1, <1>2, <1>6, WrittenMoves DEF TypeInv, Moved
<1>7. CASE \E r \in Requests : DeployMove(r)
  BY <1>1, <1>7, DeployMoves DEF TypeInv, Moved
<1>8. CASE \E r \in Requests : Report(r)
  BY <1>1, <1>2, <1>8, ReportMoves DEF TypeInv
<1>9. CASE Restart
  BY <1>2, <1>9, RestartMoves DEF RequestInv
<1>10. CASE UNCHANGED setupVars
  BY <1>0, <1>10, SetupUnchanged DEF RequestInv
<1> QED
  BY <1>3, <1>4, <1>5, <1>6, <1>7, <1>8, <1>9, <1>10, Steps

\* No job has the label of another kind of request.
LEMMA JobPC == \A job \in Job : job.pc \in JobLabels /\ job.pc \notin {"idle", "persist"}
BY DEF Job, JobLabels

LEMMA MuStep == TypeInv /\ [Next]_vars => MuInv'
<1> SUFFICES ASSUME TypeInv, [Next]_vars PROVE MuInv'
  OBVIOUS
<1> DEFINE Writes(q) == request[q].pc \in {"save", "deploy"}
<1>0. /\ RequestInv /\ mu \subseteq Requests
      /\ \A r \in Requests : Writes(r) <=> r \in mu
      /\ \A q, r \in mu : q = r
  BY DEF TypeInv, MuInv
<1>1. ASSUME mu' = mu, \A q \in Requests : Writes(q)' <=> Writes(q)
      PROVE  MuInv'
  BY <1>0, <1>1 DEF MuInv
<1>2. Idle.pc = "idle"
  BY DEF Idle
<1>3. ASSUME NEW r \in Requests, Alone(r), ~Writes(r), ~Writes(r)', mu' = mu
      PROVE  MuInv'
  BY <1>1, <1>3 DEF Alone
<1>4. CASE \E r \in Requests : Edit(r)
  BY <1>3, <1>4, EditMoves DEF TypeInv
<1>5. CASE \E r \in Requests : Persist(r)
  <2>1. PICK r \in Requests : Persist(r)
    BY <1>5
  <2>2. mu' = mu
    BY <2>1 DEF Persist
  <2>3. Alone(r) /\ request[r].pc = "persist" /\ request'[r] = Idle
    BY <2>1, PersistMoves DEF TypeInv
  <2> QED BY <1>2, <1>3, <2>2, <2>3
<1>6. CASE \E r \in Requests, label \in {"save", "deploy"} :
              Begins(r, label) /\ Write(r, label)
  <2>1. PICK r \in Requests, label \in {"save", "deploy"} : Write(r, label)
    BY <1>6
  <2>2. mu = {} /\ mu' = {r}
    BY <2>1 DEF Write, Lock
  <2>3. /\ request'[r].pc = label
        /\ \A q \in Requests \ {r} : Joined(q) \/ request'[q] = request[q]
    BY <2>1, WriteMoves DEF TypeInv
  <2>4. \A q \in Requests \ {r} : request'[q].pc = request[q].pc
    BY <2>3 DEF Joined
  <2> QED BY <1>0, <2>2, <2>3, <2>4 DEF MuInv
<1>7. CASE \E r \in Requests : Written(r)
  <2>1. PICK r \in Requests : Written(r)
    BY <1>7
  <2>2. mu' = {} /\ Writes(r)
    BY <2>1 DEF Written
  <2>3. Alone(r) /\ (request'[r] = Idle \/ Moved(r, "onvif"))
    BY <2>1, WrittenMoves DEF TypeInv
  <2>4. \A q \in Requests : ~Writes(q)'
    BY <1>0, <1>2, <2>2, <2>3 DEF Alone, Moved
  <2> QED BY <2>2, <2>4 DEF MuInv
<1>8. CASE \E r \in Requests : DeployMove(r)
  <2>1. PICK r \in Requests : DeployMove(r)
    BY <1>8
  <2>2. /\ Alone(r) /\ ~Writes(r) /\ mu' = mu
        /\ \E label \in JobLabels \ {"save", "deploy", "onvif"} : Moved(r, label)
    BY <2>1, DeployMoves DEF TypeInv
  <2>3. ~Writes(r)'
    BY <2>2 DEF Moved
  <2> QED BY <1>3, <2>2, <2>3
<1>9. CASE \E r \in Requests : Report(r)
  <2>1. PICK r \in Requests : Report(r)
    BY <1>9
  <2>2. mu' = mu
    BY <2>1 DEF Report
  <2>3. Alone(r) /\ request[r].pc \in {"done", "failed"} /\ request'[r] = Idle
    BY <2>1, ReportMoves DEF TypeInv
  <2> QED BY <1>2, <1>3, <2>2, <2>3
<1>10. CASE Restart
  <2>1. mu' = {} /\ \A q \in Requests : request'[q] = Idle
    BY <1>10 DEF Restart
  <2> QED BY <1>2, <2>1 DEF MuInv
<1>11. CASE UNCHANGED setupVars
  BY <1>1, <1>11, SetupUnchanged
<1> QED
  BY <1>4, <1>5, <1>6, <1>7, <1>8, <1>9, <1>10, <1>11, Steps

LEMMA DraftStep == TypeInv /\ [Next]_vars => DraftInv'
<1> SUFFICES ASSUME TypeInv, [Next]_vars PROVE DraftInv'
  OBVIOUS
<1>1. CASE draft' = draft
  BY <1>1 DEF TypeInv, DraftInv, DraftOK
<1>2. CASE \E r \in Requests : Edit(r)
  BY <1>2, EditMoves DEF TypeInv
<1>3. CASE \E r \in Requests : Persist(r)
  BY <1>3, PersistMoves DEF TypeInv
<1>4. CASE Restart
  BY <1>4, RestartMoves
<1>5. ASSUME NEW r \in Requests,
             \/ Written(r) \/ DeployMove(r) \/ Report(r)
             \/ \E label \in {"save", "deploy"} : Begins(r, label) /\ Write(r, label)
      PROVE  draft' = draft
  <2>1. CASE DeployMove(r)
    BY <2>1, DeployMoves DEF TypeInv
  <2> QED BY <1>5, <2>1 DEF Written, Report, Write
<1>6. CASE UNCHANGED setupVars
  BY <1>1, <1>6, SetupUnchanged
<1> QED
  BY <1>1, <1>2, <1>3, <1>4, <1>5, <1>6, Steps

\* Only the two handlers that write config.yaml change it.
LEMMA ConfigChanges ==
    ASSUME TypeInv, [Next]_vars
    PROVE  \/ config' = config
           \/ \E r \in Requests, label \in {"save", "deploy"} : Write(r, label)
           \/ \E r \in Requests : Written(r)
<1>1. ASSUME NEW r \in Requests, Edit(r) \/ Persist(r) \/ DeployMove(r) \/ Report(r)
      PROVE  config' = config
  <2>1. CASE Edit(r)
    BY <2>1, EditMoves DEF TypeInv
  <2>2. CASE DeployMove(r)
    BY <2>2, DeployMoves DEF TypeInv
  <2> QED BY <1>1, <2>1, <2>2 DEF Persist, Report
<1>2. Restart => config' = config
  BY DEF Restart
<1>3. UNCHANGED setupVars => config' = config
  BY SetupUnchanged
<1> QED
  BY <1>1, <1>2, <1>3, Steps

LEMMA ConfigStep == TypeInv /\ [Next]_vars => ConfigInv'
<1> SUFFICES ASSUME TypeInv, [Next]_vars PROVE ConfigInv'
  OBVIOUS
<1>1. CASE config' = config
  BY <1>1 DEF TypeInv, ConfigInv
<1>2. CASE \E r \in Requests, label \in {"save", "deploy"} : Write(r, label)
  <2>1. config' = Empty
    BY <1>2 DEF Write
  <2> QED BY <2>1, FilesAssumption DEF ConfigInv
<1>3. CASE \E r \in Requests : Written(r)
  <2>1. PICK r \in Requests : Written(r)
    BY <1>3
  <2>2. request[r] \in Job /\ config' = request[r].cfg
    BY <2>1, WrittenMoves DEF TypeInv, Written
  <2>3. config' \in ConfigFile /\ Sound(config')
    BY <2>2 DEF Job, TypeInv, JobInv
  <2> QED BY <2>3 DEF ConfigInv, Sound
<1> QED
  BY <1>1, <1>2, <1>3, ConfigChanges

LEMMA FileStep == TypeInv /\ [Next]_vars => FileInv'
<1> SUFFICES ASSUME TypeInv, [Next]_vars PROVE FileInv'
  OBVIOUS
<1>0. FileInv /\ RequestInv
  BY DEF TypeInv
<1>1. CASE UNCHANGED <<draftFile, keyFile, keyCut, deployEnv, deployedKey>>
  BY <1>0, <1>1 DEF FileInv, DraftFileOK
<1>2. CASE \E r \in Requests : Persist(r)
  BY <1>2, PersistMoves DEF TypeInv
<1>3. CASE Restart
  BY <1>3, RestartMoves
<1>4. CASE \E r \in Requests : Report(r)
  <2>1. PICK r \in Requests : Report(r)
    BY <1>4
  <2>2. request[r] \in Job /\ request[r].pc \in {"done", "failed"}
    BY <2>1, ReportMoves DEF TypeInv
  <2>3. request[r].host \in Hosts
    BY <2>2 DEF TypeInv, JobInv, Job
  <2>4. deployEnv' \in Hosts \cup {Absent, Empty}
    BY <1>0, <2>1, <2>3 DEF Report, FileInv
  <2>5. UNCHANGED <<draftFile, keyFile, keyCut, deployedKey>>
    BY <2>1 DEF Report, draftVars, deployVars
  <2> QED BY <1>0, <2>4, <2>5 DEF FileInv, DraftFileOK
<1>5. CASE \E r \in Requests : DeployMove(r)
  <2>1. PICK r \in Requests : DeployMove(r)
    BY <1>5
  <2>2. request[r] \in Job /\ UNCHANGED <<draftFile, keyFile, keyCut, deployEnv>>
    BY <2>1, DeployMoves DEF TypeInv, draftVars
  <2>3. deployedKey' \in {deployedKey, KeyToInstall(r)}
    BY <2>1 DEF DeployMove, GenerateOnvif, GenerateMediamtx, PatchCompose,
                InstallConfig, InstallKey, BringUp, deployVars
  <2>4. KeyToInstall(r) \in Uploads
    BY <2>2 DEF KeyToInstall, Job, Uploads
  <2>5. deployedKey' \in KeyFiles
    BY <1>0, <2>3, <2>4 DEF FileInv, KeyFiles
  <2> QED BY <1>0, <2>2, <2>5 DEF FileInv, DraftFileOK
<1>6. ASSUME NEW r \in Requests,
             \/ Edit(r) \/ Written(r)
             \/ \E label \in {"save", "deploy"} : Begins(r, label) /\ Write(r, label)
      PROVE  UNCHANGED <<draftFile, keyFile, keyCut, deployEnv, deployedKey>>
  <2>1. CASE Edit(r)
    BY <2>1, EditMoves DEF TypeInv, draftVars, deployVars
  <2> QED BY <1>6, <2>1 DEF Written, Write, draftVars, deployVars
<1>7. CASE UNCHANGED setupVars
  BY <1>1, <1>7, SetupUnchanged
<1> QED
  BY <1>1, <1>2, <1>3, <1>4, <1>5, <1>6, <1>7, Steps

\* What holds of the jobs and is not disturbed by another's step.
LEMMA JobStep == TypeInv /\ [Next]_vars => JobInv'
<1> SUFFICES ASSUME TypeInv, [Next]_vars PROVE JobInv'
  OBVIOUS
<1> DEFINE Good(q) == /\ Sound(request[q].cfg)
                      /\ request[q].pc \notin {"save", "deploy"} => request[q].host # NoHost
<1>0. RequestInv /\ \A q \in Requests : request[q] \in Job => Good(q)
  BY DEF TypeInv, JobInv
<1>1. ASSUME NEW r \in Requests, Alone(r), request'[r] \in Job => Good(r)'
      PROVE  JobInv'
  BY <1>0, <1>1 DEF JobInv, Alone
<1>2. Idle \notin Job /\ \A x : x.pc \in {"idle", "persist"} => x \notin Job
  BY JobPC DEF Idle
<1>3. CASE \E r \in Requests : Edit(r)
  <2>1. PICK r \in Requests : Alone(r) /\ request'[r].pc = "persist"
    BY <1>3, EditMoves DEF TypeInv
  <2> QED BY <1>1, <1>2, <2>1
<1>4. CASE \E r \in Requests : Persist(r)
  <2>1. PICK r \in Requests : Alone(r) /\ request'[r] = Idle
    BY <1>4, PersistMoves DEF TypeInv
  <2> QED BY <1>1, <1>2, <2>1
<1>5. CASE \E r \in Requests, label \in {"save", "deploy"} :
              Begins(r, label) /\ Write(r, label)
  <2>1. PICK r \in Requests, label \in {"save", "deploy"} : Write(r, label)
    BY <1>5
  <2>2. /\ request'[r].pc = label /\ request'[r].cfg = ToFile(draft)
        /\ Sound(ToFile(draft))
        /\ \A q \in Requests \ {r} :
              IF Deploying(q) THEN Joined(q) ELSE request'[q] = request[q]
    BY <2>1, WriteMoves DEF TypeInv
  <2>3. Good(r)'
    BY <2>2
  <2>4. ASSUME NEW q \in Requests \ {r}, request'[q] \in Job PROVE Good(q)'
    <3>1. CASE Deploying(q)
      <4>1. Joined(q) /\ request[q] \in Job
        BY <1>0, <2>2, <3>1 DEF Deploying, RequestInv
      <4>2. Good(q)
        BY <1>0, <4>1
      <4> QED BY <4>1, <4>2 DEF Joined
    <3>2. CASE ~Deploying(q)
      BY <1>0, <2>2, <2>4, <3>2
    <3> QED BY <3>1, <3>2
  <2> QED BY <2>3, <2>4 DEF JobInv
<1>6. CASE \E r \in Requests : Written(r)
  <2>1. PICK r \in Requests :
           /\ Alone(r) /\ request[r] \in Job
           /\ request'[r] = Idle \/ (Moved(r, "onvif") /\ request[r].host # NoHost)
    BY <1>6, WrittenMoves DEF TypeInv
  <2>2. request'[r] \in Job => Good(r)'
    BY <1>0, <1>2, <2>1 DEF Moved
  <2> QED BY <1>1, <2>1, <2>2
<1>7. CASE \E r \in Requests : DeployMove(r)
  <2>1. PICK r \in Requests, label \in JobLabels \ {"save", "deploy", "onvif"} :
           /\ Alone(r) /\ request[r] \in Job
           /\ request[r].pc \notin {"save", "deploy"}
           /\ Moved(r, label)
    BY <1>7, DeployMoves DEF TypeInv
  <2>2. Good(r)'
    BY <1>0, <2>1 DEF Moved
  <2> QED BY <1>1, <2>1, <2>2
<1>8. CASE \E r \in Requests : Report(r)
  <2>1. PICK r \in Requests : Alone(r) /\ request'[r] = Idle
    BY <1>8, ReportMoves DEF TypeInv
  <2> QED BY <1>1, <1>2, <2>1
<1>9. CASE Restart
  <2>1. \A q \in Requests : request'[q] = Idle
    BY <1>9 DEF Restart
  <2> QED BY <1>2, <2>1 DEF JobInv
<1>10. CASE UNCHANGED setupVars
  BY <1>0, <1>10, SetupUnchanged DEF JobInv
<1> QED
  BY <1>3, <1>4, <1>5, <1>6, <1>7, <1>8, <1>9, <1>10, Steps

LEMMA TypeStep == TypeInv /\ [Next]_vars => TypeInv'
BY BoundStep, RequestStep, MuStep, DraftStep, ConfigStep, FileStep, JobStep, AuthStep
   DEF TypeInv

LEMMA TypeStart == Init => TypeInv
<1> SUFFICES ASSUME Init PROVE TypeInv
  OBVIOUS
<1>1. PICK s \in Scenarios : s = offered
  BY DEF Init
<1>2. /\ s.requests \in Nat /\ s.roots \subseteq BOOLEAN
      /\ s.tokens \subseteq {NoTokens, 0}
      /\ \A cfg \in s.configs \ {Absent} :
            cfg \in ConfigFile /\ cfg.cams # <<>> /\ Addressed(cfg.cams)
  BY ScenariosAssumption
<1>3. BoundInv
  BY <1>1, <1>2 DEF Init, BoundInv
<1>4. request = [r \in Requests |-> Idle] /\ mu = {}
  BY DEF Init
<1>5. RequestInv /\ MuInv
  BY <1>4 DEF RequestInv, MuInv, Idle
<1>6. JobInv
  <2>1. Idle \notin Job
    BY JobPC DEF Idle
  <2> QED BY <1>4, <2>1 DEF JobInv
<1>7. ConfigInv
  <2>1. config = Absent \/ config \in s.configs \ {Absent}
    BY <1>1 DEF Init
  <2> QED BY <1>2, <2>1, FilesAssumption DEF ConfigInv
<1>8. FileInv
  BY FilesAssumption DEF Init, FileInv, DraftFileOK, KeyFiles
<1>9. DraftInv
  <2> DEFINE d == FromConfig(config)
  <2>1. PICK host \in Detected : draft = [d EXCEPT !.host = host]
    BY DEF Init
  <2>2. DraftOK(d)
    BY <1>7, FromConfigOK
  <2>3. host \in Hosts \cup {NoHost}
    BY InputsAssumption
  <2>4. d \in Draft /\ OwnMAC(WithMAC(d.cams)) /\ (d.key # NoKey => d.hasKey)
    BY <2>2 DEF DraftOK
  <2> HIDE DEF d
  <2>5. /\ draft \in Draft /\ draft.cams = d.cams /\ draft.key = d.key
        /\ draft.hasKey = d.hasKey
    BY <2>1, <2>3, <2>4 DEF Draft
  <2> QED BY <2>4, <2>5 DEF DraftInv, DraftOK
<1>10. AuthInv
  BY CallsAssumption DEF Init, AuthInit, AuthInv, AuthTypeOK, NoCallback
<1> QED
  BY <1>3, <1>5, <1>6, <1>7, <1>8, <1>9, <1>10 DEF TypeInv

\* TypeOK: among the types, config.yaml as it is read back has cameras with
\* addresses of their own, and so has the draft, whatever was edited, cut off or
\* merged from the files at a start.
THEOREM SetupTypes == Spec => []TypeOK
<1>1. TypeInv => TypeOK
  <2> SUFFICES ASSUME TypeInv PROVE TypeOK
    OBVIOUS
  <2>1. AuthTypeOK /\ offered \in Scenarios /\ left \in 0 .. offered.requests
    BY DEF TypeInv, AuthInv, BoundInv
  <2>2. mu \subseteq Requests /\ \A r \in Requests :
          \/ request[r].pc \in {"idle", "persist"}
          \/ (request[r].pc \in {"save", "deploy"}) = (r \in mu)
    BY DEF TypeInv, MuInv
  <2>3. /\ Distinct(WithMAC(draft.cams), LAMBDA cam : CanonicalMAC(cam.mac))
        /\ draft.host \in Hosts \cup {NoHost} /\ draft.key \in Uploads \cup {NoKey}
        /\ draft.key # NoKey => draft.hasKey
    BY DEF TypeInv, DraftInv, DraftOK, Draft, OwnMAC
  <2>4. /\ {keyFile, deployedKey} \subseteq Uploads \cup {Absent, Empty}
        /\ deployEnv \in Hosts \cup {Absent, Empty}
    BY DEF TypeInv, FileInv, KeyFiles
  <2>5. Whole(config) => config.cams # <<>> /\ Addressed(config.cams)
    BY WholeFiles DEF TypeInv, ConfigInv
  <2> QED BY <2>1, <2>2, <2>3, <2>4, <2>5 DEF TypeOK
<1> QED
  BY <1>1, TypeStart, TypeStep, PTL DEF Spec

-----------------------------------------------------------------------------
(* What was entered is on disk *)

NotSaving == \A r \in Requests : request[r].pc # "persist"

\* NothingUnsaved, also while a request holds mu.
SavedInv ==
    touched /\ NotSaving =>
        /\ draftFile = DraftBody(draft)
        /\ draft.onvif = AnyEvents(draft.cams)
        /\ draft.key \in {NoKey, keyFile} \/ ~root

\* A request that saves goes on saving until it does.
LEMMA SavedStep == TypeInv /\ SavedInv /\ [Next]_vars => SavedInv'
<1> SUFFICES ASSUME TypeInv, SavedInv, [Next]_vars PROVE SavedInv'
  OBVIOUS
<1>0. RequestInv
  BY DEF TypeInv
<1>1. CASE UNCHANGED <<touched, draft, draftFile, keyFile, root>> /\ (NotSaving' => NotSaving)
  BY <1>1 DEF SavedInv, DraftBody
<1>2. CASE \E r \in Requests : Edit(r)
  <2>1. ~NotSaving'
    BY <1>2, EditMoves DEF TypeInv, NotSaving
  <2> QED BY <2>1 DEF SavedInv
<1>3. CASE \E r \in Requests : Persist(r)
  <2>1. PICK r \in Requests : Persist(r)
    BY <1>3
  <2>2. /\ draft' = [draft EXCEPT !.onvif = AnyEvents(draft.cams)]
        /\ draftFile' = DraftBody(draft') /\ root' = root
        /\ keyFile' = KeyAfter(draft')
    BY <2>1 DEF Persist, ToPersist, boundVars
  <2>3. draft \in Draft
    BY DEF TypeInv, DraftInv, DraftOK
  <2>4. draft'.onvif = AnyEvents(draft'.cams)
    BY <2>2, <2>3 DEF Draft
  <2>5. draft'.key \in {NoKey, keyFile'} \/ ~root'
    BY <2>2 DEF KeyAfter, KeyWritable
  <2> QED BY <2>2, <2>4, <2>5 DEF SavedInv
<1>4. CASE Restart
  BY <1>4 DEF Restart, SavedInv
<1>5. CASE \E r \in Requests, label \in {"save", "deploy"} :
              Begins(r, label) /\ Write(r, label)
  <2>1. PICK r \in Requests, label \in {"save", "deploy"} :
           Begins(r, label) /\ Write(r, label)
    BY <1>5
  <2>2. /\ request[r].pc = "idle"
        /\ \A q \in Requests \ {r} : Joined(q) \/ request'[q] = request[q]
    BY <2>1, WriteMoves DEF TypeInv, Begins
  <2>3. NotSaving' => NotSaving
    BY <2>2 DEF NotSaving, Joined
  <2>4. UNCHANGED <<touched, draft, draftFile, keyFile, root>>
    BY <2>1 DEF Write, draftVars
  <2> QED BY <1>1, <2>3, <2>4
<1>6. ASSUME NEW r \in Requests, Alone(r), request[r] \in Job
      PROVE  NotSaving' => NotSaving
  BY <1>6, JobPC DEF Alone, NotSaving
<1>7. ASSUME NEW r \in Requests, Written(r) \/ DeployMove(r) \/ Report(r)
      PROVE  UNCHANGED <<touched, draft, draftFile, keyFile, root>> /\ (NotSaving' => NotSaving)
  <2>1. CASE Written(r)
    <3>1. UNCHANGED <<touched, draft, draftFile, keyFile, root>>
      BY <2>1 DEF Written, draftVars, boundVars
    <3> QED BY <1>0, <1>6, <2>1, <3>1, WrittenMoves
  <2>2. CASE DeployMove(r)
    <3>1. UNCHANGED <<touched, draft, draftFile, keyFile, root>>
      BY <1>0, <2>2, DeployMoves DEF draftVars, boundVars
    <3> QED BY <1>0, <1>6, <2>2, <3>1, DeployMoves
  <2>3. CASE Report(r)
    <3>1. UNCHANGED <<touched, draft, draftFile, keyFile, root>>
      BY <2>3 DEF Report, draftVars, boundVars
    <3> QED BY <1>0, <1>6, <2>3, <3>1, ReportMoves
  <2> QED BY <1>7, <2>1, <2>2, <2>3
<1>8. CASE UNCHANGED setupVars
  BY <1>1, <1>8, SetupUnchanged DEF NotSaving
<1> QED
  BY <1>1, <1>2, <1>3, <1>4, <1>5, <1>7, <1>8, Steps

\* NothingUnsaved: whichever request saved last, the draft is on disk.
THEOREM SavedCorrect == Spec => []NothingUnsaved
<1>1. Init => SavedInv
  BY DEF Init, SavedInv
<1>2. SavedInv => NothingUnsaved
  BY DEF SavedInv, NothingUnsaved, NotSaving
<1> QED
  BY <1>1, <1>2, TypeStart, TypeStep, SavedStep, PTL DEF Spec

\* The steps of a start after the draft file has been merged.
Restored(d, w, kf, env, dk) == WithExistingKey(WithEnv(WithKeyFile(d, w, kf), env), kf, dk)

\* What they leave of the sections of d in e.
LeftAs(d, w, kf, e) ==
    /\ e.google = d.google /\ e.sub = d.sub /\ e.cams = d.cams
    /\ d.host # NoHost => e.host = d.host
    /\ w.hasKey /\ kf \in Uploads => e.key = kf

LEMMA StartKeeps ==
    ASSUME NEW d, DraftOK(d), d.key = NoKey, d.hasKey = FALSE, NEW w,
           NEW kf \in KeyFiles, NEW env \in Hosts \cup {Absent, Empty}, NEW dk
    PROVE  LeftAs(d, w, kf, Restored(d, w, kf, env, dk))
<1> DEFINE d2 == WithKeyFile(d, w, kf)
           d3 == WithEnv(d2, env)
           e == Restored(d, w, kf, env, dk)
           Same(x, y) == x.google = y.google /\ x.sub = y.sub /\ x.cams = y.cams
<1>1. d \in Draft
  BY DEF DraftOK
<1>2. /\ d2 \in Draft /\ Same(d2, d) /\ d2.host = d.host
      /\ w.hasKey /\ kf \in Uploads => d2.hasKey /\ d2.key = kf
  <2>1. d2 \in Draft
    BY WithKeyFileOK DEF DraftOK
  <2>2. Same(d2, d) /\ d2.host = d.host
    BY <1>1 DEF WithKeyFile, Draft
  <2>3. ASSUME w.hasKey, kf \in Uploads PROVE d2.hasKey /\ d2.key = kf
    <3>1. Whole(kf) /\ kf # Absent
      BY <2>3, WholeFiles, FilesAssumption
    <3>2. d2 = [d EXCEPT !.hasKey = TRUE, !.key = kf]
      BY <2>3, <3>1 DEF WithKeyFile
    <3> QED BY <1>1, <3>2 DEF Draft
  <2> QED BY <2>1, <2>2, <2>3
<1> HIDE DEF d2
<1>3. /\ d3 \in Draft /\ Same(d3, d2) /\ (d2.host # NoHost => d3.host = d2.host)
      /\ d3.key = d2.key /\ d3.hasKey = d2.hasKey
  <2>1. CASE d2.host = NoHost /\ Whole(env)
    <3>1. env \in Hosts
      BY <2>1, WholeFiles
    <3>2. d3 = [d2 EXCEPT !.host = env]
      BY <2>1 DEF WithEnv
    <3> QED BY <1>2, <2>1, <3>1, <3>2 DEF Draft
  <2>2. CASE ~(d2.host = NoHost /\ Whole(env))
    BY <1>2, <2>2 DEF WithEnv
  <2> QED BY <2>1, <2>2
<1>6. e = WithExistingKey(d3, kf, dk)
  BY DEF Restored, d2
<1> HIDE DEF d3, e
<1>4. Same(e, d3) /\ e.host = d3.host
  BY <1>3, <1>6 DEF WithExistingKey, Draft
<1>5. ASSUME w.hasKey, kf \in Uploads PROVE e.key = kf
  <2>1. d3.hasKey /\ d3.key = kf /\ kf # NoKey
    BY <1>2, <1>3, <1>5, FilesAssumption
  <2>2. e = d3
    BY <1>6, <2>1 DEF WithExistingKey
  <2> QED BY <2>1, <2>2
<1> QED
  BY <1>2, <1>3, <1>4, <1>5 DEF e, LeftAs

\* What a start makes of a draft file that was written from a draft.
LEMMA LoadedKeeps ==
    ASSUME TypeInv, SavedInv, touched, NotSaving
    PROVE  LET e == Loaded(draftFile, keyFile)
           IN  e \in Draft /\ Kept(draft, e)
<1> DEFINE d0 == FromConfig(config)
           w == DraftBody(draft)
           d1 == Merged(d0, w)
           e4 == Restored(d1, w, keyFile, deployEnv, deployedKey)
           e == Loaded(draftFile, keyFile)
<1>1. /\ draftFile = w /\ w \in DraftFile /\ Whole(w)
  <2>1. DraftOK(draft)
    BY DEF TypeInv, DraftInv, DraftOK
  <2>2. w \in DraftFile
    BY <2>1, BodyOK
  <2> HIDE DEF w
  <2> QED BY <2>2, WholeFiles DEF SavedInv, w
<1>2. draft \in Draft /\ (draft.key # NoKey => draft.hasKey)
  BY DEF TypeInv, DraftInv, DraftOK
<1>3. /\ w.google = draft.google /\ w.sub = draft.sub /\ w.onvif = draft.onvif
      /\ w.host = draft.host /\ w.cams = draft.cams /\ w.hasKey = draft.hasKey
  BY DEF DraftBody
<1>4. ConfigInv /\ FileInv
  BY DEF TypeInv
<1>5. /\ DraftOK(d0) /\ d0.key = NoKey /\ d0.hasKey = FALSE
  BY <1>4, FromConfigOK
<1>7. Remembered(draftFile) = w
  <2> HIDE DEF w
  <2> QED BY <1>1 DEF Remembered
<1> HIDE DEF w, d0
<1>8. DraftOK(d1) /\ d1.key = NoKey /\ d1.hasKey = FALSE
  <2>1. DraftFileOK(draftFile)
    BY <1>4 DEF FileInv
  <2>2. LET x == Merged(d0, Remembered(draftFile))
        IN  DraftOK(x) /\ x.key = d0.key /\ x.hasKey = d0.hasKey
    BY <1>5, <2>1, MergedOK
  <2> QED BY <1>5, <1>7, <2>2
<1>9. /\ d1.google = draft.google \/ ~Named(draft.google)
      /\ d1.sub = draft.sub \/ (draft.sub = NoSub /\ ~draft.onvif)
      /\ d1.host = draft.host \/ draft.host = NoHost
      /\ d1.cams = draft.cams \/ draft.cams = <<>>
  <2>1. d0 \in Draft
    BY <1>5 DEF DraftOK
  <2>2. /\ Named(w.google) => d1.google = w.google
        /\ w.sub # NoSub \/ w.onvif => d1.sub = w.sub
        /\ w.host # NoHost => d1.host = w.host
        /\ w.cams # <<>> => d1.cams = w.cams
    BY <2>1 DEF Merged, Draft
  <2> HIDE DEF d1
  <2> QED BY <1>3, <2>2
<1> HIDE DEF d1
<1>10. /\ keyFile \in KeyFiles /\ deployEnv \in Hosts \cup {Absent, Empty}
  BY <1>4 DEF FileInv
<1>11. /\ e4.google = d1.google /\ e4.sub = d1.sub /\ e4.cams = d1.cams
       /\ d1.host # NoHost => e4.host = d1.host
       /\ w.hasKey /\ keyFile \in Uploads => e4.key = keyFile
  <2>1. LeftAs(d1, w, keyFile, e4)
    BY <1>8, <1>10, StartKeeps
  <2> HIDE DEF e4
  <2> QED BY <2>1 DEF LeftAs
<1>12. e = [e4 EXCEPT !.onvif = AnyEvents(e4.cams)]
  <2>1. draftFile # Absent
    BY <1>1 DEF Whole
  <2>2. Whole(draftFile) /\ draftFile = w
    BY <1>1
  <2> QED BY <2>1, <2>2 DEF Loaded, Restored, d1, d0
<1>13. e4 \in Draft
  <2>1. DraftOK(WithKeyFile(d1, w, keyFile))
    BY <1>8, <1>10, WithKeyFileOK
  <2>2. DraftOK(WithEnv(WithKeyFile(d1, w, keyFile), deployEnv))
    BY <1>10, <2>1, WithEnvOK
  <2> DEFINE d3 == WithEnv(WithKeyFile(d1, w, keyFile), deployEnv)
             cut == TRUE
  <2>3. DraftOK(WithExistingKey(d3, keyFile, deployedKey))
    <3>1. DraftOK(d3) /\ cut \in BOOLEAN /\ (d3.hasKey => d3.key \in Uploads \/ cut)
      BY <2>2
    <3> HIDE DEF d3, cut
    <3> QED BY <3>1, WithExistingKeyOK
  <2>4. DraftOK(e4)
    BY <2>3 DEF Restored
  <2> QED BY <2>4 DEF DraftOK
<1> HIDE DEF e4
<1>14. AnyEvents(e4.cams) \in BOOLEAN
  BY DEF AnyEvents
<1> HIDE DEF e
<1>15. /\ e \in Draft /\ e.google = e4.google /\ e.sub = e4.sub /\ e.host = e4.host
       /\ e.cams = e4.cams /\ e.key = e4.key
  BY <1>12, <1>13, <1>14 DEF Draft
<1>16. e.key = draft.key \/ draft.key = NoKey \/ ~root
  <2>1. CASE draft.key # NoKey /\ root
    <3>1. draft.key = keyFile /\ draft.key \in Uploads /\ draft.hasKey
      BY <1>2, <2>1 DEF SavedInv, Draft
    <3> QED BY <1>3, <1>11, <1>15, <3>1
  <2> QED BY <2>1
<1>17. e.host = draft.host \/ draft.host = NoHost
  BY <1>9, <1>11, <1>15
<1>18. Kept(draft, e)
  BY <1>9, <1>11, <1>15, <1>16, <1>17 DEF Kept
<1> QED
  BY <1>15, <1>18 DEF e

\* RestartKeeps: a wizard that is started again shows what was entered last.
THEOREM RestartCorrect == Spec => RestartKeeps
<1> DEFINE Step1 == touched /\ ~touched' /\ NotSaving => Kept(draft, draft')
<1>1. ASSUME TypeInv, SavedInv, [Next]_vars PROVE Step1
  <2> SUFFICES ASSUME touched, ~touched', NotSaving PROVE Kept(draft, draft')
    OBVIOUS
  <2>1. Restart
    <3>1. ASSUME NEW r \in Requests,
                 \/ Edit(r) \/ Persist(r) \/ Written(r) \/ DeployMove(r) \/ Report(r)
                 \/ \E label \in {"save", "deploy"} : Begins(r, label) /\ Write(r, label)
          PROVE  FALSE
      <4>0. RequestInv /\ DraftInv
        BY <1>1 DEF TypeInv
      <4>1. CASE Edit(r)
        <5>1. touched'
          BY <4>0, <4>1, EditMoves
        <5> QED BY <5>1
      <4>2. CASE DeployMove(r)
        <5>1. touched' = touched
          BY <4>0, <4>2, DeployMoves
        <5> QED BY <5>1
      <4> QED BY <3>1, <4>1, <4>2 DEF Persist, Written, Report, Write
    <3> QED BY <1>1, <3>1, Steps, SetupUnchanged
  <2> DEFINE e == Loaded(draftFile, keyFile)
  <2>2. PICK found \in Detected :
           draft' = [e EXCEPT !.host = IF e.host = NoHost THEN found ELSE e.host]
    BY <1>1, <2>1, RestartMoves DEF NotSaving
  <2>3. e \in Draft /\ Kept(draft, e)
    BY <1>1, LoadedKeeps
  <2> HIDE DEF e
  <2>4. /\ draft'.google = e.google /\ draft'.sub = e.sub /\ draft'.cams = e.cams
        /\ draft'.key = e.key /\ (e.host # NoHost => draft'.host = e.host)
    BY <2>2, <2>3 DEF Draft
  <2> QED BY <2>3, <2>4 DEF Kept
<1>2. Init => SavedInv
  BY DEF Init, SavedInv
<1>3. TypeInv /\ SavedInv /\ [Next]_vars =>
         [touched /\ ~touched' /\ (\A r \in Requests : request[r].pc # "persist") =>
             Kept(draft, draft')]_vars
  BY <1>1 DEF NotSaving
<1> QED
  BY <1>2, <1>3, TypeStart, TypeStep, SavedStep, PTL
     DEF Spec, RestartKeeps

-----------------------------------------------------------------------------
(* What is deployed *)

\* A draft that has a key has an upload, unless a key file was cut off; so has a
\* job for event cameras, unless it took an events switch not yet put right.
KeyInv ==
    /\ draft.hasKey => draft.key \in Uploads \/ keyCut
    /\ keyFile = Empty => keyCut
    /\ \A r \in Requests : request[r] \in Job =>
          (AnyEvents(request[r].cfg.cams) /\ request[r].settled =>
              request[r].onvif /\ (request[r].key \in Uploads \/ keyCut))

LEMMA KeyStep == TypeInv /\ KeyInv /\ [Next]_vars => KeyInv'
<1> SUFFICES ASSUME TypeInv, KeyInv, [Next]_vars PROVE KeyInv'
  OBVIOUS
<1> DEFINE Has == draft.hasKey => draft.key \in Uploads \/ keyCut
           File == keyFile = Empty => keyCut
           Good(q) == AnyEvents(request[q].cfg.cams) /\ request[q].settled =>
                         request[q].onvif /\ (request[q].key \in Uploads \/ keyCut)
<1>0. Has /\ File /\ RequestInv /\ \A q \in Requests : request[q] \in Job => Good(q)
  BY DEF TypeInv, KeyInv
<1>1. ASSUME Has', File', \A q \in Requests : request'[q] \in Job => Good(q)'
      PROVE  KeyInv'
  BY <1>1 DEF KeyInv
<1>2. ASSUME NEW r \in Requests, Alone(r), keyCut' = keyCut, request'[r] \in Job => Good(r)'
      PROVE  \A q \in Requests : request'[q] \in Job => Good(q)'
  BY <1>0, <1>2 DEF Alone
<1>3. Idle \notin Job /\ \A x : x.pc \in {"idle", "persist"} => x \notin Job
  BY JobPC DEF Idle
<1>4. CASE \E r \in Requests : Edit(r)
  <2>1. PICK r \in Requests :
           /\ Alone(r) /\ request'[r].pc = "persist" /\ keyCut' = keyCut
           /\ keyFile' = keyFile
           /\ draft'.hasKey => draft'.key \in Uploads \/ (draft.hasKey /\ draft'.key = draft.key)
    BY <1>4, EditMoves DEF TypeInv, draftVars
  <2>2. Has' /\ File'
    BY <1>0, <2>1
  <2>3. \A q \in Requests : request'[q] \in Job => Good(q)'
    BY <1>2, <1>3, <2>1
  <2> QED BY <1>1, <2>2, <2>3
<1>5. CASE \E r \in Requests : Persist(r)
  <2>1. PICK r \in Requests : Persist(r)
    BY <1>5
  <2>2. keyCut' = keyCut
    BY <2>1 DEF Persist
  <2>3. /\ Alone(r) /\ request'[r] = Idle /\ draft'.key = draft.key
        /\ draft'.hasKey = draft.hasKey /\ (keyFile' = Empty => keyFile = Empty)
    BY <2>1, PersistMoves DEF TypeInv
  <2>4. Has' /\ File'
    BY <1>0, <2>2, <2>3
  <2>5. \A q \in Requests : request'[q] \in Job => Good(q)'
    BY <1>2, <1>3, <2>2, <2>3
  <2> QED BY <1>1, <2>4, <2>5
<1>6. CASE \E r \in Requests, label \in {"save", "deploy"} :
              Begins(r, label) /\ Write(r, label)
  <2>1. PICK r \in Requests, label \in {"save", "deploy"} : Write(r, label)
    BY <1>6
  <2>2. UNCHANGED <<draft, keyFile, keyCut>> /\ ValidDraft(draft)
    BY <2>1 DEF Write, draftVars
  <2>3. Has' /\ File'
    BY <1>0, <2>2
  <2>4. /\ request'[r].cfg = ToFile(draft)
        /\ request'[r].onvif = draft.onvif /\ request'[r].key = draft.key
        /\ request'[r].settled = (draft.onvif = AnyEvents(draft.cams))
        /\ \A q \in Requests \ {r} :
              IF Deploying(q) THEN Joined(q) ELSE request'[q] = request[q]
        /\ AnyEvents(ToFile(draft).cams) <=> AnyEvents(draft.cams)
    BY <2>1, WriteMoves DEF TypeInv
  <2>5. draft.cams \in Seq(Camera) /\ draft.onvif \in BOOLEAN
    BY DEF TypeInv, DraftInv, DraftOK, Draft
  <2>6. AnyEvents(draft.cams) => draft.hasKey
    BY <2>2, <2>5, SelectedCameras DEF ValidDraft
  <2>7. Good(r)'
    <3>1. ASSUME AnyEvents(draft.cams), draft.onvif = AnyEvents(draft.cams)
          PROVE  draft.onvif /\ (draft.key \in Uploads \/ keyCut)
      BY <1>0, <2>6, <3>1
    <3> QED BY <2>2, <2>4, <3>1
  <2>8. ASSUME NEW q \in Requests \ {r}, request'[q] \in Job PROVE Good(q)'
    <3>1. CASE Deploying(q)
      <4>1. Joined(q) /\ request[q] \in Job
        BY <1>0, <2>4, <3>1 DEF Deploying, RequestInv
      <4>2. Good(q)
        BY <1>0, <4>1
      <4> QED BY <2>2, <4>1, <4>2 DEF Joined
    <3>2. CASE ~Deploying(q)
      BY <1>0, <2>2, <2>4, <2>8, <3>2
    <3> QED BY <3>1, <3>2
  <2> QED BY <1>1, <2>3, <2>7, <2>8
<1>7. ASSUME NEW r \in Requests, Alone(r), UNCHANGED <<draft, keyFile, keyCut>>,
             \/ request'[r] = Idle
             \/ request[r] \in Job /\ \E label : Moved(r, label)
      PROVE  KeyInv'
  <2>1. Has' /\ File'
    BY <1>0, <1>7
  <2>2. request'[r] \in Job => Good(r)'
    BY <1>0, <1>3, <1>7 DEF Moved
  <2>3. \A q \in Requests : request'[q] \in Job => Good(q)'
    BY <1>2, <1>7, <2>2
  <2> QED BY <1>1, <2>1, <2>3
<1>8. CASE \E r \in Requests : Written(r)
  <2>1. PICK r \in Requests : Written(r)
    BY <1>8
  <2>2. UNCHANGED <<draft, keyFile, keyCut>>
    BY <2>1 DEF Written, draftVars
  <2>3. /\ Alone(r) /\ request[r] \in Job /\ (request'[r] = Idle \/ Moved(r, "onvif"))
    BY <1>0, <2>1, WrittenMoves
  <2> QED BY <1>7, <2>2, <2>3
<1>9. CASE \E r \in Requests : DeployMove(r)
  <2>1. PICK r \in Requests : DeployMove(r)
    BY <1>9
  <2>2. /\ UNCHANGED <<draft, keyFile, keyCut>> /\ Alone(r) /\ request[r] \in Job
        /\ \E label : Moved(r, label)
    BY <1>0, <2>1, DeployMoves DEF draftVars
  <2> QED BY <1>7, <2>2
<1>10. CASE \E r \in Requests : Report(r)
  <2>1. PICK r \in Requests : Report(r)
    BY <1>10
  <2>2. UNCHANGED <<draft, keyFile, keyCut>>
    BY <2>1 DEF Report, draftVars
  <2>3. Alone(r) /\ request'[r] = Idle
    BY <1>0, <2>1, ReportMoves
  <2> QED BY <1>7, <2>2, <2>3
<1>11. CASE Restart
  <2>1. /\ draft'.hasKey => draft'.key \in Uploads \/ keyFile' = Empty
        /\ keyCut' = (keyCut \/ (keyFile' = Empty /\ keyFile # Empty))
        /\ \A r \in Requests : request'[r] = Idle
    BY <1>11, RestartMoves
  <2>2. File'
    BY <1>0, <2>1
  <2>3. Has'
    BY <2>1, <2>2
  <2>4. \A q \in Requests : request'[q] \in Job => Good(q)'
    BY <1>3, <2>1
  <2> QED BY <1>1, <2>2, <2>3, <2>4
<1>12. CASE UNCHANGED setupVars
  <2>1. UNCHANGED <<request, draft, keyFile, keyCut>>
    BY <1>12, SetupUnchanged
  <2> QED BY <1>0, <1>1, <2>1
<1> QED
  BY <1>4, <1>5, <1>6, <1>8, <1>9, <1>10, <1>11, <1>12, Steps

LEMMA KeyStart == Init => KeyInv
<1> SUFFICES ASSUME Init PROVE KeyInv
  OBVIOUS
<1> DEFINE d == FromConfig(config)
<1>1. PICK host \in Detected : draft = [d EXCEPT !.host = host]
  BY DEF Init
<1>2. DraftOK(d) /\ d.hasKey = FALSE
  BY TypeStart, FromConfigOK DEF TypeInv
<1> HIDE DEF d
<1>3. draft.hasKey = FALSE
  BY <1>1, <1>2 DEF DraftOK, Draft
<1>4. keyFile # Empty
  BY FilesAssumption DEF Init
<1>5. \A r \in Requests : request[r] \notin Job
  BY JobPC DEF Init, Idle
<1> QED
  BY <1>3, <1>4, <1>5 DEF KeyInv

\* The compose file binds the placeholder or a host it was patched for, unless
\* it was cut off.
Bindings == Hosts \cup {Placeholder, Loopback}

ComposeInv ==
    /\ compose \in Seq(Bindings)
    /\ patchedFor \subseteq Hosts
    /\ \/ compose = <<>> \/ Placeholder \in Range(compose)
       \/ patchedFor \cap Range(compose) # {}

\* A file that is not cut off can be patched for the one host it was ever
\* patched for; one that is cut off cannot be patched at all.
LEMMA PatchFails ==
    ASSUME ComposeInv, NEW host \in Hosts
    PROVE  /\ ~Patchable(compose, host) => compose = <<>> \/ patchedFor \ {host} # {}
           /\ Patchable(compose, host) =>
                 /\ Patched(compose, host) \in Seq(Bindings)
                 /\ host \in Range(Patched(compose, host))
                 /\ compose # <<>>
<1>1. /\ Loopback \in Bindings /\ host \in Bindings /\ compose \in Seq(Bindings)
  BY DEF Bindings, ComposeInv
<1>2. /\ Patchable(compose, host) <=> {Placeholder, host} \cap Range(compose) # {}
      /\ Patchable(compose, host) =>
            Patched(compose, host) \in Seq(Bindings) /\ host \in Range(Patched(compose, host))
  BY <1>1, PatchedBindings
<1>3. Range(<<>>) = {}
  BY DEF Range
<1> QED
  BY <1>2, <1>3 DEF ComposeInv

\* Only PatchCompose and a restart change the compose file.
LEMMA ComposeChanges ==
    ASSUME TypeInv, [Next]_vars
    PROVE  \/ UNCHANGED <<compose, patchedFor>>
           \/ \E r \in Requests : PatchCompose(r) /\ request[r].host \in Hosts
           \/ Restart
<1>1. ASSUME NEW r \in Requests,
             \/ Edit(r) \/ Persist(r) \/ Written(r) \/ Report(r)
             \/ \E label \in {"save", "deploy"} : Begins(r, label) /\ Write(r, label)
      PROVE  UNCHANGED <<compose, patchedFor>>
  <2>1. CASE Edit(r)
    BY <2>1, EditMoves DEF TypeInv, deployVars
  <2> QED BY <1>1, <2>1 DEF Persist, Written, Report, Write, deployVars
<1>2. ASSUME NEW r \in Requests, DeployMove(r)
      PROVE  UNCHANGED <<compose, patchedFor>> \/ (PatchCompose(r) /\ request[r].host \in Hosts)
  <2>1. request[r] \in Job /\ request[r].pc \notin {"save", "deploy"}
    BY <1>2, DeployMoves DEF TypeInv
  <2>2. request[r].host \in Hosts
    BY <2>1 DEF TypeInv, JobInv, Job
  <2> QED BY <1>2, <2>2 DEF DeployMove, GenerateOnvif, GenerateMediamtx, InstallConfig,
                            InstallKey, BringUp, deployVars
<1> QED
  BY <1>1, <1>2, Steps, SetupUnchanged

LEMMA ComposeStep == TypeInv /\ ComposeInv /\ [Next]_vars => ComposeInv'
<1> SUFFICES ASSUME TypeInv, ComposeInv, [Next]_vars PROVE ComposeInv'
  OBVIOUS
<1>1. CASE UNCHANGED <<compose, patchedFor>>
  BY <1>1 DEF ComposeInv
<1>2. CASE \E r \in Requests : PatchCompose(r) /\ request[r].host \in Hosts
  <2>1. PICK r \in Requests : PatchCompose(r) /\ request[r].host \in Hosts
    BY <1>2
  <2> DEFINE host == request[r].host
  <2>2. CASE Patchable(compose, host)
    <3>1. compose' = Patched(compose, host) /\ patchedFor' = patchedFor \cup {host}
      BY <2>1, <2>2 DEF PatchCompose
    <3>2. Patched(compose, host) \in Seq(Bindings) /\ host \in Range(Patched(compose, host))
      BY <2>1, <2>2, PatchFails
    <3> QED BY <2>1, <3>1, <3>2 DEF ComposeInv
  <2>3. CASE ~Patchable(compose, host)
    BY <1>1, <2>1, <2>3 DEF PatchCompose
  <2> QED BY <2>2, <2>3
<1>3. CASE Restart
  <2>1. compose' \in {compose, <<>>} /\ patchedFor' = patchedFor
    BY <1>3 DEF Restart, Cut
  <2>2. CASE compose' = compose
    BY <1>1, <2>1, <2>2
  <2>3. CASE compose' = <<>>
    <3>1. <<>> \in Seq(Bindings)
      OBVIOUS
    <3> QED BY <2>1, <2>3, <3>1 DEF ComposeInv
  <2> QED BY <2>1, <2>2, <2>3
<1> QED
  BY <1>1, <1>2, <1>3, ComposeChanges

LEMMA ComposeStart == Init => ComposeInv
<1> SUFFICES ASSUME Init PROVE ComposeInv
  OBVIOUS
<1>1. /\ compose \in Seq(Hosts \cup {Placeholder, Loopback})
      /\ Range(compose) \cap (Hosts \cup {Placeholder}) # {}
      /\ patchedFor = Hosts \cap Range(compose)
  BY ScenariosAssumption DEF Init
<1> QED
  BY <1>1 DEF ComposeInv, Bindings

\* A deployment that nothing overlapped: no other one is under way and no save
\* writes, so that config.yaml is its own, and so are the files made from it.
Fits(r) ==
    LET pc == request[r].pc
        cfg == request[r].cfg
    IN  /\ \A q \in Requests \ {r} : ~Deploying(q) /\ request[q].pc # "save"
        /\ pc # "deploy" => config = cfg
        /\ pc \notin {"deploy", "onvif"} => onvifYml = OnvifDoc(cfg)
        /\ pc \notin {"deploy", "onvif", "mediamtx"} => mediamtxYml = MediaPaths(cfg)
        /\ pc \in {"key", "up", "done"} => deployed = cfg
        /\ pc \in {"up", "done"} => deployedKey = KeyToInstall(r)

DeployInv == \A r \in Requests : Deploying(r) /\ request[r].alone => Fits(r)

\* A step of r's deployment, seen from r.
LEMMA FitsMoves ==
    ASSUME RequestInv, NEW r \in Requests, DeployMove(r), request[r].alone, Fits(r),
           Deploying(r)'
    PROVE  Fits(r)'
<1>0. /\ Alone(r) /\ request[r] \in Job /\ config' = config
  BY DeployMoves
<1>1. \A q \in Requests \ {r} : ~Deploying(q)' /\ request'[q].pc # "save"
  BY <1>0 DEF Alone, Fits, Deploying
<1>2. ASSUME NEW label \in {"mediamtx", "compose", "config", "key", "up", "done"},
             NEW ok, Proceed(r, label, ok)
      PROVE  ok /\ Moved(r, label)
  <2>1. label \in JobLabels
    BY DEF JobLabels
  <2>2. ~ok => request'[r].pc = "failed"
    BY <1>0, <1>2, <2>1, ProceedMoves DEF Moved
  <2>3. ok => Moved(r, label)
    BY <1>0, <1>2, <2>1, ProceedMoves
  <2> QED BY <2>2, <2>3 DEF Deploying
<1>3. ASSUME NEW label, Moved(r, label)
      PROVE  /\ request'[r].cfg = request[r].cfg /\ request'[r].pc = label
             /\ KeyToInstall(r)' = KeyToInstall(r)
  BY <1>3 DEF Moved, KeyToInstall
<1>4. CASE GenerateOnvif(r)
  <2>1. CanGenerate /\ Moved(r, "mediamtx")
    BY <1>2, <1>4 DEF GenerateOnvif
  <2>2. onvifYml' = OnvifDoc(config) /\ config = request[r].cfg
    BY <1>4, <2>1 DEF GenerateOnvif, Fits
  <2> QED BY <1>0, <1>1, <1>3, <2>1, <2>2 DEF Fits
<1>5. CASE GenerateMediamtx(r)
  <2>1. CanGenerate /\ Moved(r, "compose")
    BY <1>2, <1>5 DEF GenerateMediamtx
  <2>2. /\ mediamtxYml' = MediaPaths(config) /\ config = request[r].cfg
        /\ onvifYml' = onvifYml /\ onvifYml = OnvifDoc(request[r].cfg)
    BY <1>5, <2>1 DEF GenerateMediamtx, Fits
  <2> QED BY <1>0, <1>1, <1>3, <2>1, <2>2 DEF Fits
<1>6. CASE PatchCompose(r)
  <2>1. Moved(r, "config")
    BY <1>2, <1>6 DEF PatchCompose
  <2>2. /\ config = request[r].cfg /\ UNCHANGED <<onvifYml, mediamtxYml>>
        /\ onvifYml = OnvifDoc(request[r].cfg) /\ mediamtxYml = MediaPaths(request[r].cfg)
    BY <1>6 DEF PatchCompose, Fits
  <2> QED BY <1>0, <1>1, <1>3, <2>1, <2>2 DEF Fits
<1>7. CASE InstallConfig(r)
  <2>1. Moved(r, "key")
    BY <1>2, <1>7 DEF InstallConfig
  <2>2. /\ config = request[r].cfg /\ UNCHANGED <<onvifYml, mediamtxYml>>
        /\ onvifYml = OnvifDoc(request[r].cfg) /\ mediamtxYml = MediaPaths(request[r].cfg)
        /\ deployed' = config
    BY <1>7 DEF InstallConfig, Fits
  <2> QED BY <1>0, <1>1, <1>3, <2>1, <2>2 DEF Fits
<1>8. CASE InstallKey(r)
  <2> DEFINE ok == root \/ deployedKey = Absent
  <2>1. ok /\ Moved(r, "up")
    <3>1. Proceed(r, "up", ok)
      BY <1>8 DEF InstallKey
    <3> HIDE DEF ok
    <3> QED BY <1>2, <3>1
  <2>2. /\ config = request[r].cfg /\ UNCHANGED <<onvifYml, mediamtxYml, deployed>>
        /\ onvifYml = OnvifDoc(request[r].cfg) /\ mediamtxYml = MediaPaths(request[r].cfg)
        /\ deployed = request[r].cfg /\ deployedKey' = KeyToInstall(r)
    BY <1>8, <2>1 DEF InstallKey, Fits
  <2> QED BY <1>0, <1>1, <1>3, <2>1, <2>2 DEF Fits
<1>9. CASE BringUp(r)
  <2>1. Moved(r, "done")
    BY <1>2, <1>9 DEF BringUp
  <2>2. /\ config = request[r].cfg
        /\ UNCHANGED <<onvifYml, mediamtxYml, deployed, deployedKey>>
        /\ onvifYml = OnvifDoc(request[r].cfg) /\ mediamtxYml = MediaPaths(request[r].cfg)
        /\ deployed = request[r].cfg /\ deployedKey = KeyToInstall(r)
    BY <1>9 DEF BringUp, Fits, deployVars
  <2> QED BY <1>0, <1>1, <1>3, <2>1, <2>2 DEF Fits
<1> QED
  BY <1>4, <1>5, <1>6, <1>7, <1>8, <1>9 DEF DeployMove

\* What leaves r's deployment as it was.
LEMMA FitsKept ==
    ASSUME NEW r \in Requests, Fits(r), request'[r] = request[r],
           UNCHANGED <<config, onvifYml, mediamtxYml, deployed, deployedKey>>,
           \A q \in Requests \ {r} :
              request'[q] = request[q] \/ (~Deploying(q)' /\ request'[q].pc # "save")
    PROVE  Fits(r)'
<1>1. \A q \in Requests \ {r} : ~Deploying(q)' /\ request'[q].pc # "save"
  BY DEF Fits, Deploying
<1> QED
  BY <1>1 DEF Fits, KeyToInstall

LEMMA DeployInvStep == TypeInv /\ DeployInv /\ [Next]_vars => DeployInv'
<1> SUFFICES ASSUME TypeInv, DeployInv, [Next]_vars PROVE DeployInv'
  OBVIOUS
<1>0. RequestInv /\ DraftInv
  BY DEF TypeInv
<1>1. SUFFICES ASSUME NEW r \in Requests, Deploying(r)', request'[r].alone PROVE Fits(r)'
  BY DEF DeployInv
<1>2. \A q \in Requests :
         request[q].pc = request'[q].pc => (Deploying(q) <=> Deploying(q)')
  BY DEF Deploying
<1>3. ASSUME request[r] = request'[r] PROVE Fits(r)
  BY <1>1, <1>2, <1>3 DEF DeployInv
<1>4. ASSUME NEW q \in Requests, Alone(q), request'[q].pc \in {"idle", "persist"},
             UNCHANGED <<config, onvifYml, mediamtxYml, deployed, deployedKey>>
      PROVE  Fits(r)'
  <2>1. r # q
    BY <1>1, <1>4 DEF Deploying
  <2>2. request'[r] = request[r]
    BY <1>4, <2>1 DEF Alone
  <2>3. ~Deploying(q)' /\ request'[q].pc # "save"
    BY <1>4 DEF Deploying
  <2> QED BY <1>3, <1>4, <2>2, <2>3, FitsKept DEF Alone
<1>5. CASE \E q \in Requests : Edit(q)
  <2>1. PICK q \in Requests : Edit(q)
    BY <1>5
  <2>2. /\ Alone(q) /\ request'[q].pc = "persist"
        /\ UNCHANGED <<config, onvifYml, mediamtxYml, deployed, deployedKey>>
    BY <1>0, <2>1, EditMoves DEF deployVars
  <2> QED BY <1>4, <2>2
<1>6. CASE \E q \in Requests : Persist(q)
  <2>1. PICK q \in Requests : Persist(q)
    BY <1>6
  <2>2. Alone(q) /\ request'[q].pc = "idle"
    BY <2>1, PersistMoves DEF TypeInv, Idle
  <2>3. UNCHANGED <<config, onvifYml, mediamtxYml, deployed, deployedKey>>
    BY <2>1 DEF Persist, deployVars
  <2> QED BY <1>4, <2>2, <2>3
<1>7. CASE \E q \in Requests, label \in {"save", "deploy"} :
              Begins(q, label) /\ Write(q, label)
  <2>1. PICK q \in Requests, label \in {"save", "deploy"} : Write(q, label)
    BY <1>7
  <2>2. /\ request'[q].pc = label
        /\ request'[q].alone => \A p \in Requests \ {q} : ~Deploying(p)
        /\ \A p \in Requests \ {q} :
              IF Deploying(p) THEN Joined(p) ELSE request'[p] = request[p]
    BY <1>0, <2>1, WriteMoves
  <2>3. r = q
    <3>1. ASSUME r # q PROVE FALSE
      <4>1. IF Deploying(r) THEN Joined(r) ELSE request'[r] = request[r]
        BY <2>2, <3>1
      <4>2. CASE Deploying(r)
        <5>1. request'[r].alone = FALSE
          BY <4>1, <4>2 DEF Joined
        <5> QED BY <1>1, <5>1
      <4>3. CASE ~Deploying(r)
        BY <1>1, <1>2, <4>1, <4>3
      <4> QED BY <4>2, <4>3
    <3> QED BY <3>1
  <2>4. label = "deploy"
    BY <1>1, <2>2, <2>3 DEF Deploying
  <2>5. \A p \in Requests \ {r} : ~Deploying(p) /\ request'[p] = request[p]
    BY <1>1, <2>2, <2>3
  <2>6. \A p \in Requests : request[p].pc # "save"
    BY <2>1 DEF TypeInv, MuInv, Write, Lock
  <2>7. \A p \in Requests \ {r} : ~Deploying(p)' /\ request'[p].pc # "save"
    BY <1>2, <2>5, <2>6
  <2> QED BY <2>2, <2>3, <2>4, <2>7 DEF Fits
<1>8. CASE \E q \in Requests : Written(q)
  <2>1. PICK q \in Requests : Written(q)
    BY <1>8
  <2>2. /\ Alone(q) /\ (request'[q] = Idle \/ Moved(q, "onvif"))
        /\ request[q] \in Job /\ request[q].pc \in {"save", "deploy"}
        /\ config' = request[q].cfg
        /\ (request'[q] = Idle \/ (Moved(q, "onvif") /\ request[q].pc = "deploy"))
    BY <1>0, <2>1, WrittenMoves DEF Written
  <2>3. CASE r # q
    <3>1. Fits(r)
      BY <1>3, <2>2, <2>3 DEF Alone
    <3>2. Deploying(q) \/ request[q].pc = "save"
      BY <2>2 DEF Deploying
    <3> QED BY <2>3, <3>1, <3>2 DEF Fits
  <2>4. CASE r = q
    <3>1. /\ Moved(r, "onvif") /\ request[r].pc = "deploy" /\ request[r].alone
      <4>1. Idle.pc = "idle"
        BY DEF Idle
      <4>2. request'[r] # Idle
        BY <1>1, <4>1 DEF Deploying
      <4>3. Moved(r, "onvif") /\ request[r].pc = "deploy"
        BY <2>2, <2>4, <4>2
      <4> QED BY <1>1, <4>3 DEF Moved
    <3>2. Fits(r)
      BY <3>1 DEF DeployInv, Deploying
    <3>3. \A p \in Requests \ {r} : ~Deploying(p)' /\ request'[p].pc # "save"
      BY <1>2, <2>2, <2>4, <3>2 DEF Fits, Alone
    <3>4. request'[r].pc = "onvif" /\ config' = request'[r].cfg
      BY <2>2, <2>4, <3>1 DEF Moved
    <3> QED BY <3>3, <3>4 DEF Fits
  <2> QED BY <2>3, <2>4
<1>9. CASE \E q \in Requests : DeployMove(q)
  <2>1. PICK q \in Requests : DeployMove(q)
    BY <1>9
  <2>2. Deploying(q)
    BY <2>1 DEF DeployMove, GenerateOnvif, GenerateMediamtx, PatchCompose,
                InstallConfig, InstallKey, BringUp, Deploying
  <2>3. Alone(q) /\ \E label : Moved(q, label)
    BY <1>0, <2>1, DeployMoves
  <2>4. CASE r # q
    <3>1. Fits(r)
      BY <1>3, <2>3, <2>4 DEF Alone
    <3> QED BY <2>2, <2>4, <3>1 DEF Fits
  <2>5. CASE r = q
    <3>1. request[r].alone
      BY <1>1, <2>3, <2>5 DEF Moved
    <3>2. Fits(r)
      BY <2>2, <2>5, <3>1 DEF DeployInv
    <3> QED BY <1>0, <1>1, <2>1, <2>5, <3>1, <3>2, FitsMoves
  <2> QED BY <2>4, <2>5
<1>10. CASE \E q \in Requests : Report(q)
  <2>1. PICK q \in Requests : Report(q)
    BY <1>10
  <2>2. Alone(q) /\ request'[q].pc = "idle"
    BY <1>0, <2>1, ReportMoves DEF Idle
  <2>3. UNCHANGED <<config, onvifYml, mediamtxYml, deployed, deployedKey>>
    BY <2>1 DEF Report, deployVars
  <2> QED BY <1>4, <2>2, <2>3
<1>11. CASE Restart
  <2>1. ~Deploying(r)'
    BY <1>11 DEF Restart, Deploying, Idle
  <2> QED BY <1>1, <2>1
<1>12. CASE UNCHANGED setupVars
  <2>1. UNCHANGED <<request, config, onvifYml, mediamtxYml, deployed, deployedKey>>
    BY <1>12, SetupUnchanged
  <2> QED BY <1>3, <2>1, FitsKept
<1> QED
  BY <1>5, <1>6, <1>7, <1>8, <1>9, <1>10, <1>11, <1>12, Steps

LEMMA DeployStart == Init => DeployInv
BY DEF Init, DeployInv, Deploying, Idle

\* StreamsResolve: a deployment that nothing overlapped leaves three files that
\* fit.
THEOREM StreamsCorrect == Spec => []StreamsResolve
<1>1. DeployInv => StreamsResolve
  <2> SUFFICES ASSUME DeployInv, NEW r \in Requests,
                      request[r].pc = "done", request[r].alone
               PROVE  /\ UNION {cam.streams : cam \in onvifYml}
                            = UNION {Renditions(path) : path \in mediamtxYml}
                      /\ mediamtxYml = MediaPaths(deployed)
                      /\ deployed = request[r].cfg
    BY DEF StreamsResolve
  <2> DEFINE cfg == request[r].cfg
  <2>1. /\ onvifYml = OnvifDoc(cfg) /\ mediamtxYml = MediaPaths(cfg) /\ deployed = cfg
    BY DEF DeployInv, Deploying, Fits
  <2>2. UNION {cam.streams : cam \in OnvifDoc(cfg)}
           = UNION {Renditions(PathName(cam)) : cam \in Range(cfg.cams)}
    <3> DEFINE Doc(cam) == [identity |-> CanonicalMAC(cam.mac),
                            streams |-> Renditions(PathName(cam))]
    <3>1. \A cam : Doc(cam).streams = Renditions(PathName(cam))
      OBVIOUS
    <3>2. OnvifDoc(cfg) = {Doc(cam) : cam \in Range(cfg.cams)}
      BY DEF OnvifDoc
    <3> HIDE DEF Doc
    <3> QED BY <3>1, <3>2
  <2>3. UNION {Renditions(path) : path \in MediaPaths(cfg)}
           = UNION {Renditions(PathName(cam)) : cam \in Range(cfg.cams)}
    BY DEF MediaPaths
  <2> QED BY <2>1, <2>2, <2>3
<1> QED
  BY <1>1, TypeStart, TypeStep, DeployStart, DeployInvStep, PTL DEF Spec

\* KeyInstalled: a deployment with event cameras has a real key.
THEOREM KeyCorrect == Spec => []KeyInstalled
<1>1. TypeInv /\ DeployInv /\ KeyInv => KeyInstalled
  <2> SUFFICES ASSUME TypeInv, DeployInv, KeyInv, NEW r \in Requests,
                      request[r].pc = "done", request[r].alone,
                      AnyEvents(request[r].cfg.cams), request[r].settled, ~keyCut,
                      request[r].key # Braces
               PROVE  deployedKey \in Keys
    BY DEF KeyInstalled
  <2>1. deployedKey = KeyToInstall(r)
    BY DEF DeployInv, Deploying, Fits
  <2>2. request[r] \in Job
    BY DEF TypeInv, RequestInv
  <2>3. request[r].onvif /\ request[r].key \in Keys /\ request[r].key # NoKey
    BY <2>2, FilesAssumption DEF KeyInv, Uploads
  <2> QED BY <2>1, <2>3 DEF KeyToInstall
<1> QED
  BY <1>1, TypeStart, TypeStep, DeployStart, DeployInvStep, KeyStart, KeyStep, PTL DEF Spec

\* What a deployment may fail for.
Cause(r) ==
    LET job == request[r]
    IN  CASE job.at \in {"onvif", "mediamtx"} ->
                 \/ ~Distinct(job.cfg.cams, PathName)
                 \/ \E cam \in Range(job.cfg.cams) : cam.linger = "malformed"
          [] job.at = "compose" -> compose = <<>> \/ patchedFor \ {job.host} # {}
          [] job.at = "key" -> ~root
          [] OTHER -> job.at = "up"

FailInv ==
    \A r \in Requests : request[r].pc = "failed" /\ request[r].alone => Cause(r)

\* A cause does not go away.
LEMMA CauseKept ==
    ASSUME NEW r \in Requests, Cause(r), request'[r] = request[r],
           root' = root, patchedFor \subseteq patchedFor',
           compose = <<>> => compose' = <<>>
    PROVE  Cause(r)'
<1>1. patchedFor \ {request[r].host} # {} => patchedFor' \ {request[r].host} # {}
  OBVIOUS
<1> QED
  BY <1>1 DEF Cause

\* A sound configuration generates, unless for the two things the wizard does
\* not look at.
LEMMA GenerateFails ==
    ASSUME NEW cfg \in ConfigFile, Sound(cfg), config = cfg, ~CanGenerate
    PROVE  \/ ~Distinct(cfg.cams, PathName)
           \/ \E cam \in Range(cfg.cams) : cam.linger = "malformed"
<1>1. Whole(config)
  BY WholeFiles
<1> QED
  BY <1>1 DEF CanGenerate, Generates, Loads, Sound, Complete

\* A step of a deployment that fails has a cause.
LEMMA FailMoves ==
    ASSUME TypeInv, DeployInv, ComposeInv, NEW r \in Requests, DeployMove(r),
           request[r].alone, request'[r].pc = "failed"
    PROVE  Cause(r)'
<1>0. /\ request[r] \in Job /\ request[r].pc \notin {"save", "deploy"} /\ RequestInv
      /\ root' = root
  BY DeployMoves DEF TypeInv, boundVars
<1>1. Deploying(r)
  BY DEF DeployMove, GenerateOnvif, GenerateMediamtx, PatchCompose,
         InstallConfig, InstallKey, BringUp, Deploying
<1>2. Fits(r) /\ Sound(request[r].cfg) /\ request[r].cfg \in ConfigFile
      /\ request[r].host \in Hosts
  BY <1>0, <1>1 DEF DeployInv, TypeInv, JobInv, Job
<1>3. config = request[r].cfg
  BY <1>0, <1>2 DEF Fits
<1>4. ASSUME NEW label \in {"mediamtx", "compose", "config", "key", "up", "done"},
             NEW ok, Proceed(r, label, ok)
      PROVE  /\ ~ok /\ request'[r].at = request[r].pc
             /\ request'[r].cfg = request[r].cfg /\ request'[r].host = request[r].host
  <2>1. label \in JobLabels
    BY DEF JobLabels
  <2>2. /\ ok => Moved(r, label)
        /\ ~ok => Moved(r, "failed") /\ request'[r].at = request[r].pc
    BY <1>0, <1>4, <2>1, ProceedMoves
  <2> QED BY <2>2 DEF Moved
<1> DEFINE Rejected == \/ ~Distinct(request[r].cfg.cams, PathName)
                       \/ \E cam \in Range(request[r].cfg.cams) : cam.linger = "malformed"
<1>5. ~CanGenerate => Rejected
  BY <1>2, <1>3, GenerateFails
<1>6. CASE GenerateOnvif(r) \/ GenerateMediamtx(r)
  <2>1. /\ ~CanGenerate /\ request'[r].at \in {"onvif", "mediamtx"}
        /\ request'[r].cfg = request[r].cfg
    BY <1>4, <1>6 DEF GenerateOnvif, GenerateMediamtx
  <2> QED BY <1>5, <2>1 DEF Cause
<1>7. CASE PatchCompose(r)
  <2> DEFINE ok == Patchable(compose, request[r].host)
  <2>1. Proceed(r, "config", ok) /\ request[r].pc = "compose"
    BY <1>7 DEF PatchCompose
  <2>2. ~ok /\ request'[r].at = "compose" /\ request'[r].host = request[r].host
    <3> HIDE DEF ok
    <3> QED BY <1>4, <2>1
  <2>3. compose' = compose /\ patchedFor' = patchedFor
    BY <1>7, <2>2 DEF PatchCompose
  <2>4. compose = <<>> \/ patchedFor \ {request[r].host} # {}
    BY <1>2, <2>2, PatchFails
  <2> QED BY <2>2, <2>3, <2>4 DEF Cause
<1>8. CASE InstallConfig(r)
  BY <1>4, <1>8 DEF InstallConfig
<1>9. CASE InstallKey(r)
  <2> DEFINE ok == root \/ deployedKey = Absent
  <2>1. Proceed(r, "up", ok) /\ request[r].pc = "key"
    BY <1>9 DEF InstallKey
  <2>2. ~ok /\ request'[r].at = "key"
    <3> HIDE DEF ok
    <3> QED BY <1>4, <2>1
  <2> QED BY <1>0, <2>2 DEF Cause
<1>10. CASE BringUp(r)
  <2>1. request'[r].at = "up"
    BY <1>4, <1>10 DEF BringUp
  <2> QED BY <2>1 DEF Cause
<1> QED
  BY <1>6, <1>7, <1>8, <1>9, <1>10 DEF DeployMove

LEMMA FailStep == TypeInv /\ DeployInv /\ ComposeInv /\ FailInv /\ [Next]_vars => FailInv'
<1> SUFFICES ASSUME TypeInv, DeployInv, ComposeInv, FailInv, [Next]_vars,
                    NEW r \in Requests, request'[r].pc = "failed", request'[r].alone
             PROVE  Cause(r)'
  BY DEF FailInv
<1>0. RequestInv /\ DraftInv
  BY DEF TypeInv
<1>1. Idle.pc = "idle"
  BY DEF Idle
<1>2. CASE request'[r] = request[r] /\ ~Restart
  <2>1. Cause(r)
    BY <1>2 DEF FailInv
  <2>2. root' = root
    BY BoundChanges
  <2>3. patchedFor \subseteq patchedFor' /\ (compose = <<>> => compose' = <<>>)
    <3>1. CASE UNCHANGED <<compose, patchedFor>>
      BY <3>1
    <3>2. CASE \E q \in Requests : PatchCompose(q) /\ request[q].host \in Hosts
      <4>1. PICK q \in Requests : PatchCompose(q) /\ request[q].host \in Hosts
        BY <3>2
      <4>2. compose = <<>> => ~Patchable(compose, request[q].host)
        BY <4>1, PatchFails
      <4> QED BY <4>1, <4>2 DEF PatchCompose
    <3> QED BY <1>2, <3>1, <3>2, ComposeChanges
  <2> QED BY <1>2, <2>1, <2>2, <2>3, CauseKept
<1>3. ~Restart
  <2>1. Restart => request'[r].pc = "idle"
    BY <1>1, RestartMoves
  <2> QED BY <2>1
<1>4. ASSUME NEW q \in Requests, Alone(q), request'[q].pc # "failed"
      PROVE  Cause(r)'
  BY <1>2, <1>3, <1>4 DEF Alone
<1>5. CASE \E q \in Requests : Edit(q)
  <2>1. PICK q \in Requests : Alone(q) /\ request'[q].pc = "persist"
    BY <1>0, <1>5, EditMoves
  <2> QED BY <1>4, <2>1
<1>6. CASE \E q \in Requests : Persist(q)
  <2>1. PICK q \in Requests : Alone(q) /\ request'[q] = Idle
    BY <1>6, PersistMoves DEF TypeInv
  <2> QED BY <1>1, <1>4, <2>1
<1>7. CASE \E q \in Requests, label \in {"save", "deploy"} :
              Begins(q, label) /\ Write(q, label)
  <2>1. PICK q \in Requests, label \in {"save", "deploy"} : Write(q, label)
    BY <1>7
  <2>2. /\ request'[q].pc = label
        /\ \A p \in Requests \ {q} :
              IF Deploying(p) THEN Joined(p) ELSE request'[p] = request[p]
    BY <1>0, <2>1, WriteMoves
  <2>3. r # q
    BY <2>2
  <2>4. ~Deploying(r)
    <3>1. Deploying(r) => Joined(r)
      BY <2>2, <2>3
    <3>2. Joined(r) => request'[r].alone = FALSE
      BY DEF Joined
    <3> QED BY <3>1, <3>2
  <2>5. request'[r] = request[r]
    BY <2>2, <2>3, <2>4
  <2> QED BY <1>2, <1>3, <2>5
<1>8. CASE \E q \in Requests : Written(q)
  <2>1. PICK q \in Requests : Alone(q) /\ (request'[q] = Idle \/ Moved(q, "onvif"))
    BY <1>0, <1>8, WrittenMoves
  <2>2. request'[q].pc # "failed"
    BY <1>1, <2>1 DEF Moved
  <2> QED BY <1>4, <2>1, <2>2
<1>9. CASE \E q \in Requests : DeployMove(q)
  <2>1. PICK q \in Requests : DeployMove(q)
    BY <1>9
  <2>2. Alone(q) /\ \E label : Moved(q, label)
    BY <1>0, <2>1, DeployMoves
  <2>3. CASE r # q
    BY <1>2, <1>3, <2>2, <2>3 DEF Alone
  <2>4. CASE r = q
    <3>1. request[r].alone
      BY <2>2, <2>4 DEF Moved
    <3> QED BY <2>1, <2>4, <3>1, FailMoves
  <2> QED BY <2>3, <2>4
<1>10. CASE \E q \in Requests : Report(q)
  <2>1. PICK q \in Requests : Alone(q) /\ request'[q] = Idle
    BY <1>0, <1>10, ReportMoves
  <2> QED BY <1>1, <1>4, <2>1
<1>11. CASE UNCHANGED setupVars
  BY <1>2, <1>3, <1>11, SetupUnchanged
<1> QED
  BY <1>3, <1>5, <1>6, <1>7, <1>8, <1>9, <1>10, <1>11, Steps

\* FailsForCause: a deployment that nothing overlapped fails only for a cause
\* the wizard cannot or does not look at.
THEOREM FailCorrect == Spec => []FailsForCause
<1>1. Init => FailInv
  BY DEF Init, FailInv, Idle
<1>2. FailInv => FailsForCause
  BY DEF FailInv, FailsForCause, Cause
<1> QED
  BY <1>1, <1>2, TypeStart, TypeStep, DeployStart, DeployInvStep, ComposeStart,
     ComposeStep, FailStep, PTL DEF Spec
==============================================================================
