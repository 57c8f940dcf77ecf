---------------------------- MODULE PublisherProofs ----------------------------
(***************************************************************************)
(* Proofs about Publisher, for any interleaving of the two pumps, the      *)
(* timer's callback and Close.                                             *)
(*                                                                         *)
(* What makes releasing the mutex inside announceLocked harmless is that   *)
(* announcing keeps the description as it was: TrackInv says that the      *)
(* media, the description and, as soon as there is one, what the server    *)
(* was told are the same.  OwnerInv says who announces, and ClientInv what *)
(* announced and closed tell of the client, so that a pump that finds the  *)
(* publisher announced and open may write.                                 *)
(***************************************************************************)
EXTENDS Publisher, FiniteSetTheorems, TLAPS

Places == {"read", "write", "announce", "ended"}

PublisherType ==
    /\ wantAudio \in BOOLEAN /\ supported \subseteq Kinds
    /\ pump \in [Kinds -> Places] /\ guardClosed \in BOOLEAN /\ lost \in BOOLEAN
    /\ media \subseteq Kinds
    /\ announced \in BOOLEAN /\ announcing \in BOOLEAN
    /\ closed \in BOOLEAN /\ graceExpired \in BOOLEAN
    /\ timer \in {"none", "armed", "fired", "announce", "stopped"}
    /\ attempt \in 0 .. Attempts
    /\ newClient \in {"none", "open"} /\ client \in {"none", "open", "closed"}
    /\ recorded \subseteq Kinds

\* A pump or the timer's callback announces, and nobody else.
OwnerInv ==
    /\ announcing <=> timer = "announce" \/ \E k \in Kinds : pump[k] = "announce"
    /\ timer = "announce" => \A k \in Kinds : pump[k] # "announce"
    /\ \A j, k \in Kinds : pump[j] = "announce" /\ pump[k] = "announce" => j = k

\* No track comes once the session is being announced, and then there is video.
TrackInv ==
    /\ desc = media
    /\ graceExpired \/ announcing \/ announced => "video" \in media
    /\ announced \/ newClient = "open" => recorded = media

\* The client is open exactly from the announcement to Close, and a second one
\* is only in the hands of who announces.
ClientInv ==
    /\ ~(announced /\ announcing)
    /\ announced /\ ~closed <=> client = "open"
    /\ newClient = "open" => announcing
    /\ ~badWrite

PublisherInv == PublisherType /\ OwnerInv /\ TrackInv /\ ClientInv

-----------------------------------------------------------------------------

LEMMA PublisherStart == Init => PublisherInv
<1> SUFFICES ASSUME Init PROVE PublisherInv
  OBVIOUS
<1>1. pump \in [Kinds -> Places] /\ \A k \in Kinds : pump[k] = "read"
  BY DEF Init, Places
<1>2. PublisherType
  <2>1. wantAudio \in BOOLEAN /\ supported \subseteq Kinds
    BY DEF Init
  <2>2. /\ guardClosed \in BOOLEAN /\ lost \in BOOLEAN /\ announced \in BOOLEAN
        /\ announcing \in BOOLEAN /\ closed \in BOOLEAN /\ graceExpired \in BOOLEAN
    BY DEF Init
  <2>3. /\ media \subseteq Kinds /\ timer \in {"none", "armed", "fired", "announce", "stopped"}
        /\ attempt \in 0 .. Attempts /\ newClient \in {"none", "open"}
        /\ client \in {"none", "open", "closed"} /\ recorded \subseteq Kinds
    BY DEF Init, Attempts
  <2> QED
    BY <1>1, <2>1, <2>2, <2>3 DEF PublisherType
<1>3. OwnerInv
  BY <1>1 DEF Init, OwnerInv
<1>4. TrackInv /\ ClientInv
  BY DEF Init, TrackInv, ClientInv
<1> QED
  BY <1>2, <1>3, <1>4 DEF PublisherInv

\* A pump goes to another place.
LEMMA PumpMoves ==
    ASSUME pump \in [Kinds -> Places], NEW k \in Kinds, NEW label \in Places,
           Pump(k, label)
    PROVE  /\ pump' \in [Kinds -> Places] /\ pump'[k] = label
           /\ \A j \in Kinds \ {k} : pump'[j] = pump[j]
BY DEF Pump

\* A packet is only written to a client that can take it.
LEMMA WriteIsSafe ==
    ASSUME pump \in [Kinds -> Places], lost \in BOOLEAN, ~badWrite, NEW k \in Kinds,
           WritePacket(k, "open"), desc' = recorded
    PROVE  /\ pump' \in [Kinds -> Places] /\ lost' \in BOOLEAN /\ ~badWrite'
           /\ \A j \in Kinds \ {k} : pump'[j] = pump[j]
           /\ pump'[k] # "announce"
<1>1. Pump(k, "ended") \/ Pump(k, "read")
  BY DEF WritePacket
<1>2. "ended" \in Places /\ "read" \in Places
  BY DEF Places
<1>3. /\ pump' \in [Kinds -> Places] /\ pump'[k] \in {"ended", "read"}
      /\ \A j \in Kinds \ {k} : pump'[j] = pump[j]
  BY <1>1, <1>2, PumpMoves
<1>4. lost' = lost \/ lost' = TRUE
  BY DEF WritePacket
<1>5. ~badWrite'
  BY DEF WritePacket
<1> QED
  BY <1>3, <1>4, <1>5

-----------------------------------------------------------------------------
(* The steps *)

\* WriteRTP keeps the invariant: a track is new only while nobody announces, and
\* a packet is written only between the announcement and Close.
LEMMA WriteStep ==
    ASSUME PublisherInv, NEW k \in Kinds, WriteRTP(k)
    PROVE  PublisherInv'
<1>1. /\ pump \in [Kinds -> Places] /\ pump[k] = "write"
      /\ UNCHANGED <<wantAudio, supported, guardClosed, announced, closed,
                     graceExpired, newClient, client, recorded>>
  BY DEF WriteRTP, PublisherInv, PublisherType, given
<1>2. "read" \in Places /\ "ended" \in Places /\ "announce" \in Places
  BY DEF Places
<1>3. ASSUME Pump(k, "ended") \/ Pump(k, "read"),
             UNCHANGED <<lost, trackVars, announcing, timer, attempt, badWrite>>
      PROVE  PublisherInv'
  <2>1. /\ pump' \in [Kinds -> Places] /\ pump'[k] \in {"ended", "read"}
        /\ \A j \in Kinds \ {k} : pump'[j] = pump[j]
    BY <1>1, <1>2, <1>3, PumpMoves
  <2>2. PublisherType'
    BY <1>1, <1>3, <2>1 DEF PublisherInv, PublisherType, trackVars
  <2>3. OwnerInv'
    BY <1>1, <1>3, <2>1 DEF PublisherInv, OwnerInv
  <2>4. TrackInv' /\ ClientInv'
    BY <1>1, <1>3 DEF PublisherInv, TrackInv, ClientInv, trackVars
  <2> QED BY <2>2, <2>3, <2>4 DEF PublisherInv
<1>4. ASSUME ~Unusable(k), ~TooLate(k), media' = media \cup {k},
             desc' = IF k \in media THEN desc ELSE media',
             timer' = IF timer = "none" /\ k \notin media THEN "armed" ELSE timer
      PROVE  /\ desc' = media' /\ media' \subseteq Kinds
             /\ announced \/ announcing => media' = media
             /\ timer' \in {"none", "armed", "fired", "announce", "stopped"}
             /\ timer' = "announce" <=> timer = "announce"
             /\ ~closed
  BY <1>4 DEF PublisherInv, PublisherType, TrackInv, Unusable, TooLate
<1>5. CASE /\ k \in supported /\ ~Unusable(k) /\ ~TooLate(k)
           /\ media' = media \cup {k}
           /\ desc' = IF k \in media THEN desc ELSE media'
           /\ timer' = IF timer = "none" /\ k \notin media THEN "armed" ELSE timer
           /\ announced
           /\ WritePacket(k, client)
           /\ UNCHANGED <<announcing, attempt>>
  <2>1. /\ desc' = media' /\ media' = media /\ ~closed /\ client = "open"
        /\ recorded = media /\ ~announcing /\ ~badWrite /\ lost \in BOOLEAN
        /\ timer' \in {"none", "armed", "fired", "announce", "stopped"}
        /\ timer' = "announce" <=> timer = "announce"
    BY <1>4, <1>5 DEF PublisherInv, PublisherType, TrackInv, ClientInv
  <2>2. /\ pump' \in [Kinds -> Places] /\ lost' \in BOOLEAN /\ ~badWrite'
        /\ \A j \in Kinds \ {k} : pump'[j] = pump[j]
        /\ pump'[k] # "announce"
    BY <1>1, <1>5, <2>1, WriteIsSafe
  <2>3. PublisherType'
    BY <1>1, <1>5, <2>1, <2>2 DEF PublisherInv, PublisherType
  <2>4. OwnerInv'
    BY <1>1, <1>5, <2>1, <2>2 DEF PublisherInv, OwnerInv
  <2>5. TrackInv' /\ ClientInv'
    BY <1>1, <1>5, <2>1, <2>2 DEF PublisherInv, TrackInv, ClientInv
  <2> QED BY <2>3, <2>4, <2>5 DEF PublisherInv
<1>6. CASE /\ k \in supported /\ ~Unusable(k) /\ ~TooLate(k)
           /\ media' = media \cup {k}
           /\ desc' = IF k \in media THEN desc ELSE media'
           /\ timer' = IF timer = "none" /\ k \notin media THEN "armed" ELSE timer
           /\ ~announced
           /\ Pump(k, "read")
           /\ UNCHANGED <<lost, announcing, attempt, badWrite>>
  <2>1. /\ pump' \in [Kinds -> Places] /\ pump'[k] = "read"
        /\ \A j \in Kinds \ {k} : pump'[j] = pump[j]
    BY <1>1, <1>2, <1>6, PumpMoves
  <2>2. PublisherType'
    BY <1>1, <1>4, <1>6, <2>1 DEF PublisherInv, PublisherType
  <2>3. OwnerInv'
    BY <1>1, <1>4, <1>6, <2>1 DEF PublisherInv, OwnerInv
  <2>4. TrackInv'
    BY <1>1, <1>4, <1>6 DEF PublisherInv, TrackInv, ClientInv
  <2>5. ClientInv'
    BY <1>1, <1>6 DEF PublisherInv, ClientInv
  <2> QED BY <2>2, <2>3, <2>4, <2>5 DEF PublisherInv
<1>7. CASE /\ k \in supported /\ ~Unusable(k) /\ ~TooLate(k)
           /\ media' = media \cup {k}
           /\ desc' = IF k \in media THEN desc ELSE media'
           /\ timer' = IF timer = "none" /\ k \notin media THEN "armed" ELSE timer
           /\ ~announced /\ MayAnnounce
           /\ HaveEveryExpectedTrack(media') \/ graceExpired
           /\ BeginAnnounce
           /\ Pump(k, "announce")
           /\ UNCHANGED <<lost, badWrite>>
  <2>1. /\ pump' \in [Kinds -> Places] /\ pump'[k] = "announce"
        /\ \A j \in Kinds \ {k} : pump'[j] = pump[j]
    BY <1>1, <1>2, <1>7, PumpMoves
  <2>2. ~announcing /\ announcing' = TRUE /\ attempt' = 0
    BY <1>7 DEF MayAnnounce, BeginAnnounce
  <2>3. "video" \in media' /\ newClient = "none"
    BY <1>4, <1>7, <2>2 DEF HaveEveryExpectedTrack, PublisherInv, PublisherType, TrackInv,
                            ClientInv
  <2>4. PublisherType'
    BY <1>1, <1>4, <1>7, <2>1, <2>2 DEF PublisherInv, PublisherType, Attempts
  <2>5. OwnerInv'
    BY <1>1, <1>4, <1>7, <2>1, <2>2 DEF PublisherInv, OwnerInv
  <2>6. TrackInv'
    BY <1>1, <1>4, <1>7, <2>3 DEF PublisherInv, TrackInv
  <2>7. ClientInv'
    BY <1>1, <1>7, <2>2, <2>3 DEF PublisherInv, ClientInv
  <2> QED BY <2>4, <2>5, <2>6, <2>7 DEF PublisherInv
<1> QED
  BY <1>3, <1>5, <1>6, <1>7 DEF WriteRTP

\* The callback of the grace timer begins an announcement only for video.
LEMMA GraceStep ==
    ASSUME PublisherInv, AnnounceAfterGrace
    PROVE  PublisherInv'
<1>1. UNCHANGED <<wantAudio, supported, pump, guardClosed, lost, media, desc, announced,
                  closed, newClient, client, recorded, badWrite>>
  BY DEF AnnounceAfterGrace, given, pumpVars, trackVars
<1>2. CASE timer' \in {"stopped", "armed"} /\ UNCHANGED <<announcing, graceExpired, attempt>>
  <2>1. PublisherType'
    BY <1>1, <1>2 DEF PublisherInv, PublisherType
  <2>2. OwnerInv'
    BY <1>1, <1>2 DEF PublisherInv, OwnerInv, AnnounceAfterGrace
  <2>3. TrackInv' /\ ClientInv'
    BY <1>1, <1>2 DEF PublisherInv, TrackInv, ClientInv
  <2> QED BY <2>1, <2>2, <2>3 DEF PublisherInv
<1>3. CASE /\ ~announced /\ ~announcing /\ "video" \in media
           /\ graceExpired' = TRUE
           /\ BeginAnnounce
           /\ timer' = "announce"
  <2>1. announcing' = TRUE /\ attempt' = 0
    BY <1>3 DEF BeginAnnounce
  <2>2. PublisherType'
    BY <1>1, <1>3, <2>1 DEF PublisherInv, PublisherType, Attempts
  <2>3. OwnerInv'
    BY <1>1, <1>3, <2>1 DEF PublisherInv, OwnerInv
  <2>4. TrackInv' /\ ClientInv'
    BY <1>1, <1>3, <2>1 DEF PublisherInv, PublisherType, TrackInv, ClientInv
  <2> QED BY <2>2, <2>3, <2>4 DEF PublisherInv
<1> QED
  BY <1>2, <1>3 DEF AnnounceAfterGrace

\* The server is told of the description, which is still the tracks known.
LEMMA AttemptStep ==
    ASSUME PublisherInv, Attempt
    PROVE  PublisherInv'
<1>1. UNCHANGED <<wantAudio, supported, pump, guardClosed, lost, media, desc, announced,
                  announcing, closed, graceExpired, timer, client, badWrite>>
  BY DEF Attempt, given, pumpVars, trackVars, flagVars
<1>2. PublisherType' /\ OwnerInv'
  <2>1. newClient' \in {"none", "open"} /\ attempt' \in 0 .. Attempts /\ recorded' \subseteq Kinds
    BY DEF Attempt, Attempts, PublisherInv, PublisherType, TrackInv
  <2>2. PublisherType'
    BY <1>1, <2>1 DEF PublisherInv, PublisherType
  <2> QED BY <1>1, <2>2 DEF PublisherInv, OwnerInv
<1>3. TrackInv' /\ ClientInv'
  BY <1>1 DEF Attempt, PublisherInv, TrackInv, ClientInv
<1> QED
  BY <1>2, <1>3 DEF PublisherInv

\* Whoever announces has failed: nobody announces any more.
LEMMA FailStep ==
    ASSUME PublisherInv, Fail
    PROVE  PublisherInv'
<1>1. /\ UNCHANGED <<wantAudio, supported, guardClosed, media, desc, announced, closed,
                     graceExpired, attempt, newClient, client, recorded, badWrite>>
      /\ announcing /\ announcing' = FALSE /\ newClient = "none"
  BY DEF Fail, AnnounceFailed, AnnounceOver, given, trackVars, clientVars
<1>2. "ended" \in Places
  BY DEF Places
<1>3. /\ pump' \in [Kinds -> Places] /\ lost' \in BOOLEAN
      /\ timer' \in {"none", "armed", "fired", "stopped"}
      /\ \A j \in Kinds : pump'[j] # "announce"
  <2>1. CASE \E k \in Kinds : /\ pump[k] = "announce" /\ Pump(k, "ended")
                              /\ lost' = TRUE /\ UNCHANGED timer
    <3>1. PICK k \in Kinds : /\ pump[k] = "announce" /\ Pump(k, "ended")
                             /\ lost' = TRUE /\ UNCHANGED timer
      BY <2>1
    <3>2. /\ pump' \in [Kinds -> Places] /\ pump'[k] = "ended"
          /\ \A j \in Kinds \ {k} : pump'[j] = pump[j]
      BY <1>2, <3>1, PumpMoves DEF PublisherInv, PublisherType
    <3> QED BY <3>1, <3>2 DEF PublisherInv, PublisherType, OwnerInv
  <2>2. CASE timer = "announce" /\ timer' = "stopped" /\ UNCHANGED <<pump, lost>>
    BY <2>2 DEF PublisherInv, PublisherType, OwnerInv
  <2> QED BY <2>1, <2>2 DEF Fail
<1>4. PublisherType'
  BY <1>1, <1>3 DEF PublisherInv, PublisherType
<1>5. OwnerInv'
  BY <1>1, <1>3 DEF OwnerInv
<1>6. TrackInv' /\ ClientInv'
  BY <1>1 DEF PublisherInv, TrackInv, ClientInv
<1> QED
  BY <1>4, <1>5, <1>6 DEF PublisherInv

\* The client is kept, and written to at once, unless the publisher was closed
\* during the round trips.
LEMMA SucceedStep ==
    ASSUME PublisherInv, Succeed
    PROVE  PublisherInv'
<1>1. /\ UNCHANGED <<wantAudio, supported, guardClosed, media, desc, closed,
                     graceExpired, attempt, recorded>>
      /\ announcing /\ announcing' = FALSE /\ newClient = "open" /\ newClient' = "none"
      /\ client' = IF ~closed THEN "open" ELSE client
      /\ announced' = ~closed
      /\ ~announced /\ recorded = media /\ desc = media /\ "video" \in media
  BY DEF Succeed, AnnounceOver, Adopt, given, trackVars, PublisherInv, PublisherType,
         TrackInv, ClientInv
<1>2. "read" \in Places
  BY DEF Places
<1>3. /\ pump' \in [Kinds -> Places] /\ lost' \in BOOLEAN /\ ~badWrite'
      /\ timer' \in {"none", "armed", "fired", "stopped"}
      /\ \A j \in Kinds : pump'[j] # "announce"
  <2>1. ASSUME NEW k \in Kinds, pump[k] = "announce",
               IF Adopt THEN StopTimer /\ WritePacket(k, "open")
               ELSE Pump(k, "read") /\ UNCHANGED <<lost, timer, badWrite>>
        PROVE  /\ pump' \in [Kinds -> Places] /\ lost' \in BOOLEAN /\ ~badWrite'
               /\ timer' \in {"none", "armed", "fired", "stopped"}
               /\ \A j \in Kinds : pump'[j] # "announce"
    <3>1. /\ timer # "announce" /\ (\A j \in Kinds \ {k} : pump[j] # "announce")
          /\ timer \in {"none", "armed", "fired", "stopped"}
      BY <2>1 DEF PublisherInv, PublisherType, OwnerInv
    <3>2. CASE Adopt
      <4>1. /\ pump' \in [Kinds -> Places] /\ lost' \in BOOLEAN /\ ~badWrite'
            /\ (\A j \in Kinds \ {k} : pump'[j] = pump[j])
            /\ pump'[k] # "announce"
        BY <1>1, <2>1, <3>2, WriteIsSafe DEF PublisherInv, PublisherType, ClientInv
      <4>2. timer' \in {"none", "armed", "fired", "stopped"}
        BY <2>1, <3>1, <3>2 DEF StopTimer
      <4> QED BY <3>1, <4>1, <4>2
    <3>3. CASE ~Adopt
      <4>1. /\ pump' \in [Kinds -> Places] /\ pump'[k] = "read"
            /\ \A j \in Kinds \ {k} : pump'[j] = pump[j]
        BY <1>2, <2>1, <3>3, PumpMoves DEF PublisherInv, PublisherType
      <4> QED BY <2>1, <3>1, <3>3, <4>1 DEF PublisherInv, PublisherType, ClientInv
    <3> QED BY <3>2, <3>3
  <2>2. CASE timer = "announce" /\ timer' = "stopped" /\ UNCHANGED <<pump, lost, badWrite>>
    BY <2>2 DEF PublisherInv, PublisherType, OwnerInv, ClientInv
  <2> QED BY <2>1, <2>2 DEF Succeed
<1>4. PublisherType'
  BY <1>1, <1>3 DEF PublisherInv, PublisherType
<1>5. OwnerInv'
  BY <1>1, <1>3 DEF OwnerInv
<1>6. TrackInv'
  BY <1>1 DEF PublisherInv, TrackInv
<1>7. ClientInv'
  BY <1>1, <1>3 DEF PublisherInv, ClientInv
<1> QED
  BY <1>4, <1>5, <1>6, <1>7 DEF PublisherInv

\* Close leaves an announcement under way alone, and its client.
LEMMA CloseStep ==
    ASSUME PublisherInv, Close
    PROVE  PublisherInv'
<1>1. /\ UNCHANGED <<wantAudio, supported, pump, guardClosed, lost, media, desc, announced,
                     announcing, graceExpired, attempt, newClient, recorded, badWrite>>
      /\ closed' = TRUE /\ client' = IF client = "open" THEN "closed" ELSE client
      /\ timer' = IF timer = "armed" THEN "stopped" ELSE timer
  BY DEF Close, StopTimer, given, pumpVars, trackVars
<1>2. PublisherType'
  BY <1>1 DEF PublisherInv, PublisherType
<1>3. OwnerInv'
  BY <1>1 DEF PublisherInv, OwnerInv
<1>4. TrackInv' /\ ClientInv'
  BY <1>1 DEF PublisherInv, TrackInv, ClientInv
<1> QED
  BY <1>2, <1>3, <1>4 DEF PublisherInv

\* Packets, tracks that end, the guard and the timer touch nothing but
\* themselves.
LEMMA QuietStep ==
    ASSUME PublisherInv,
           \/ \E k \in Kinds : Packet(k) \/ TrackEnds(k)
           \/ CloseGuard \/ Fire \/ UNCHANGED vars
    PROVE  PublisherInv'
<1>1. UNCHANGED <<wantAudio, supported, lost, media, desc, announced, announcing, closed,
                  graceExpired, attempt, newClient, client, recorded, badWrite>>
  BY DEF Packet, TrackEnds, CloseGuard, Fire, vars, given, pumpVars, trackVars, flagVars,
         clientVars
<1>2. /\ pump' \in [Kinds -> Places]
      /\ \A k \in Kinds : pump'[k] = "announce" <=> pump[k] = "announce"
  <2>1. CASE \E k \in Kinds : Packet(k) \/ TrackEnds(k)
    <3>1. PICK k \in Kinds : Packet(k) \/ TrackEnds(k)
      BY <2>1
    <3>2. PICK label \in Places \ {"announce"} : Pump(k, label)
      BY <3>1 DEF Packet, TrackEnds, Places
    <3>3. /\ pump' \in [Kinds -> Places] /\ pump'[k] = label
          /\ \A j \in Kinds \ {k} : pump'[j] = pump[j]
      BY <3>2, PumpMoves DEF PublisherInv, PublisherType
    <3>4. pump[k] = "read"
      BY <3>1 DEF Packet, TrackEnds
    <3> QED BY <3>3, <3>4
  <2>2. CASE UNCHANGED pump
    BY <2>2 DEF PublisherInv, PublisherType
  <2> QED BY <2>1, <2>2 DEF CloseGuard, Fire, vars, pumpVars
<1>3. guardClosed' \in BOOLEAN /\ timer' \in {"none", "armed", "fired", "announce", "stopped"}
      /\ (timer' = "announce" <=> timer = "announce")
  BY DEF Packet, TrackEnds, CloseGuard, Fire, vars, pumpVars, PublisherInv, PublisherType
<1>4. PublisherType'
  BY <1>1, <1>2, <1>3 DEF PublisherInv, PublisherType
<1>5. OwnerInv'
  BY <1>1, <1>2, <1>3 DEF PublisherInv, OwnerInv
<1>6. TrackInv' /\ ClientInv'
  BY <1>1 DEF PublisherInv, TrackInv, ClientInv
<1> QED
  BY <1>4, <1>5, <1>6 DEF PublisherInv

LEMMA PublisherStep == PublisherInv /\ [Next]_vars => PublisherInv'
BY WriteStep, GraceStep, AttemptStep, FailStep, SucceedStep, CloseStep, QuietStep
   DEF Next, Work

-----------------------------------------------------------------------------
(* The theorems *)

\* No packet reaches a client that is closed, was never made, or was not told of
\* the medium (publisher.go:200-272), although announceLocked releases the mutex
\* and Close may come at any time.
THEOREM WriteCorrect == Spec => []SafeWrites
<1>1. PublisherInv => SafeWrites
  BY DEF PublisherInv, ClientInv, SafeWrites
<1> QED
  BY <1>1, PublisherStart, PublisherStep, PTL DEF Spec

\* One pump or the timer's callback announces, a session with video and with
\* every track that is known (publisher.go:352-365).
THEOREM AnnouncementCorrect == Spec => []WholeAnnouncement
<1>1. PublisherInv => WholeAnnouncement
  <2> SUFFICES ASSUME PublisherInv PROVE WholeAnnouncement
    OBVIOUS
  <2>1. announced => "video" \in recorded /\ media \subseteq recorded
    BY DEF PublisherInv, TrackInv
  <2>2. announcing <=> timer = "announce" \/ \E k \in Kinds : pump[k] = "announce"
    BY DEF PublisherInv, OwnerInv
  <2> DEFINE owners == {k \in Kinds : pump[k] = "announce"}
  <2>3. Cardinality(owners) <= 1
    <3>1. CASE owners = {}
      BY <3>1, FS_EmptySet
    <3>2. CASE owners # {}
      <4>1. PICK k \in Kinds : owners = {k}
        BY <3>2 DEF PublisherInv, OwnerInv
      <4>2. Cardinality({k}) = 1
        BY FS_Singleton
      <4> QED BY <4>1, <4>2
    <3> QED BY <3>1, <3>2
  <2> QED BY <2>1, <2>2, <2>3 DEF WholeAnnouncement
<1> QED
  BY <1>1, PublisherStart, PublisherStep, PTL DEF Spec

\* Close leaves no RTSP client open, also when it comes during an announcement
\* (publisher.go:366-380): whoever announces closes the client it has made.
THEOREM CloseCorrect == Spec => []NoClientLeft
<1>1. PublisherInv => NoClientLeft
  BY DEF PublisherInv, PublisherType, ClientInv, NoClientLeft
<1> QED
  BY <1>1, PublisherStart, PublisherStep, PTL DEF Spec
=============================================================================
