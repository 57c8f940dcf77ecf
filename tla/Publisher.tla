------------------------------- MODULE Publisher -------------------------------
(***************************************************************************)
(* One RTSP publisher (internal/media/publisher.go) behind its guardedSink *)
(* and fed by the track pumps of a connection (internal/session/manager.go)*)
(*                                                                         *)
(* Four actors share it: a pump per remote track, the grace timer's        *)
(* callback, and the manager that closes it.  Everything happens under     *)
(* Publisher.mu in one piece, except that announceLocked releases the      *)
(* mutex across its round trips: whoever announces begins with one action, *)
(* tries up to three times, and ends with another.  The guard is tested    *)
(* before the mutex is taken, so a write may enter after Close.            *)
(*                                                                         *)
(* A medium is known by its kind.  Left out: the counters, which are only  *)
(* reported, and the length of the pauses between attempts.                *)
(***************************************************************************)
EXTENDS Integers, FiniteSets

VARIABLES
    wantAudio,      \* Publisher.wantAudio, fixed
    supported,      \* the tracks whose codec the publisher takes, fixed
    pump,           \* read, write (past the guard), announce or ended
    guardClosed,    \* guardedSink.closed
    lost,           \* loseConnection was called
    media,          \* Publisher.video and .audio that are not nil
    desc,           \* Publisher.desc.Medias
    announced, announcing, closed, graceExpired,    \* as in Publisher
    timer,          \* announceTimer: none, armed, fired, announce or stopped
    attempt,        \* attempts announceWithRetry has made
    newClient,      \* the client it has made: none or open
    client,         \* Publisher.client: none, open or closed
    recorded,       \* the media the server was told of
    badWrite        \* history: a packet reached a client that cannot take it

given == <<wantAudio, supported>>
pumpVars == <<pump, guardClosed, lost>>
trackVars == <<media, desc>>
flagVars == <<announced, announcing, closed, graceExpired>>
clientVars == <<attempt, newClient, client, recorded>>
vars == <<given, pumpVars, trackVars, flagVars, timer, clientVars, badWrite>>

Kinds == {"video", "audio"}
Attempts == 3       \* announceAttempts

Pump(k, label) == pump' = [pump EXCEPT ![k] = label]

\* time.Timer.Stop: a callback that already waits for the mutex still runs.
StopTimer == timer' = IF timer = "armed" THEN "stopped" ELSE timer

-----------------------------------------------------------------------------
(* The pumps *)

\* A packet arrives, and the guard lets it through or drops it.
Packet(k) ==
    /\ pump[k] = "read"
    /\ Pump(k, IF guardClosed THEN "read" ELSE "write")
    /\ UNCHANGED <<given, guardClosed, lost, trackVars, flagVars, timer, clientVars,
                   badWrite>>

\* The track ends, as all do when the peer connection closes.
TrackEnds(k) ==
    /\ pump[k] = "read"
    /\ Pump(k, "ended")
    /\ UNCHANGED <<given, guardClosed, lost, trackVars, flagVars, timer, clientVars,
                   badWrite>>

\* Mutant of Unusable: the closed publisher writes on.
UnusableUnlessClosed(k) == k = "audio" /\ ~wantAudio

\* The packet is dropped on purpose.
Unusable(k) == closed \/ (k = "audio" /\ ~wantAudio)

\* The first packet of a track comes when the description is settled.
TooLate(k) == k \notin media /\ (announced \/ announcing)

\* Mutant of HaveEveryExpectedTrack: any track will do.
HaveAnyTrack(known) == known # {}

HaveEveryExpectedTrack(known) ==
    "video" \in known /\ (wantAudio => "audio" \in known)

\* The end of WriteRTP for an announced session: the medium or the payload type
\* is refused, or WritePacketRTP succeeds, drops the packet for a full queue, or
\* finds the session dead.  cl is the client and desc' the description.
WritePacket(k, cl) ==
    \/ /\ Pump(k, "ended")
       /\ UNCHANGED <<lost, badWrite>>
    \/ /\ k \in desc'
       /\ badWrite' = (badWrite \/ cl # "open" \/ k \notin recorded)
       /\ \/ Pump(k, "read") /\ UNCHANGED lost
          \/ Pump(k, "ended") /\ lost' = TRUE

\* Another goroutine may own the announce.
MayAnnounce == ~announcing

\* announceLocked up to the release of the mutex.
BeginAnnounce ==
    /\ announcing' = TRUE
    /\ attempt' = 0

\* WriteRTP up to its end or to the release of the mutex in announceLocked.
WriteRTP(k) ==
    /\ pump[k] = "write"
    /\ \/ /\ k \notin supported \/ (~Unusable(k) /\ TooLate(k))
          /\ Pump(k, "ended")
          /\ UNCHANGED <<lost, trackVars, announcing, timer, attempt, badWrite>>
       \/ /\ k \in supported /\ Unusable(k)
          /\ Pump(k, "read")
          /\ UNCHANGED <<lost, trackVars, announcing, timer, attempt, badWrite>>
       \/ /\ k \in supported /\ ~Unusable(k) /\ ~TooLate(k)
          /\ media' = media \cup {k}
          /\ desc' = IF k \in media THEN desc ELSE media'
          /\ timer' = IF timer = "none" /\ k \notin media THEN "armed" ELSE timer
          /\ \/ /\ announced
                /\ WritePacket(k, client)
                /\ UNCHANGED <<announcing, attempt>>
             \/ /\ ~announced
                /\ announcing \/ ~(HaveEveryExpectedTrack(media') \/ graceExpired)
                /\ Pump(k, "read")
                /\ UNCHANGED <<lost, announcing, attempt, badWrite>>
             \/ /\ ~announced /\ MayAnnounce
                /\ HaveEveryExpectedTrack(media') \/ graceExpired
                /\ BeginAnnounce
                /\ Pump(k, "announce")
                /\ UNCHANGED <<lost, badWrite>>
    /\ UNCHANGED <<given, guardClosed, announced, closed, graceExpired, newClient,
                   client, recorded>>

-----------------------------------------------------------------------------
(* The grace timer *)

Fire ==
    /\ timer = "armed"
    /\ timer' = "fired"
    /\ UNCHANGED <<given, pumpVars, trackVars, flagVars, clientVars, badWrite>>

\* announceAfterGrace up to its end or to the release of the mutex.
AnnounceAfterGrace ==
    /\ timer = "fired"
    /\ \/ /\ announced \/ announcing \/ closed
          /\ timer' = "stopped"
          /\ UNCHANGED <<announcing, graceExpired, attempt>>
       \/ /\ ~announced /\ ~announcing /\ ~closed /\ "video" \notin media
          /\ timer' = "armed"
          /\ UNCHANGED <<announcing, graceExpired, attempt>>
       \/ /\ ~announced /\ ~announcing /\ ~closed /\ "video" \in media
          /\ graceExpired' = TRUE
          /\ BeginAnnounce
          /\ timer' = "announce"
    /\ UNCHANGED <<given, pumpVars, trackVars, announced, closed, newClient, client,
                   recorded, badWrite>>

-----------------------------------------------------------------------------
(* The announcement, without the mutex, and its end *)

\* One attempt of announceWithRetry.  One under way when the publisher closes
\* may still succeed.
Attempt ==
    /\ announcing /\ newClient = "none" /\ attempt < Attempts
    /\ \/ newClient' = "open" /\ recorded' = desc /\ UNCHANGED attempt
       \/ attempt' = attempt + 1 /\ UNCHANGED <<newClient, recorded>>
    /\ UNCHANGED <<given, pumpVars, trackVars, flagVars, timer, client, badWrite>>

\* announceWithRetry returns an error: the attempts are used up, or the pause
\* between two of them was cut short by Close.
AnnounceFailed ==
    /\ announcing /\ newClient = "none"
    /\ attempt = Attempts \/ (attempt > 0 /\ closed)

\* Mutant of AnnounceOver: an error leaves announcing set.
AnnounceOverOnSuccess == announcing' = (newClient = "none")

AnnounceOver == announcing' = FALSE

\* A pump passes the error on, which is fatal; the timer's callback logs it.
Fail ==
    /\ AnnounceFailed
    /\ AnnounceOver
    /\ \/ \E k \in Kinds :
             /\ pump[k] = "announce"
             /\ Pump(k, "ended")
             /\ lost' = TRUE
             /\ UNCHANGED timer
       \/ /\ timer = "announce"
          /\ timer' = "stopped"
          /\ UNCHANGED <<pump, lost>>
    /\ UNCHANGED <<given, guardClosed, trackVars, announced, closed, graceExpired,
                   clientVars, badWrite>>

\* Mutant of Adopt: closed is not tested again after the round trips.
AdoptAlways == TRUE

\* announceLocked keeps the client unless the publisher was closed meanwhile.
Adopt == ~closed

\* announceWithRetry returns a client.  A pump goes on to write its packet.
Succeed ==
    /\ announcing /\ newClient = "open"
    /\ AnnounceOver
    /\ newClient' = "none"
    /\ client' = IF Adopt THEN "open" ELSE client
    /\ announced' = Adopt
    /\ UNCHANGED trackVars
    /\ \/ \E k \in Kinds :
             /\ pump[k] = "announce"
             /\ IF Adopt
                THEN StopTimer /\ WritePacket(k, "open")
                ELSE Pump(k, "read") /\ UNCHANGED <<lost, timer, badWrite>>
       \/ /\ timer = "announce"
          /\ timer' = "stopped"
          /\ UNCHANGED <<pump, lost, badWrite>>
    /\ UNCHANGED <<given, guardClosed, closed, graceExpired, attempt, recorded>>

-----------------------------------------------------------------------------
(* The manager closes the sink: the guard first, then the publisher *)

CloseGuard ==
    /\ ~guardClosed
    /\ guardClosed' = TRUE
    /\ UNCHANGED <<given, pump, lost, trackVars, flagVars, timer, clientVars, badWrite>>

Close ==
    /\ guardClosed /\ ~closed
    /\ closed' = TRUE
    /\ StopTimer
    /\ client' = IF client = "open" THEN "closed" ELSE client
    /\ UNCHANGED <<given, pumpVars, trackVars, announced, announcing, graceExpired,
                   attempt, newClient, recorded, badWrite>>

-----------------------------------------------------------------------------
Init ==
    /\ wantAudio \in BOOLEAN /\ supported \in SUBSET Kinds
    /\ pump = [k \in Kinds |-> "read"]
    /\ guardClosed = FALSE /\ lost = FALSE
    /\ media = {} /\ desc = {}
    /\ announced = FALSE /\ announcing = FALSE
    /\ closed = FALSE /\ graceExpired = FALSE
    /\ timer = "none"
    /\ attempt = 0 /\ newClient = "none" /\ client = "none" /\ recorded = {}
    /\ badWrite = FALSE

\* Every action of the bridge itself.
Work ==
    \/ \E k \in Kinds : WriteRTP(k)
    \/ Fire \/ AnnounceAfterGrace \/ Attempt \/ Fail \/ Succeed \/ Close

Next ==
    \/ \E k \in Kinds : Packet(k) \/ TrackEnds(k)
    \/ CloseGuard
    \/ Work

Spec == Init /\ [][Next]_vars

\* The runtime runs what it can, the timer fires, every attempt is bounded by
\* its timeouts, and video packets come until the track ends.
FairSpec ==
    /\ Spec
    /\ \A k \in Kinds : WF_vars(WriteRTP(k))
    /\ WF_vars(Fire) /\ WF_vars(AnnounceAfterGrace)
    /\ WF_vars(Attempt) /\ WF_vars(Fail) /\ WF_vars(Succeed)
    /\ WF_vars(Close)
    /\ WF_vars(Packet("video"))

-----------------------------------------------------------------------------
(* Properties *)

\* No packet reaches a client that is closed, not there, or was never told of
\* the medium, which gortsplib would answer with a panic, although pumps go on
\* writing while the publisher is announced, announces in another goroutine, or
\* is closed.
SafeWrites == ~badWrite

\* A session is never announced without video, which would refuse the video
\* track when it came, nor without a track that is already known; and announcing
\* is set exactly while one pump or the timer's callback, and no second one, is
\* in announceLocked (publisher.go:352-365).
WholeAnnouncement ==
    /\ announced => "video" \in recorded /\ media \subseteq recorded
    /\ announcing <=> timer = "announce" \/ \E k \in Kinds : pump[k] = "announce"
    /\ Cardinality({k \in Kinds : pump[k] = "announce"}) <= 1

\* After Close, as soon as no announcement is under way, no RTSP client is open:
\* one that was being set up when Close ran is closed by whoever set it up.
NoClientLeft == closed /\ ~announcing => client # "open" /\ newClient = "none"

\* A camera whose video arrives is published, unless its connection is given
\* up, its sink closed or its track over: no failed, overtaken or abandoned
\* announcement leaves the publisher discarding packets for ever.
NoSilentStall ==
    "video" \in media ~> announced \/ lost \/ closed \/ pump["video"] = "ended"
=============================================================================
