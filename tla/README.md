# A TLA+ model of nest-to-ONVIF

nest-to-ONVIF is a bridge. One Go process (`nest-bridge serve`) keeps a WebRTC
session per Nest camera alive through Google's Smart Device Management API
(SDM), republishes the media over RTSP, and turns Google's detections into
ONVIF motion events, which a Node sidecar per camera serves to video recorders.
This directory holds TLA+ modules of its concurrent core, TLC runs over small
instances, and TLAPS proofs for every value of the constants.

Paths below are relative to the repository; `PROJECT.json` maps every definition
to the lines it translates, and lists the hazards and the properties aimed at
them.

## Inventory

| Component | Source | State it keeps | Operations |
|---|---|---|---|
| SDM command scheduler | `internal/scheduler/scheduler.go` | one slot, a priority queue, two time windows, the current rate | `Do`, `NoteRateLimited`, `CurrentQPM` |
| Camera session | `internal/session/manager.go`, `offer.go` | state, session id, expiry, failures; peer connection, sink | `Run`, `runOnce`, `renewLoop`, `waitForRenewal`, `stopRemote` |
| Renewal observer | `internal/session/manager.go` | event queue, worker flag, drain state | `emitRenewal`, `DrainRenewalObserver` |
| RTSP publisher, guarded sink, track pumps | `internal/media/publisher.go`, `internal/session/manager.go` | tracks, description, grace timer, RTSP client | `WriteRTP`, `announceAfterGrace`, `announceLocked`, `Close`, `pumpTrack` |
| Motion tracker, dispatcher, trigger | `internal/events/motion.go` | level and deadline per camera; latest edge per camera | `Handle`, `Sweep`, `Send`, `Deliver` |
| ONVIF events sidecar | `deploy/onvif/events-service.js` | motion level, pull subscriptions with their queues | trigger, Subscribe, PullMessages, Renew, Unsubscribe, ... |
| Supervisor, serve | `internal/supervisor`, `internal/cli/serve.go` | a restart delay per camera | `Run`, `superviseOne`, `startEvents` |
| Pub/Sub subscriber | `internal/events/subscriber.go` | none between two pulls | `Run`, `pull`, `dispatch`, `acknowledge` |
| Viewer and event bus | `internal/viewer` | SSE clients, eight places each | `Publish`, `Subscribe`, `handleEvents` |
| SDM client, token source | `internal/sdm` | the token last saved, the token file | `Generate`, `Extend`, `Stop`, `Token`, `Save` |
| Setup wizard | `internal/setup` | the draft; draft, key, config, environment and compose files; OAuth exchange | HTTP handlers, `saveWizardDraft`, `Deploy`, `installCredentials` |
| Configuration, generators | `internal/config`, `internal/mediamtx`, `internal/onvif` | none | `Load`, `validate`, `Generate` |
| Host discovery | `internal/setup/discovery.go`, `netscan.go` | none | read the host |
| Command line, host scripts | `internal/cli`, `cmd`, `bin`, `deploy/*.py` | wiring | - |

How they interact:

    serve --> Supervisor --> Manager.Run per camera --Do--> Scheduler --> Google SDM
                                 |  OnTrack                    ^ NoteRateLimited
                                 v                             |
                             track pumps --> guardedSink --> Publisher --> MediaMTX
                                 ^ loseConnection <---------------+ fatal error
    serve --> Subscriber <-- Pub/Sub
                 | Handle
                 v
              Tracker --emit--> EventBus --> browsers
                 ^ Sweep  +---> Dispatcher --POST--> sidecar <--pull-- recorders

    browser --> setup wizard --> draft files, config.yaml
                    | Deploy
                    +--> generators --> onvif.yml, mediamtx.yml; compose, credentials

What is hard in this code, and the property that is at stake:

* **Quota.** Google throttles a project that exceeds its rate, so no order of
  renewals, connects, cancellations and 429s may overdraw a window
  (`QuotaKept`, `WireQuota`, `BackoffHolds`, `ImplementsGate`), and the one slot
  through which all commands go must never be lost or doubled when a hand-over
  and a cancellation cross (`SlotKept`, `QueueOrder`, `EveryCallReturns`).
* **Leaks.** A connection can fail at six places and is cancelled anywhere; what
  exists by then must be released, here and at Google (`NothingLeftBehind`,
  `NoClientLeft`).
* **Work outside a lock.** The publisher announces, the tracker emits and the
  observer is called with the mutex released (`WholeAnnouncement`, `SafeWrites`,
  `SettlesWithoutRace`, `CalledInOrder`, `DrainIsHonest`).
* **Lossy, coalescing delivery of a level.** A detection passes Pub/Sub, which
  delivers at least once, and two goroutines; its level must win through queues
  of one place, browsers' channels, restarts and lost posts (`NoDetectionLost`,
  `EveryMessageLeaves`, `SettlesWithoutRace`, `RecordersInformed`,
  `ViewersInformed`, `NoSendOnClosed`, `LastWord`, `EdgesAlternate`).
* **Time.** Windows must last and end, subscriptions must live as long as they
  are used, back-offs must escalate (`HeldForLinger`, `EveryWindowEnds`,
  `LiveSubscriberKept`, `BackoffEscalates`).
* **Restarts and shutdown.** A crash must not find an older token than the one in
  use, failing cameras must slow down, and shutdown must end although tokens and
  commands can no longer be had (`UsedTokenIsSaved`, `RestartsBackOff`,
  `ShutdownEnds`, `CancelledRunStopsRemote`).
* **Files written one after the other.** The wizard's requests change the draft
  and save it in two critical sections, a deployment reads what it wrote again
  in other processes, and any of it may be cut off (`NothingUnsaved`,
  `RestartKeeps`, `StreamsResolve`, `KeyInstalled`, `FailsForCause`); its OAuth
  callbacks share a channel of one place (`CallbackAnswered`).

## Modules

| Module | Models | Steps |
|---|---|---|
| `Scheduler` | the scheduler | an action is one critical section of `s.mu`, or one choice of a `select`; `pc` says where a call of `Do` is |
| `QuotaGate` | what the scheduler promises, without queue, slot or pruning | a command begins if the whole history leaves room for it, and ends |
| `Session` | one manager, with Google's sessions and their remaining lives | one action per command answered, failed, or abandoned, and per step of teardown |
| `RenewalObserver` | the observer's worker and its drain | one action per critical section of `observerMu` |
| `Publisher` | a publisher behind its guarded sink, two pumps, the grace timer | one action per critical section of `Publisher.mu`; an announcement begins, tries and ends in actions of their own |
| `Motion` | tracker, dispatcher, trigger, and the level the sidecar was told | one action per critical section of `Tracker.mu` and per channel operation of `Send` |
| `Subscriber` | the pull loop, with Pub/Sub's leases | one action per request to Pub/Sub, per decoded message and per call of the handler |
| `EventBus` | the viewer's bus and its streaming handlers | one action per critical section or channel operation: `Publish` takes a snapshot of the clients, then offers the edge to one at a time |
| `EventPath` | `Motion`, `Subscriber` and `EventBus` as `startEvents` wires them (by `EXTENDS`) | the actions of the three, joined where `serve.go` calls one from the other |
| `EventsService` (constants in `EventsConstants`) | the sidecar | one action per request: Node runs a handler in one piece |
| `Recorders` | `Motion` with the whole sidecar of one of its cameras (by `INSTANCE`) and the recorders that subscribe | the actions of both, joined where the bridge posts to `/trigger/motion` and where the sidecar restarts |
| `TokenSource` | `persistingTokenSource`, oauth2's token in memory, the token file and its temporary file | one action per step of a call of `Token`: the refresh, the temporary file, the rename |
| `Supervisor` | the supervisor's goroutines, with `TokenSource` (by `EXTENDS`), the cameras' commands and the end of `serve` | one action per statement of `superviseOne` that can wait; a runner is its commands, its panics and its return |
| `ConfigRules` | the rules of `Load`, of the wizard's drafts, of the two generators and of the compose patch; a Google section is its project and whether the rest passes the checks | operators, no state |
| `Authorization` | the OAuth exchange of the wizard | one action per step of a callback; the channel of one place |
| `Setup` | the wizard's draft and files, and the deployment (extends `ConfigRules`, `Authorization`) | one action per critical section of `Server.mu`, per file and per external process; a restart may cut a write short |
| `...Proofs` | theorems: `Scheduler`, `Session`, `RenewalObserver`, `Publisher`, `EventPath` (with `Motion` and `Recorders`), `EventsService`, `Supervisor`, `Setup` | - |
| `MC...` | instances for TLC | - |

Correspondence of state. Names are the code's where there is one. `pc`, `pump`,
`worker` and `drain` hold where a goroutine is; variables marked *history* in
their module (such as `Scheduler!admitted`, `Scheduler!wire`,
`EventsService!handedOut`, `Publisher!badWrite`, `Motion!quiet` and `raced`,
`Subscriber!owed`, `EventBus!missed`, `Setup!touched`)
record the past for a property and no action's guard reads them.

Time. `Scheduler` has a clock and sets of stamped admissions: the slices of the
code are sorted, as the clock is read under the mutex. In the other modules a
deadline is stored relative to the present and stops counting where no
comparison in the code can tell the difference, so that those models run for
ever within finitely many states.

What stands for another component. `Session` takes `Do` as: the command runs
once, or the call returns without it because its context is done. `EventPath`
takes the sidecar as a level per camera that may restart or take nothing.
`Supervisor` takes a manager as a sequence of commands, of which a failed one
leads to the stop, and the scheduler as its slot; that slot is why one call of
`Token` is under way at a time and the two mutexes of `auth.go` are left out.
`Publisher` takes the manager as something that closes the sink at any time.
`EventsService` takes the bridge and the recorders as any sequence of requests;
in `Recorders` the bridge is `Motion`, and `Motion`'s level is the sidecar's.
`Setup` takes the machine as ready (`requireReady`), a detected address as any
of a set, and Docker as something that succeeds or fails. Modelled as external:
context cancellation, the sessions at Google, Pub/Sub's backlog and leases, and
oauth2's refresh.

## Runs

| Run | Instance | Shows |
|---|---|---|
| `scheduler_admission` | 3 call sites (renewals and connects of one camera, connects of another), 1 per Minute, 1 per Hour, Minute 2 ticks, Hour 3 | one owner of the slot, no slot lost, priority and arrival respected among the queued, no window overdrawn, neither by stamps nor (but for one) by what is on the wire; the scheduler implements `QuotaGate` |
| `scheduler_backoff` | 2 call sites, rate 3, fair | a 429 counts at once, the rate is at any time what quiet time has earned, every call of `Do` returns |
| `event_path` | 1 camera, linger 1, ceiling 2, a message with one detection and one nobody can use, 1 browser with 1 place; three scenarios; fair | no detection is lost before the tracker, every message is acknowledged in the end, windows last as they should and end, sidecar and browser end on the tracker's level unless a post was lost, a channel was full or two emissions raced |
| `motion_settle` | violation | the race of the two emitters settles on the wrong level |
| `events_delivery` | the bridge (1 camera, linger and ceiling 1, lost posts, restarts of either side) and its sidecar: 2 subscriptions, 2 topics, 3 messages a pull, queues of 6 | recorders end on the tracker's level; the last word of every topic is the sidecar's level; no state twice in a row; a live subscriber is kept |
| `events_reap` | violation | triggers alone make abandoned queues grow |
| `session_manager` | 2 ids at Google, lifetimes 1 and 5, Retry-After 0 and 9, fair | sessions, sinks and connections are released on every path; back-offs escalate; cancellation and loss are acted on |
| `publisher_announce` | both tracks, either codec refused or not, with and without audio, 3 attempts, fair | nothing is written to a client that cannot take it, announcements are whole, nothing stays open after `Close`, video is not dropped for ever |
| `observer_delivery` | 5 renewals, fair | each event is delivered once and in order; the drain's count is honest; the channel is closed once |
| `supervisor_restarts` | 2 cameras, 2 tokens, delays 1 and 2, healthy after 1, fair | no command goes out with a token that is not in the file; restarts back off and recover; serve returns whatever the cameras were doing |
| `supervisor_stop` | violation; 1 camera | a shutdown with an expired token leaves the session at Google |
| `setup_wizard` | 2 open requests, 3 callbacks, ten scenarios, fair | what was entered is saved and comes back after a restart, before what config.yaml says; the files of a deployment fit each other; it fails only for the causes named; callbacks are answered |

### Why the bounds are enough

* *Scheduler.* With a rate of 1 the second call of every window has to wait, so
  three calls meet the full window, the hand-over, the sleep and the
  cancellation in every order; two cameras tell the device window, its lazy
  pruning and the hourly sweep from the global one; an Hour that is not a
  multiple of the Minute separates their boundaries. `scheduler_backoff` needs a
  rate that can be halved and then doubled twice, the second time up to the
  ceiling, hence 3; a call that sleeps past `Horizon` finds both recovery
  intervals at once. `Horizon` stops the clock once nobody
  sleeps, `MaxCalls` ends the calls; then the model stutters (`Quiet`).
* *Event path.* Cameras share only the mutex and the two emitters; one camera
  with one place in its queue shows displacement, coalescing and the race. A clock
  reading may be `MaxLag` = 1 tick old, enough to cross a deadline. All three
  components at once, with every fault, are out of TLC's reach; `Scenarios`
  lists what one behaviour may see: a restart of the bridge or a sidecar that
  posts and restarts; two faults of Pub/Sub on two messages, one of which
  nobody can use; a browser that comes and goes. A scenario restricts the
  environment and never the bridge.
* *EventsService, Recorders.* With two topics and three messages a pull, the
  messages of one edge fall into different pulls. `MaxQueue` bounds the triggers and
  `MaxSubs` the ids between two restarts of the process; both are bounds of the
  model and not of the code. `Limits` splits the instance: two recorders, or one
  and the sidecar's clock, which is what reaps. A subscription's lifetime depends on
  its own contacts only, so a second one adds nothing to reaping. The bridge has one
  camera, as in `event_path`, and readings of the clock without lag, which only
  move deadlines.
* *Session.* Two ids are what an extension that changes the id needs, and a
  third connection reuses an id that has expired. The lifetimes lie below and
  above the ceiling on the renewal delay; the Retry-Afters below `MinRetryDelay`
  and above `MaxBackoff`; four failures reach the cap.
* *Publisher.* Nothing is cut: tracks, flags and three attempts are all there
  is, and the pauses' length is not observable.
* *Observer.* Five events let a worker end and a second and third one start,
  with a drain at any point.
* *Supervisor.* Two cameras contend for the slot and the token. A token nobody
  holds any more may be issued again, so two are enough for a failed save
  followed by any number of further calls (`supervisor_stop` has three). Delay
  1 doubles once and then meets the ceiling 2.
* *Setup.* Two requests open at a time make every pair of handlers overlap. A
  scenario names the kinds of request a behaviour may see, at most four with the
  restarts, and the state it starts from: no config.yaml or one with a
  camera and a subscription of its own, a compose file as shipped, already patched for this or another
  host, or with the loopback binding missing or twice; as root or not. The
  lists of cameras contain one that fits, one path twice, a linger that does not
  parse, and address pools (two addresses) that are exhausted and overrun. The
  Google sections a browser sends are another project's than config.yaml's, one
  without a client, and an empty one; the keys two real ones and `{}`. The
  channel of the OAuth exchange needs three callbacks to block one.

### Fairness

Every liveness property is checked under the `FairSpec` of its module
(`PathFairSpec` for `event_path`). All of them assume weak fairness of the
program's own steps, which the Go runtime's scheduling and expiring timers
justify, and of the clock. Beyond that:

* `Scheduler`: a command ends, by `requestTimeout` of the HTTP client.
* `Session`: `Generate` and `Extend` are answered (by `EveryCallReturns` and that
  timeout), but nothing is promised for `Stop`, whose `Do` may wait longer than
  `stopTimeout`: `CancelReturns` has to hold by the timeout alone. Strong
  fairness is assumed of `WaitBroken` only: when the time to renew has come and
  the connection is lost too, `select` chooses with equal chance and does not
  take the renewal for ever.
* `EventPath`: the subscriber's and the sweeper's goroutines and the
  acknowledgements run, and a lease ends. Pub/Sub hands out all it offers
  strongly fairly: a pull may be lost, but not each one. Nothing is assumed of
  sidecars and browsers, which may never take anything; faults are bounded by the
  scenario, so that an acknowledgement gets through in the end.
* `Publisher`: an attempt ends by its timeouts, and video packets keep coming
  until the track ends. `NoSilentStall` does not assume that any attempt succeeds.
* `Supervisor`: a call of `Token` and a request end by their timeouts, a stop is
  sent or given up after `stopTimeout`, and a runner leaves once the context is
  done (`CancelReturns` of `Session`). Nothing is assumed of a success.
* `RenewalObserver`: the callback returns, and `DrainRenewalObserver`'s context
  expires.
* `Setup`: the goroutines of the OAuth exchange run; an exchange ends after 30
  seconds, the reader gives up after six minutes.

## Proofs

TLC has checked each formula first. The proofs assume only what the modules
assume of their constants.

**Scheduler** (`SchedulerProofs`), for any set of callers and cameras, any rates
and any lengths of the windows:

* `TypeCorrect`: `TypeOK`. The two facts that are not bookkeeping are
  that the rate stays in `1..GlobalQPM` through halving and recovery
  (`RecoveredType`) and that `waitFor` is positive whenever a window is full
  (`WaitPositive`): the oldest call of a full window is younger than the window.
* `SlotCorrect`: `SlotKept`, that is `SlotExclusion` and `SlotNeverLost`. Neither
  is inductive. `SlotInv` adds that a grant exists only for a caller that still
  waits, that the queue is exactly the waiting callers without a grant, and that
  `holder` is set exactly while someone owns the slot. Those facts are what
  makes the crossing of a grant and a cancellation harmless: the leaving caller
  is either still in the queue or holds a grant it must hand back. Four lemmas
  cover the ways ownership moves (`MoveOutside`, `MoveInside`, `TakeGrant`,
  `ReleaseHandsOn`).
* `QuotaCorrect`: `QuotaKept` and `WindowsComplete`. `QuotaInv` adds to
  the two limits that the admissions are finite and not of the future, that the
  kept windows hold admissions only, and that they hold every admission young
  enough to count (`WindowsComplete`). The step that matters is an admission:
  each earlier window is unchanged by it or bounded by what `prune` has just
  counted (`AdmitGlobal`, `AdmitDevice`).
* `OrderCorrect`: `QueueOrder`. From `SlotInv`, a caller becomes the owner only
  by finding the slot free, when the queue is empty, or by a grant, which goes to
  the least of the queue (`NewOwner`).
* `GateImplemented`: `ImplementsGate`, the refinement of `QuotaGate`.
  `WindowsExact` says that the pruned windows count exactly what the whole
  history counts; `NumberInv` that the numbers of admissions are distinct, so that
  a new one is not in the history already; `SlotInv` that only one call is in
  progress. Every other step leaves the gate as it is.
* `BackoffCorrect`: `BackoffHolds`. A call is admitted only when the window holds
  fewer than the rate, so the point is the rate: the code doubles it late and for
  several intervals at once, the history (`earned`) at the end of each. `RateInv`
  says that the history is ahead by exactly the doublings that `recoverRate` has
  yet to do. The loop has one outcome (`OneOutcome`) and stays at the ceiling
  (`CeilingStays`), so a recovery uses up the difference (`RateRecovered`).
* `WireCorrect`: `WireQuota`. Commands leave later than they are stamped, by any
  time, so the quota of stamps says nothing by itself. `WireInv` says that a
  command has left before the next one is stamped, which is due to the slot
  (`RunningInv`): of the commands that left within a Minute all but the first
  were therefore stamped within it too, and `QuotaInv` bounds those.

**Sidecar** (`EventsServiceProofs`), for any topics, pull limit, lifetimes and
subscriptions, assuming that no topic is listed twice:

* `WordCorrect` and `AlternateCorrect`: `LastWord` and `EdgesAlternate`. Both rest
  on one fact about `LastState`, that it may be computed piece by piece
  (`LastStateOfSplit`): it then does not matter where a pull cuts the queue
  (`PullTells`). The invariant `Owed` says of every subscription that what it
  still has to get, after what it got, ends on the present level and never
  repeats a state; an edge appended to such a queue (`EdgeTells`) and the seed
  of a new one (`SeedTells`) keep it.
* `LiveCorrect`: `LiveSubscriberKept`. The invariant `Contact` says that what is
  left of a subscription and its silence make up a lifetime at least.

**Session manager** (`SessionProofs`), for any ids, lifetimes, Retry-Afters and
limits: `TypeCorrect`, and `SessionCorrect` for `NothingLeftBehind`. What has to
be added is that the manager holds one session at most, so that an extension
under a new id replaces all it holds. `EscalationCorrect` is `BackoffEscalates`:
`BackoffInv` bounds the last back-off by the one that the failures so far earn,
and the powers of two grow with their exponent. No induction is at hand for the
latter; the proof counts instead, as a set of n elements has `2 ^ n` subsets and a
larger set has more of them.

**Renewal observer** (`RenewalObserverProofs`), for any number of renewals:
`TypeCorrect`, `OrderCorrect` for `CalledInOrder` and `DrainCorrect` for
`DrainIsHonest`. `Places` says where every event is (delivered, in flight, or
in the queue without a gap), `Sealing` what the drain may count on.

**Publisher** (`PublisherProofs`), for any interleaving of the pumps, the timer's
callback and `Close`: `WriteCorrect` for `SafeWrites`, `AnnouncementCorrect` for
`WholeAnnouncement`, `CloseCorrect` for `NoClientLeft`. The module has no constants,
so that its run visits every state there is; the proof says why they are right.
Giving the mutex away in `announceLocked` is harmless because announcing freezes the
description: by `TrackInv` the tracks, the description and what the server was told
are the same from the announcement on, as a new track is refused meanwhile.
`OwnerInv` says who announces, a pump or the callback and nobody else, and
`ClientInv` that the client is open exactly from the announcement to `Close`, and
that a second one is only in the hands of whoever announces. A write that passed the
guard before `Close` therefore finds the publisher closed.

**Motion** (first part of `EventPathProofs`), for any cameras, lingers, ceiling and lag
of the clock readings:

* `HoldCorrect`: `HeldForLinger`, an action property. `Sweep` and `Handle` compare
  a deadline (`clearIn`), the property is about the time since the last detection
  (`quiet`). `HoldInv` says that the two make up a linger at least. It holds
  although readings are old because a detection only ever moves the deadline on.
* `SettleCorrect`: `SettlesWithoutRace`. Nothing about a settled sidecar is
  inductive. `LevelInv` follows the last edge of a camera that did not race:
  whichever of the goroutine, the queue, the post and the sidecar carries one of
  the camera's edges last carries the tracker's level. The steps that matter
  are those of `Send`, between which the dispatcher or the other emitter may empty
  or fill the queue; a goroutine that is about to try again finds it empty
  unless the two have overlapped.
* `MotionTypes`: `TypeOK`, with `PlaceInv`, which edges a goroutine has in hand where.

**Event path** (second part of `EventPathProofs`), for any cameras, messages, batches, browsers
and scenarios. Assumed are two facts about the wiring in `serve.go`: detections
name the cameras the tracker was made for, and the bus is served by the tracker's
two goroutines.

* `PathImplementsMotion`: every behaviour of the composition is one of `Motion`.
  Each action of the path is an action of `Motion`, joined with the others', or
  leaves its variables alone. `PathHoldCorrect` and `PathSettleCorrect` follow
  for the path, where detections arrive twice or late.
* `DeliveryCorrect`: `NoDetectionLost`. `OweInv`: while its message is in the
  batch, an owed detection is undispatched, among the calls to come or inside
  `Handle`; the acknowledgement waits for all three.
* `BusCorrect`: `NoSendOnClosed`. `BusInv`: whoever `Publish` has still to
  serve is a client, and every client's channel is open.
* `BrowsersCorrect`: `ViewersInformed`. `ViewInv`: unless an edge of the camera has
  still to be offered to the browser, the last one in its channel, or else the
  one it was shown, has the tracker's level. A browser that comes late was shown
  nothing, and a snapshot of clients that `Publish` has taken never has to serve
  it; `PublishingInv` and `ChannelInv` say so.
* `PathTypes`: `PathTypeOK`, the types and the places of all three components. No
  run lists it; it is proved, and it holds of `event_path`.

**Recorders** (third part of `EventPathProofs`), for any cameras, topics, pull limits,
lifetimes and recorders. The bridge and the sidecar are proved about apart, each
against any behaviour of the other; the composition needs no invariant of its own.

* `RecordersImplementMotion` and `RecordersImplementSidecar`: every step is one of
  `Motion`, and one of `EventsService` or none. The step that matters is the post:
  by `PostTriggers` it is a trigger of the sidecar, or leaves its level and
  its subscriptions as they are, because the post was lost or was no change.
* `RecorderWordCorrect`, `RecorderAlternateCorrect` and `RecorderLifeCorrect`: what
  `EventsServiceProofs` shows for any clients holds with the bridge as it is. The proofs are used through `INSTANCE`, which copies the
  definitions; the lemmas `Same...` say that the copies are the same.
* `RecordersCorrect`: `RecordersInformed`, from the tracker to the recorders.
  `SettleCorrect` brings the tracker's level to the sidecar, `LastWord` brings the
  sidecar's to whoever pulls. With `PathImplementsMotion`, what is proved of the
  tracker here holds with Pub/Sub in front of it.

**Supervisor and token source** (`SupervisorProofs`), for any cameras, delays and
tokens, assuming that there is a token and that `NoToken` is none:

* `TokenCorrect`: `UsedTokenIsSaved`. The property speaks of a call that
  has its token; `TokenInv` adds what holds while the call is under way: `last`
  is empty or the token in the file, and a temporary file that is about to be
  renamed holds the token in memory. The lemma `ObtainedIsSaved` is the point:
  `Token` skips the save only for a token equal to `last`.
* `BackOffCorrect`: `RestartsBackOff`, with `TypeCorrect`; `RestartInv` says what
  a camera's delay and its last sleep have to do with each other at each place
  of its loop.

**Setup** (`SetupProofs`), for any cameras, hosts, keys, scenarios and numbers of
requests and callbacks. Assumed are the types of what a request may enter; that a
file with contents is told from a missing and from an empty one; and that the
wizard is first started beside no config.yaml or one that `nest-bridge` loads, and
a compose file that binds some host. The strings of the model are in finite sets
that list them (`Address`), as the provers do not know a string for one.

* `SetupTypes`: `TypeOK`. The hard part is that addresses stay distinct.
  `finalizeCameras` fills in the n-th free address at the n-th camera in need of
  one; `NthMember` and `EveryNth` say what the n-th member of a set is,
  `FinalizedOwnMAC` that none is given out twice or was chosen by hand, although
  the search may walk past the last address. `LoadedOK` follows the draft
  through the merges of a start, from files of which each may be missing,
  cut off, or of another age. `MuInv` says that one request at a time is past the
  lock.
* `SavedCorrect`: `NothingUnsaved`, for requests that change and save the draft in
  two critical sections. `SavedInv` leaves out that `mu` is free: a save holds the
  whole draft as it is by then, so it makes up for every change before it.
* `RestartCorrect`: `RestartKeeps`, an action property. From `SavedInv` the files
  hold the draft at the moment of the restart; `LoadedKeeps` is then about the
  merges alone: each section of the draft file that says something replaces the
  one of config.yaml, whatever that is. A section that was emptied says nothing,
  nor does a Google section without a project, and the older files show through;
  the property says no more of those.
* `StreamsCorrect`: `StreamsResolve`. `DeployInv` is the chain of assertions of the
  deployment, one per step (`Fits`): config.yaml is still its own, and each file
  made from it so far fits. A step of another request ends `alone` or changes no
  file (`FitsMoves`, `FitsKept`).
* `KeyCorrect`: `KeyInstalled`. `KeyInv` says of the draft and of a deployment's copy
  that a key they claim is real unless a write of the key file was cut off. The
  property is about deployments that nothing overlapped, with a draft that no
  events request was still to settle. Two ways to deploy without a real key are
  the code's own: the empty file a crash left behind is believed, and any upload
  that is not empty is taken for a key, `{}` (`Braces`) too.
* `FailCorrect`: `FailsForCause`. A deployment's configuration is sound (`ToFileSound`),
  so the generators can refuse it only for what the wizard does not look at.
  `ComposeInv` says what patching leaves behind (`PatchedBindings`): the placeholder,
  or a host the file was patched for, so that the next patch finds one or the
  other.

Only model-checked, and why:

* All liveness (`EveryCallReturns`, `EveryWindowEnds`, `EveryMessageLeaves`,
  `CallbackAnswered`, `CancelReturns`, `LossEndsConnection`, `NoSilentStall`,
  `ShutdownEnds` and the like): outside the prover's reach, as are `ENABLED` and
  induction over data.
* Nothing else: every invariant and every action property of a run is a theorem.

## Findings

Three runs expect a violation; each states what a comment or a test says and the
code does not do.

1. `motion_settle`: "the newer edge is the one worth keeping"
   (`motion.go:231`). Edges are emitted after unlocking, so the last `Send` may
   carry the older edge and the sidecar settles on the wrong level.
2. `events_reap`: "Reap on every request ... it cannot run away on its own"
   (`events-service.js:338`). The trigger grows the queues and does not reap.
3. `supervisor_stop`: "TestRunCancellationStopsRemoteClosesPeerAndJoinsGoroutines"
   (`manager_test.go:430`). `stopRemote` gives the stop a context of its own
   (`manager.go:620`), but `NewTokenSource` ties every refresh to the context of
   the process (`auth.go:166`). If the access token has expired when the process
   is told to end, the stop gets no token and is never sent. The test does not
   see it as its API takes no token.

Seen while modelling, without a run:

* `manager_test.go:26` says that renewing at 60% of the lifetime "leaves room for
  one retry before expiry", but the first `Extend` that fails ends the
  connection (`manager.go:654`).
* "Ordered by priority then arrival, so renewals overtake queued connections"
  (`scheduler.go:248`) is true of the queue. A renewal that sleeps for the global
  window is in no queue, and a later connect can be admitted before it.
* A redelivered detection raises motion again, although it is long over: `Handle`
  dates a detection by its arrival. No doc promises otherwise.
* A deployment for another host address fails on the compose file the first one
  has patched (`deploy.go:123`), and, unless as root, on the key file it
  installed with mode 0400 (`deploy.go:213`); `docs/SETUP.md:108` describes
  deploying again. `FailsForCause` names both causes.
* The wizard accepts two cameras of one path and a linger that does not parse,
  which the generators then refuse.

## Not modelled, and why

* *A post to the sidecar that times out and arrives after the next one*: in
  `Motion` it arrives by then or never. A late one leaves the sidecar on an older
  level, as a lost one does, until the next post.
* *SDM client*: requests and their parsing keep no state; the modules above use
  its error classes.
* *Host discovery*: reads the host and keeps no state.
* *Command line*: flags and printing. The verdict of `nest-bridge stream` is
  arithmetic on counters at its end.
* *SDP of the offer and the answer*, and the text of SOAP, YAML and HTML: layout,
  not state. `Session` has the offer as one step that may fail.
* *Host scripts and patches*: sequential input and output on the host.
* `Authorize` and the factory's errors: the first runs once, in a command of its
  own; `RunServe`'s factory returns none.
* `Session`'s and `Publisher`'s counters: reported only.
* Three hazards without a property, with the reason in `PROJECT.json`: a
  restarted sidecar numbers its subscriptions from the start again, so that an
  old client pulls a new client's messages; the answer to a pull may be lost; a
  video pump that ends on an error that is not fatal.

## Plan

1. *Composition.* `Session` with an abstract sink that `Publisher` implements, in
   place of the free closing in `Publisher`; `Recorders` with `EventPath` in the place
   of `Motion`, which `PathImplementsMotion` allows; a recorder whose answers may be
   lost, or that comes back after a restart of the sidecar with an old reference.
2. *Proofs.* Every safety property of a run is proved. With the composition of item 1
   comes that `Publisher` implements the abstract sink of `Session`.

A new component joins an existing run as part of a composition where it takes
the place of that run's environment, and gets a run of its own only if it asks a
question of its own.
