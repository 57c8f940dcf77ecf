------------------------------ MODULE Supervisor ------------------------------
(***************************************************************************)
(* nest-bridge serve (internal/cli/serve.go): the supervisor               *)
(* (internal/supervisor/supervisor.go) with one goroutine per camera, and  *)
(* the token source they share.                                            *)
(*                                                                         *)
(* A camera's runner is a session manager, reduced to what matters here: it*)
(* generates, extends and stops a session by commands that take the        *)
(* scheduler's slot and then a token.  It returns when the context is done;*)
(* otherwise only a panic ends it, whose unwinding runs the deferred stop. *)
(*                                                                         *)
(* Left out: the goroutines of the event path, which leave when the same   *)
(* context is done, and a failing factory: RunServe's never fails.         *)
(***************************************************************************)
EXTENDS TokenSource, Integers, FiniteSets

CONSTANTS
    Cameras,
    RestartDelay, MaxRestartDelay, HealthyAfter     \* as in Supervisor

ASSUME DelayAssumption ==
    /\ {RestartDelay, MaxRestartDelay, HealthyAfter} \subseteq Nat \ {0}
    /\ RestartDelay <= MaxRestartDelay

VARIABLES
    pc,         \* per camera: check, off, live, stop, back, sleep or done;
                \* off, live and stop are within Runner.Run
    panicked,   \* the runner is being unwound
    remote,     \* the camera has a stream session at Google
    delay,      \* superviseOne's delay
    lasted,     \* how long the run has lasted, up to HealthyAfter
    timer,      \* what is left of the sleep
    slept,      \* history: the sleep before this run
    slot,       \* the cameras whose command is being run: one at most
    served      \* RunServe: up or returned

loopVars == <<pc, panicked, delay, lasted, timer, slept>>
vars == <<sourceVars, loopVars, remote, slot, served>>

Smaller(m, n) == IF m < n THEN m ELSE n

\* The delay after a sleep of d.
NextDelay(d) == Smaller(2 * d, MaxRestartDelay)

\* Mutant of ShuttingDown: the context is not looked at.
ShuttingDownNever == FALSE

\* ctx.Err() in superviseOne and in its Sleep.
ShuttingDown == cancelled

Goto(c, label) == pc' = [pc EXCEPT ![c] = label]

-----------------------------------------------------------------------------
(* superviseOne *)

Start(c) ==
    /\ pc[c] = "check"
    /\ Goto(c, IF ShuttingDown THEN "done" ELSE "off")
    /\ UNCHANGED <<sourceVars, panicked, lasted, remote, delay, timer, slept, slot, served>>

\* Mutant of Recovered: every run resets the delay.
RecoveredAlways(c) == TRUE

\* A run that lasted.
Recovered(c) == lasted[c] >= HealthyAfter

\* From the return of runOnce into Sleep.
Ended(c) ==
    /\ pc[c] = "back"
    /\ \/ ShuttingDown /\ Goto(c, "done") /\ UNCHANGED <<delay, timer>>
       \/ /\ ~ShuttingDown
          /\ delay' = [delay EXCEPT ![c] = IF Recovered(c) THEN RestartDelay ELSE @]
          /\ timer' = [timer EXCEPT ![c] = delay'[c]]
          /\ Goto(c, "sleep")
    /\ panicked' = [panicked EXCEPT ![c] = FALSE]
    /\ lasted' = [lasted EXCEPT ![c] = 0]
    /\ UNCHANGED <<sourceVars, remote, slept, slot, served>>

\* Sleep ends: with the time, or early with the context.
SleepOver(c) ==
    /\ pc[c] = "sleep"
    /\ \/ ShuttingDown /\ Goto(c, "done") /\ UNCHANGED <<delay, slept>>
       \/ /\ timer[c] = 0
          /\ delay' = [delay EXCEPT ![c] = NextDelay(@)]
          /\ slept' = [slept EXCEPT ![c] = delay[c]]
          /\ Goto(c, "check")
    /\ timer' = [timer EXCEPT ![c] = 0]
    /\ UNCHANGED <<sourceVars, panicked, lasted, remote, slot, served>>

-----------------------------------------------------------------------------
(* The runner *)

\* Do runs a command, or returns without it: for ever done with the context,
\* except that stopRemote gives Stop a context of its own.
Command(c) ==
    /\ slot = {}
    /\ \/ pc[c] \in {"off", "live"} /\ ~cancelled /\ ~panicked[c]
       \/ pc[c] = "stop"
    /\ slot' = {c}
    /\ Ask
    /\ UNCHANGED <<loopVars, remote, served>>

\* The session the runner holds is stopped, or the runner is without one.
LeaveRun(c) == IF cancelled \/ panicked[c] THEN "back" ELSE "off"

\* The command has its token and is sent; Google may fail it, and may have
\* carried it out all the same.
Sent(c) ==
    /\ slot = {c} /\ call = "ok"
    /\ \/ /\ Goto(c, CASE pc[c] \in {"off", "live"} -> "live"
                       [] pc[c] = "stop" -> LeaveRun(c))
          /\ remote' = [remote EXCEPT ![c] = pc[c] # "stop"]
          /\ UNCHANGED trouble
       \/ /\ Goto(c, CASE pc[c] = "off" -> LeaveRun(c)
                       [] pc[c] = "live" -> "stop"
                       [] pc[c] = "stop" -> LeaveRun(c))
          /\ \E carried \in BOOLEAN :
                remote' = [remote EXCEPT ![c] = IF carried THEN pc[c] # "stop" ELSE @]
          /\ trouble' = TRUE
    /\ slot' = {} /\ call' = "none"
    /\ UNCHANGED <<cancelled, memory, expired, last, file, temp,
                   panicked, delay, lasted, timer, slept, served>>

\* Without a token the command is not sent.
Unsent(c) ==
    /\ slot = {c} /\ call = "failed"
    /\ Goto(c, IF pc[c] = "live" THEN "stop" ELSE LeaveRun(c))
    /\ slot' = {} /\ call' = "none"
    /\ UNCHANGED <<cancelled, memory, expired, last, file, temp, trouble,
                   panicked, delay, lasted, timer, slept, remote, served>>

\* The connection is lost, or the context is done, or the runner panics.
Leave(c) ==
    /\ c \notin slot
    /\ \/ pc[c] = "live" /\ Goto(c, "stop") /\ UNCHANGED panicked
       \/ pc[c] = "off" /\ cancelled /\ Goto(c, "back") /\ UNCHANGED panicked
       \/ /\ pc[c] \in {"off", "live"}
          /\ panicked' = [panicked EXCEPT ![c] = TRUE]
          /\ Goto(c, IF pc[c] = "live" THEN "stop" ELSE "back")
    /\ UNCHANGED <<sourceVars, delay, lasted, timer, slept, remote, slot, served>>

\* stopTimeout is over before the scheduler has quota for the stop.
StopTimesOut(c) ==
    /\ pc[c] = "stop" /\ c \notin slot
    /\ Goto(c, LeaveRun(c))
    /\ trouble' = TRUE
    /\ UNCHANGED <<cancelled, tokenVars, panicked, delay, lasted, timer, slept,
                   remote, slot, served>>

-----------------------------------------------------------------------------
(* The process *)

\* wg.Wait in Supervisor.Run.
Finished == \A c \in Cameras : pc[c] = "done"

Return ==
    /\ served = "up" /\ Finished
    /\ served' = "returned"
    /\ UNCHANGED <<sourceVars, loopVars, remote, slot>>

\* The process is killed and started again; sessions run out at Google.
Restart ==
    /\ served = "up"
    /\ Load
    /\ cancelled' = FALSE /\ trouble' = FALSE
    /\ pc' = [c \in Cameras |-> "check"]
    /\ panicked' = [c \in Cameras |-> FALSE]
    /\ delay' = [c \in Cameras |-> RestartDelay]
    /\ lasted' = [c \in Cameras |-> 0]
    /\ timer' = [c \in Cameras |-> 0]
    /\ slept' = [c \in Cameras |-> 0]
    /\ remote' = [c \in Cameras |-> FALSE]
    /\ slot' = {}
    /\ UNCHANGED served

InRun(c) == pc[c] \in {"off", "live", "stop"}

Tick ==
    /\ lasted' = [c \in Cameras |->
                     IF InRun(c) THEN Smaller(lasted[c] + 1, HealthyAfter) ELSE lasted[c]]
    /\ timer' = [c \in Cameras |-> IF timer[c] > 0 THEN timer[c] - 1 ELSE 0]
    /\ <<lasted, timer>>' # <<lasted, timer>>
    /\ UNCHANGED <<sourceVars, pc, panicked, delay, slept, remote, slot, served>>

Init ==
    /\ SourceInit
    /\ pc = [c \in Cameras |-> "check"]
    /\ panicked = [c \in Cameras |-> FALSE]
    /\ delay = [c \in Cameras |-> RestartDelay]
    /\ lasted = [c \in Cameras |-> 0]
    /\ timer = [c \in Cameras |-> 0]
    /\ slept = [c \in Cameras |-> 0]
    /\ remote = [c \in Cameras |-> FALSE]
    /\ slot = {} /\ served = "up"

\* The goroutine of one camera.
Step(c) ==
    \/ Start(c) \/ Ended(c) \/ SleepOver(c)
    \/ Command(c) \/ Sent(c) \/ Unsent(c) \/ Leave(c)

\* A call of Token, made by the camera in the slot.
Token == slot # {} /\ Obtain /\ UNCHANGED <<loopVars, remote, slot, served>>

Elsewhere == (Expire \/ Cancel) /\ UNCHANGED <<loopVars, remote, slot, served>>

Next ==
    \/ \E c \in Cameras : Step(c) \/ StopTimesOut(c)
    \/ Token \/ Return \/ Restart \/ Tick \/ Elsewhere

Spec == Init /\ [][Next]_vars

\* Goroutines are scheduled, requests end by their timeouts, timers run, and a
\* stop is admitted or given up.
FairSpec ==
    /\ Spec
    /\ WF_vars(Token) /\ WF_vars(Return) /\ WF_vars(Tick)
    /\ \A c \in Cameras :
          /\ WF_vars(Start(c) \/ Ended(c) \/ SleepOver(c))
          /\ WF_vars(Sent(c) \/ Unsent(c))
          /\ WF_vars(cancelled /\ Leave(c))
          /\ WF_vars(StopTimesOut(c))
-----------------------------------------------------------------------------
(* Properties *)

\* The types of the variables; a command is under way in at most one camera,
\* and only within its run.
TypeOK ==
    /\ pc \in [Cameras -> {"check", "off", "live", "stop", "back", "sleep", "done"}]
    /\ delay \in [Cameras -> Nat] /\ slept \in [Cameras -> Nat]
    /\ lasted \in [Cameras -> Nat] /\ timer \in [Cameras -> Nat]
    /\ slot \subseteq {c \in Cameras : InRun(c)} /\ \A c, d \in slot : c = d
    /\ served \in {"up", "returned"}

\* A command goes out only with the token a restart would begin with: no token
\* is used that was refreshed but never reached the file, however many saves
\* fail before one succeeds.
UsedTokenIsSaved == call = "ok" => file = memory

\* A camera that keeps failing waits at least twice as long each time, up to the
\* ceiling, and the wait starts afresh only after a run that lasted
\* (supervisor.go:147-152).
RestartsBackOff ==
    [][\A c \in Cameras : pc[c] = "back" /\ pc'[c] = "sleep" /\ lasted[c] < HealthyAfter =>
          timer'[c] >= Smaller(2 * slept[c], MaxRestartDelay)]_vars

\* Whatever its cameras were doing when the context was done, serve returns (or
\* the process is started again).
ShutdownEnds == cancelled ~> served = "returned" \/ ~cancelled

\* TestRunCancellationStopsRemoteClosesPeerAndJoinsGoroutines
\* (manager_test.go:430): a cancelled run stops its session at Google.  The stop
\* has a context of its own, but the token does not: once it has expired it can
\* only be refreshed under the context that is done, so the stop is never sent
\* although nothing was wrong anywhere.
CancelledRunStopsRemote ==
    \A c \in Cameras : pc[c] = "done" /\ remote[c] => trouble
=============================================================================
