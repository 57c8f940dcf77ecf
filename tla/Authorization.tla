----------------------------- MODULE Authorization -----------------------------
(***************************************************************************)
(* The wizard's OAuth exchange (internal/setup/handlers.go).  Starting an  *)
(* authorisation makes a state and a one-place channel, from which one     *)
(* goroutine reads once or gives up after six minutes.  A callback takes   *)
(* both under oauthMu, exchanges the code, saves the tokens and sends its  *)
(* result; every callback of one authorisation sends on its channel.       *)
(*                                                                         *)
(* A state is the number of its authorisation, 0 is the empty state.  The  *)
(* tokens are named by the authorisation they came from, 0 are those an    *)
(* earlier nest-bridge auth left.  Google and the disk may fail at will.   *)
(***************************************************************************)
EXTENDS Integers

CONSTANTS
    Callbacks,      \* callback requests that may be open at one time
    MaxAuths,       \* bound: authorisations started
    MaxCalls,       \* bound: callbacks in all
    NoTokens        \* there is no token file

ASSUME CallsAssumption == MaxAuths \in Nat /\ MaxCalls \in Nat

VARIABLES
    oauthState,     \* Server.oauthState, and the owner of oauthWait
    waiting,        \* authorisations whose goroutine still reads
    posted,         \* authorisations whose channel holds a result
    callback,       \* each callback: what it does, for which authorisation
    tokens,         \* the token file
    calls           \* callbacks so far

authVars == <<oauthState, waiting, posted, callback, tokens, calls>>

Auths == 1 .. MaxAuths

NoCallback == [pc |-> "idle", auth |-> 0]

\* handleAuthStart replaces the state and the channel of an earlier start.
AuthStart ==
    /\ oauthState < MaxAuths
    /\ oauthState' = oauthState + 1
    /\ waiting' = waiting \cup {oauthState'}
    /\ UNCHANGED <<posted, callback, tokens, calls>>

\* The goroutine of handleAuthStart receives a result, or its time is over.
Receive(a) ==
    /\ a \in waiting
    /\ waiting' = waiting \ {a}
    /\ posted' = posted \ {a}
    /\ UNCHANGED <<oauthState, callback, tokens, calls>>

Step(c, label) == callback' = [callback EXCEPT ![c].pc = label]

\* A callback arrives.  Without an authorisation there is no channel, and it is
\* refused at once.  With a wrong state, an error of Google's or no code it has
\* a failure to send.
Arrive(c) ==
    /\ callback[c].pc = "idle"
    /\ calls < MaxCalls
    /\ calls' = calls + 1
    /\ oauthState # 0
    /\ \E label \in {"exchange", "send"} :
          callback' = [callback EXCEPT ![c] = [pc |-> label, auth |-> oauthState]]
    /\ UNCHANGED <<oauthState, waiting, posted, tokens>>

\* ExchangeCode, then Save: each may fail, and Save replaces the whole file.
Exchange(c) ==
    /\ callback[c].pc = "exchange"
    /\ tokens' \in {tokens, callback[c].auth}
    /\ Step(c, "send")
    /\ UNCHANGED <<oauthState, waiting, posted, calls>>

\* Mutant of Send: a channel without a place.
SendUnbuffered(c) ==
    /\ callback[c].pc = "send"
    /\ callback[c].auth \in waiting
    /\ Step(c, "idle")
    /\ waiting' = waiting \ {callback[c].auth}
    /\ UNCHANGED <<oauthState, posted, tokens, calls>>

\* The result goes into the channel, which blocks while it is full, then the
\* browser is answered.
Send(c) ==
    /\ callback[c].pc = "send"
    /\ callback[c].auth \notin posted
    /\ posted' = posted \cup {callback[c].auth}
    /\ Step(c, "idle")
    /\ UNCHANGED <<oauthState, waiting, tokens, calls>>

AuthInit ==
    /\ oauthState = 0
    /\ waiting = {}
    /\ posted = {}
    /\ callback = [c \in Callbacks |-> NoCallback]
    /\ tokens \in {NoTokens, 0}
    /\ calls = 0

\* The process ends: only the token file is left.
AuthForgotten ==
    /\ oauthState' = 0
    /\ waiting' = {}
    /\ posted' = {}
    /\ callback' = [c \in Callbacks |-> NoCallback]
    /\ UNCHANGED <<tokens, calls>>

AuthNext ==
    \/ AuthStart
    \/ \E a \in Auths : Receive(a)
    \/ \E c \in Callbacks : Arrive(c) \/ Exchange(c) \/ Send(c)

\* The goroutines run, and an exchange ends after thirty seconds at the latest.
AuthFairness ==
    /\ \A a \in Auths : WF_authVars(Receive(a))
    /\ \A c \in Callbacks : WF_authVars(Exchange(c)) /\ WF_authVars(Send(c))

-----------------------------------------------------------------------------
(* Properties *)

AuthTypeOK ==
    /\ oauthState \in 0 .. MaxAuths
    /\ waiting \subseteq Auths
    /\ posted \subseteq Auths
    /\ callback \in [Callbacks -> [pc : {"idle", "exchange", "send"},
                                   auth : 0 .. MaxAuths]]
    /\ tokens \in {NoTokens} \cup 0 .. MaxAuths
    /\ calls \in 0 .. MaxCalls

\* Nobody will ever read from a's channel, and its one place is taken.
Wedged(a) == a \notin waiting /\ a \in posted

\* Every callback is answered, unless the reader of its authorisation is gone,
\* having taken one result or waited six minutes, and another result fills the
\* channel (handlers.go:69-70, :108).  So the first callback always is, and the
\* second if the reader still waits; a later one hangs, also when it is the one
\* that has just saved the tokens.
CallbackAnswered ==
    \A c \in Callbacks :
        callback[c].pc # "idle" ~>
            callback[c].pc = "idle" \/ Wedged(callback[c].auth)
=============================================================================
