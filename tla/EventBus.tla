------------------------------- MODULE EventBus -------------------------------
(***************************************************************************)
(* The viewer's event bus (internal/viewer/bus.go) and the handler that    *)
(* streams it to a browser (handleEvents in server.go).                    *)
(*                                                                         *)
(* Publish sends to every client's channel under the read lock, skipping   *)
(* those that are full.  A client that leaves is deleted under the write   *)
(* lock and its channel closed after it; a send on a closed channel would  *)
(* panic.                                                                  *)
(***************************************************************************)
EXTENDS Integers, Sequences

CONSTANTS
    Viewers,        \* browsers
    Publishers,     \* goroutines that call Publish
    Places          \* the capacity of a client's channel

ASSUME PlacesAssumption == Places \in Nat \ {0}

VARIABLES
    clients,        \* EventBus.clients
    open,           \* viewers whose channel is not closed
    chan,           \* what is in each viewer's channel
    publishing,     \* each publisher: the edge, and the clients still to get it
    shown,          \* the last edge each browser was sent, if any
    missed          \* history: viewers whose channel was full once

busVars == <<clients, open, chan, publishing, shown, missed>>

Idle == [edge |-> {}, to |-> {}]

\* Nobody holds the read lock.
Unread == \A a \in Publishers : publishing[a] = Idle

BusInit ==
    /\ clients = {}
    /\ open = {}
    /\ chan = [v \in Viewers |-> <<>>]
    /\ publishing = [a \in Publishers |-> Idle]
    /\ shown = [v \in Viewers |-> {}]
    /\ missed = {}

Subscribe(v) ==
    /\ Unread
    /\ v \notin open
    /\ clients' = clients \cup {v}
    /\ open' = open \cup {v}
    /\ UNCHANGED <<chan, publishing, shown, missed>>

\* v is no client any more, and what it was sent is gone with its browser.
Forget(v) ==
    /\ v \in clients
    /\ clients' = clients \ {v}
    /\ chan' = [chan EXCEPT ![v] = <<>>]
    /\ shown' = [shown EXCEPT ![v] = {}]
    /\ missed' = missed \ {v}
    /\ UNCHANGED <<open, publishing>>

\* Mutant of Delete: without the lock.
DeleteUnlocked(v) == Forget(v)

\* The browser has gone: unsubscribe takes it off the bus, then closes.
Delete(v) == Unread /\ Forget(v)

Close(v) ==
    /\ v \in open \ clients
    /\ open' = open \ {v}
    /\ UNCHANGED <<clients, chan, publishing, shown, missed>>

\* Publish takes the read lock.
Publish(a, e) ==
    /\ publishing[a] = Idle
    /\ publishing' = [publishing EXCEPT ![a] = [edge |-> {e}, to |-> clients]]
    /\ UNCHANGED <<clients, open, chan, shown, missed>>

\* A send to one client, which does not wait for room.
Offer(a, v) ==
    /\ v \in publishing[a].to
    /\ \/ /\ Len(chan[v]) < Places
          /\ \E e \in publishing[a].edge :
                chan' = [chan EXCEPT ![v] = Append(@, e)]
          /\ UNCHANGED missed
       \/ /\ Len(chan[v]) >= Places
          /\ missed' = missed \cup {v}
          /\ UNCHANGED chan
    /\ publishing' = [publishing EXCEPT ![a].to = @ \ {v}]
    /\ UNCHANGED <<clients, open, shown>>

\* Mutant of Published: clients are left without the edge.
PublishedEarly(a) ==
    /\ publishing[a].edge # {}
    /\ publishing' = [publishing EXCEPT ![a] = Idle]
    /\ UNCHANGED <<clients, open, chan, shown, missed>>

\* Publish has served everyone and returns.
Published(a) ==
    /\ publishing[a].edge # {}
    /\ publishing[a].to = {}
    /\ publishing' = [publishing EXCEPT ![a] = Idle]
    /\ UNCHANGED <<clients, open, chan, shown, missed>>

\* handleEvents sends an edge to the browser; one that reads nothing blocks it.
Read(v) ==
    /\ v \in clients
    /\ chan[v] # <<>>
    /\ shown' = [shown EXCEPT ![v] = {Head(chan[v])}]
    /\ chan' = [chan EXCEPT ![v] = Tail(@)]
    /\ UNCHANGED <<clients, open, publishing, missed>>

\* The process ends.
BusForgotten ==
    /\ clients' = {}
    /\ open' = {}
    /\ chan' = [v \in Viewers |-> <<>>]
    /\ publishing' = [a \in Publishers |-> Idle]
    /\ shown' = [v \in Viewers |-> {}]
    /\ missed' = {}

-----------------------------------------------------------------------------
(* Properties *)

BusTypeOK ==
    /\ clients \subseteq open /\ open \subseteq Viewers
    /\ \A v \in Viewers : Len(chan[v]) <= Places
    /\ missed \subseteq Viewers

\* Publish never sends on a closed channel, which would end the process: a
\* viewer that leaves is deleted under the write lock before its channel is
\* closed (bus.go:35-40), so no Publish under way still has it to serve.
NoSendOnClosed == \A a \in Publishers : publishing[a].to \subseteq open
=============================================================================
