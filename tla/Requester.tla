----------------------------- MODULE Requester ------------------------------
(* The asking end of the pairing service (ship/pairing.rs): a control unit   *)
(* has its signed request on the air until one connection with the device it *)
(* asks has held without interruption for SETTLED_AFTER, and never again. It *)
(* is driven as examples/steuerbox.rs does: the hub's events say when a      *)
(* connection begins and ends, and the actions it decides on are polled and  *)
(* carried out by an mDNS responder. The application may record that the     *)
(* pairing is complete, and a crash keeps only that. An instant is kept as   *)
(* the time since then, up to SETTLED_AFTER.                                 *)
EXTENDS Integers

CONSTANTS
    SETTLED_AFTER,    \* how long a connection has to hold
    Connections,      \* names of the connections with the device
    MaxRestarts       \* bound

VARIABLES
    requester,   \* state, since and pending of the Requester
    onAir,       \* whether the responder answers for the request
    connected,   \* connection -> how long it has held, or Down
    complete,    \* whether the application has recorded the pairing
    overruled,   \* a withdrawal was settled again before anybody had polled it
    restarts
rvars == <<requester, onAir, connected, complete, overruled, restarts>>

None == "None"
Down == -1

new == [state |-> "Announcing", since |-> Down, pending |-> "Announce"]
settled == [state |-> "Settled", since |-> Down, pending |-> None]

is_announcing(r) == r.state = "Announcing"

on_connected(r) == IF is_announcing(r) THEN [r EXCEPT !.since = 0] ELSE r
on_disconnected(r) == IF is_announcing(r) THEN [r EXCEPT !.since = Down] ELSE r

\* settle replaces what has not been polled, by nothing if it had settled before.
settle(r) ==
    [state |-> "Settled", since |-> Down,
     pending |-> IF is_announcing(r) THEN "Withdraw" ELSE None]

RInit ==
    /\ requester = new /\ onAir = FALSE
    /\ connected = [c \in Connections |-> Down]
    /\ complete = FALSE /\ overruled = FALSE /\ restarts = 0

\* poll_action, and what the responder does.
PollAction ==
    /\ requester.pending # None
    /\ onAir' = (requester.pending = "Announce")
    /\ requester' = [requester EXCEPT !.pending = None]
    /\ UNCHANGED <<connected, complete, overruled, restarts>>

Connect(c) ==
    /\ connected[c] = Down
    /\ connected' = [connected EXCEPT ![c] = 0]
    /\ requester' = on_connected(requester)
    /\ UNCHANGED <<onAir, complete, overruled, restarts>>

Disconnect(c) ==
    /\ connected[c] # Down
    /\ connected' = [connected EXCEPT ![c] = Down]
    /\ requester' = on_disconnected(requester)
    /\ UNCHANGED <<onAir, complete, overruled, restarts>>

\* handle_timeout, whenever the application calls it.
HandleTimeout ==
    /\ is_announcing(requester) /\ requester.since >= SETTLED_AFTER
    /\ requester' = settle(requester)
    /\ UNCHANGED <<onAir, connected, complete, overruled, restarts>>

\* withdraw: the administrator has untrusted the device.
Withdraw ==
    /\ requester' = settle(requester)
    /\ overruled' = (overruled \/ requester.pending = "Withdraw")
    /\ UNCHANGED <<onAir, connected, complete, restarts>>

\* The application records that the pairing is complete.
RecordSettled ==
    /\ requester.state = "Settled" /\ ~complete
    /\ complete' = TRUE
    /\ UNCHANGED <<requester, onAir, connected, overruled, restarts>>

\* A crash takes the connections and the responder with it.
Restart ==
    /\ restarts < MaxRestarts /\ restarts' = restarts + 1
    /\ requester' = IF complete THEN settled ELSE new
    /\ onAir' = FALSE /\ overruled' = FALSE
    /\ connected' = [c \in Connections |-> Down]
    /\ UNCHANGED complete

Older(age) == IF age = Down \/ age = SETTLED_AFTER THEN age ELSE age + 1
RTick ==
    /\ requester' = [requester EXCEPT !.since = Older(@)]
    /\ connected' = [c \in Connections |-> Older(connected[c])]
    /\ UNCHANGED <<onAir, complete, overruled, restarts>>

RNext ==
    \/ PollAction \/ HandleTimeout \/ Withdraw \/ RecordSettled \/ Restart \/ RTick
    \/ \E c \in Connections : Connect(c) \/ Disconnect(c)
RSpec == RInit /\ [][RNext]_rvars

-----------------------------------------------------------------------------
Ages == {Down} \cup (0 .. SETTLED_AFTER)
Requesters == [ state   : {"Announcing", "Settled"},
                since   : Ages,
                pending : {None, "Announce", "Withdraw"} ]

\* The request is where it should be (pairing.rs, Requester): the clock that
\* takes it down is that of a connection that has held all the time; a request
\* recorded as complete does not come back, not even after a restart; and a
\* responder that has done what it was told has it on the air exactly while it
\* is announcing, unless a second withdrawal overruled one nobody had polled.
RequestIsAnnounced ==
    /\ requester \in Requesters /\ connected \in [Connections -> Ages]
    /\ requester.since # Down => \E c \in Connections : connected[c] = requester.since
    /\ complete => ~is_announcing(requester) /\ requester.pending # "Announce"
    /\ requester.pending = None /\ ~overruled => (onAir <=> is_announcing(requester))
=============================================================================
