---------------------------- MODULE GuardBinding ----------------------------
(* How a Controllable System finds out which Energy Guard controls it       *)
(* (limitation/actor.rs): the guard is the one entity that holds the        *)
(* bindings on LoadControl and on DeviceConfiguration, and its heartbeat is *)
(* subscribed to once its DeviceDiagnosis is known. Bindings, releases,     *)
(* discoveries and lost connections come in any order.                      *)
EXTENDS FiniteSets, Integers

CONSTANTS
    Guards,      \* the entities that may control this system
    MaxReleases, \* bound: bindings released
    MaxLosses    \* bound: connections lost

Features == {"LoadControl", "DeviceConfiguration"}
Nobody == "nobody"

VARIABLES
    held,        \* the engine's bindings: feature -> the entity that may write it
    known,       \* guards whose features this engine has discovered
    online,      \* guards a connection stands to
    seen,        \* ControllableSystemActor: the holder of each binding as it saw it,
                 \* the guard, whose heartbeat it follows, whether it subscribed
                 \* and whether it asked for the guard's discovery
    subscribing, \* subscription requests on their way
    hears,       \* guards whose engine holds this system's subscription
    troubles     \* how many releases and how many lost connections there were

gvars == <<held, known, online, seen, subscribing, hears, troubles>>

-----------------------------------------------------------------------------
\* The controlling entity binds both features or none (bind_features_together).
MayBind(g, f) == \A e \in Features : held[e] \in {Nobody, g}

OnBinding(s, g, f) ==
    LET bound == [s.bound EXCEPT ![f] = g]
        both == bound["LoadControl"] = bound["DeviceConfiguration"]
    IN  [s EXCEPT !.bound = bound,
                  !.guard = IF both /\ s.guard = Nobody THEN g ELSE @]

(* follow_the_guards_heartbeat: subscribes if the guard is discovered, else *)
(* asks for its discovery, once.                                            *)
Follow(s, discovered) ==
    IF s.subscribed \/ s.guard = Nobody THEN s
    ELSE IF s.guard \in discovered THEN [s EXCEPT !.followed = s.guard, !.subscribed = TRUE]
    ELSE [s EXCEPT !.asked = TRUE]

\* A subscription is requested when it was not before.
Settle(s, discovered) ==
    /\ seen' = Follow(s, discovered)
    /\ subscribing' = IF seen'.subscribed /\ ~s.subscribed
                      THEN subscribing \cup {seen'.followed} ELSE subscribing

(* BindingReleased: the entity of the released feature is compared, and     *)
(* both features are on the same one.                                       *)
OnRelease(s, f) ==
    [s EXCEPT !.bound["LoadControl"] = Nobody, !.guard = Nobody, !.followed = Nobody,
              !.subscribed = FALSE, !.asked = FALSE]

-----------------------------------------------------------------------------
GInit ==
    /\ held = [f \in Features |-> Nobody]
    /\ known = {} /\ online = {} /\ subscribing = {} /\ hears = {}
    /\ troubles = [releases |-> 0, losses |-> 0]
    /\ seen = [bound |-> [f \in Features |-> Nobody], guard |-> Nobody,
               followed |-> Nobody, subscribed |-> FALSE, asked |-> FALSE]

Connect(g) ==
    /\ g \notin online
    /\ online' = online \cup {g}
    /\ UNCHANGED <<held, known, seen, subscribing, hears, troubles>>

\* DiscoveryUpdated, asked for or announced.
Discover(g) ==
    /\ g \in online \ known
    /\ known' = known \cup {g}
    /\ Settle(seen, known')
    /\ UNCHANGED <<held, online, hears, troubles>>

\* A binding that is held already is granted again.
Bind(g, f) ==
    /\ g \in online /\ MayBind(g, f)
    /\ held' = [held EXCEPT ![f] = g]
    /\ Settle(OnBinding(seen, g, f), known)
    /\ UNCHANGED <<known, online, hears, troubles>>

\* A release is reported whether or not the binding was there.
Release(g, f) ==
    /\ g \in online /\ troubles.releases < MaxReleases
    /\ held' = [held EXCEPT ![f] = IF @ = g THEN Nobody ELSE @]
    /\ seen' = OnRelease(seen, f)
    /\ troubles' = [troubles EXCEPT !.releases = @ + 1]
    /\ UNCHANGED <<known, online, subscribing, hears>>

\* Both engines remove the peer: nothing of the session is left in either.
Disconnect(g) ==
    /\ g \in online /\ troubles.losses < MaxLosses
    /\ online' = online \ {g}
    /\ known' = known \ {g}
    /\ held' = [f \in Features |-> IF held[f] = g THEN Nobody ELSE held[f]]
    /\ subscribing' = subscribing \ {g}
    /\ hears' = hears \ {g}
    /\ troubles' = [troubles EXCEPT !.losses = @ + 1]
    /\ UNCHANGED seen

SubscriptionGranted(g) ==
    /\ g \in subscribing
    /\ subscribing' = subscribing \ {g}
    /\ hears' = hears \cup {g}
    /\ UNCHANGED <<held, known, online, seen, troubles>>

GNext ==
    \E g \in Guards :
      \/ Connect(g) \/ Discover(g) \/ Disconnect(g) \/ SubscriptionGranted(g)
      \/ \E f \in Features : Bind(g, f) \/ Release(g, f)

GSpec == GInit /\ [][GNext]_gvars

-----------------------------------------------------------------------------
Controls(g) == \A f \in Features : held[f] = g
Followed(g) == g \in hears /\ seen.followed = g

(* "Once one entity holds both bindings, subscribe to its heartbeat"        *)
(* (actor.rs:1029): whenever a guard holds both bindings, is discovered and *)
(* no request is on its way, its heartbeats reach this system.              *)
BoundGuardIsFollowed ==
    \A g \in Guards : Controls(g) /\ g \in known /\ subscribing = {} => Followed(g)

\* g holds both bindings and bound LoadControl after the last release of a binding:
\* OnRelease forgets that one, whichever was released and whoever released it.
BoundAnew(g) == Controls(g) /\ seen.bound["LoadControl"] = g

(* What holds as long as no connection is lost, in every order of bindings, *)
(* discovery, releases and the answers to the subscription. The heartbeats  *)
(* that are counted are those of the entity that may write the limit. An    *)
(* entity that holds both bindings and bound LoadControl after the last     *)
(* release is followed once it is discovered. On a session without releases *)
(* that is every entity that holds both bindings, and the one followed      *)
(* holds both. (on_binding, follow_the_guards_heartbeat, BindingReleased)   *)
GuardIsFound ==
    troubles.losses = 0 =>
      /\ seen.followed # Nobody => held["LoadControl"] = seen.followed
      /\ \A g \in Guards : BoundAnew(g) /\ g \in known /\ subscribing = {} => Followed(g)
      /\ troubles.releases = 0 =>
           /\ BoundGuardIsFollowed
           /\ seen.followed # Nobody => Controls(seen.followed)
=============================================================================
