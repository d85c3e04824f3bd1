------------------------------ MODULE Discovery ------------------------------
(***************************************************************************)
(* Detailed discovery and use-case discovery between a device whose tree   *)
(* of entities changes at run time (Engine::add_entity, modify_entity,     *)
(* remove_entity) and a client that reads both documents once, subscribes  *)
(* and follows the partial notifications (Hub::receive,                    *)
(* Engine::absorb_discovery, spine/discovery.rs).                          *)
(*                                                                         *)
(* An entity is a path; its features are a set.  A document is the two     *)
(* parallel lists of the wire, here functions: entities by path, features  *)
(* by <<path, feature>>.  Datagrams are delivered in order.                *)
(***************************************************************************)
EXTENDS Naturals, Sequences, FiniteSets, SequencesExt

CONSTANTS
    Paths,              \* addresses of the entities that may come and go
    Features,           \* features an entity may have
    UseCases,           \* <<path, feature, name>>: what the device may announce
    MAX_ENTRIES,        \* MAX_LIST_ENTRIES
    MaxChanges          \* bound: changes of the tree and lost connections

VARIABLES
    tree,       \* the device: path -> set of features
    played,     \* the use cases it announces
    told,       \* the client is a subscriber of its NodeManagement
    wire,       \* datagrams on their way to the client
    opening,    \* the opening reads not answered yet, and the subscription
    document,   \* the client's merged detailed discovery
    remote,     \* RemoteDevice: what the client's use cases look at
    announced,  \* the use cases the client knows
    missed,     \* history: a change nobody was told, since the opening reply
    dropped,    \* history: a feature was dropped from an entity that stayed
    changes     \* changes so far, to bound the behaviour

dvars == <<tree, played, told, wire, opening, document, remote, announced,
           missed, dropped, changes>>

-----------------------------------------------------------------------------
(* Documents                                                               *)

Under(path, above) == IsPrefix(above, path)

Entries(device, paths) == {<<p, f>> : p \in paths, f \in Features}
                              \cap UNION {{p} \X device[p] : p \in paths}

\* detailed_discovery: the whole tree.
DetailedDiscovery(device) ==
    [partial |-> FALSE, change |-> "none", entities |-> DOMAIN device,
     features |-> Entries(device, DOMAIN device)]

\* changed(): the entities named, with their features unless they are gone.
EntitiesAdded(device, paths) ==
    [partial |-> TRUE, change |-> "added", entities |-> paths,
     features |-> Entries(device, paths)]
EntitiesModified(device, paths) ==
    [EntitiesAdded(device, paths) EXCEPT !.change = "modified"]
EntitiesRemoved(paths) ==
    [partial |-> TRUE, change |-> "removed", entities |-> paths, features |-> {}]

EmptyDocument == [entities |-> {}, features |-> {}]

\* New entries join in the order of their features while there is room.
Joined(held, new) ==
    held \cup {x \in new \ held :
                  Cardinality({y \in new \ held : y[2] < x[2]})
                      < MAX_ENTRIES - Cardinality(held)}

\* merge_detailed_discovery: what is removed takes everything beneath it along;
\* anything else (one entity, with its features) replaces what is held under its
\* address or joins it.  A feature that is no longer listed stays.
MergeDetailedDiscovery(stored, update) ==
    IF update.change = "removed"
    THEN [entities |-> {p \in stored.entities :
                           \A r \in update.entities : ~Under(p, r)},
          features |-> {e \in stored.features :
                           \A r \in update.entities : ~Under(e[1], r)}]
    ELSE [entities |-> IF Cardinality(stored.entities \cup update.entities) <= MAX_ENTRIES
                       THEN stored.entities \cup update.entities ELSE stored.entities,
          features |-> Joined(stored.features, update.features)]

\* A slip: a removal leaves the features, and with them an entity without a type.
AbsorbedKeepingFeatures(stored, update) ==
    IF update.partial
    THEN [MergeDetailedDiscovery(stored, update) EXCEPT
             !.features = @ \cup stored.features]
    ELSE [entities |-> update.entities, features |-> update.features]

\* absorb_discovery: a whole document replaces, a partial one is merged.
Absorbed(stored, update) ==
    IF update.partial THEN MergeDetailedDiscovery(stored, update)
    ELSE [entities |-> update.entities, features |-> update.features]

\* apply_detailed_discovery: entities with their features; one that only a
\* feature names is added without a type.
RemoteOf(doc) ==
    [p \in doc.entities \cup {e[1] : e \in doc.features} |->
        {f \in Features : <<p, f>> \in doc.features}]

-----------------------------------------------------------------------------
(* The device                                                              *)

DInit ==
    /\ tree \in [{<<1>>} -> SUBSET Features]
    /\ played \in SUBSET {u \in UseCases : u[1] \in {<<>>, <<1>>}}
    /\ told = FALSE
    /\ wire = <<>>
    /\ opening = {"discovery", "useCases"}
    /\ document = EmptyDocument
    /\ remote = RemoteOf(EmptyDocument)
    /\ announced = {}
    /\ missed = FALSE
    /\ dropped = FALSE
    /\ changes = 0

\* A reply to the opening read of the function has been computed already.
Replied(function) ==
    function \notin opening \/ \E i \in 1..Len(wire) : wire[i].what = function

Change == changes < MaxChanges /\ changes' = changes + 1

\* notify_discovery_change to the subscribers there are.
NotifyDiscoveryChange(update) ==
    /\ wire' = IF told THEN Append(wire, [what |-> "discovery", data |-> update, uses |-> {}])
                       ELSE wire
    /\ missed' = (missed \/ (~told /\ Replied("discovery")))

AddEntity(p, features) ==
    /\ p \notin DOMAIN tree
    /\ Change
    /\ tree' = [q \in DOMAIN tree \cup {p} |-> IF q = p THEN features ELSE tree[q]]
    /\ NotifyDiscoveryChange(EntitiesAdded(tree', {p}))
    /\ UNCHANGED <<played, told, opening, document, remote, announced, dropped>>

\* modify_entity, after the application changed the entity through device_mut.
ModifyEntity(p, features) ==
    /\ p \in DOMAIN tree /\ features # tree[p]
    /\ Change
    /\ tree' = [tree EXCEPT ![p] = features]
    /\ dropped' = (dropped \/ ~(tree[p] \subseteq features))
    /\ NotifyDiscoveryChange(EntitiesModified(tree', {p}))
    /\ UNCHANGED <<played, told, opening, document, remote, announced>>

\* remove_entity: everything beneath it goes, and the use cases they announced.
RemoveEntity(p) ==
    LET gone == {q \in DOMAIN tree : Under(q, p)}
        update == [what |-> "discovery", data |-> EntitiesRemoved(gone), uses |-> {}]
    IN  /\ p \in DOMAIN tree
        /\ Change
        /\ tree' = [q \in DOMAIN tree \ gone |-> tree[q]]
        /\ played' = {u \in played : ~Under(u[1], p)}
        /\ wire' = IF ~told THEN wire
                   ELSE IF played' = played THEN Append(wire, update)
                   ELSE wire \o << update, [what |-> "useCases", data |-> EmptyDocument,
                                            uses |-> played'] >>
        /\ missed' = (missed \/ (~told /\ \E r \in {"discovery", "useCases"} : Replied(r)))
        /\ UNCHANGED <<told, opening, document, remote, announced, dropped>>

\* handle_read of the two opening reads, in whatever order they are served.
AnswerOpeningRead(function) ==
    /\ function \in opening
    /\ \A i \in 1..Len(wire) : wire[i].what # function
    /\ wire' = Append(wire, [what |-> function, data |-> DetailedDiscovery(tree),
                             uses |-> played])
    /\ UNCHANGED <<tree, played, told, opening, document, remote, announced, missed,
                   dropped, changes>>

\* The subscription the client asked for is granted.
GrantSubscription ==
    /\ opening = {"subscription"}
    /\ told' = TRUE
    /\ opening' = {}
    /\ UNCHANGED <<tree, played, wire, document, remote, announced, missed, dropped, changes>>

-----------------------------------------------------------------------------
(* The client                                                              *)

\* Hub::receive: the second opening answer makes it ask for the subscription.
Answered(function) ==
    LET left == opening \ {function}
    IN  IF function \in opening /\ left = {} THEN {"subscription"} ELSE left

ReceiveDiscovery ==
    /\ wire # <<>> /\ Head(wire).what = "discovery"
    /\ document' = Absorbed(document, Head(wire).data)
    /\ remote' = RemoteOf(document')
    /\ opening' = Answered("discovery")
    /\ wire' = Tail(wire)
    /\ UNCHANGED <<tree, played, told, announced, missed, dropped, changes>>

ReceiveUseCases ==
    /\ wire # <<>> /\ Head(wire).what = "useCases"
    /\ announced' = Head(wire).uses
    /\ opening' = Answered("useCases")
    /\ wire' = Tail(wire)
    /\ UNCHANGED <<tree, played, told, document, remote, missed, dropped, changes>>

\* A lost connection: both sides forget each other, and the client starts over.
Reconnect ==
    /\ Change
    /\ told' = FALSE
    /\ wire' = <<>>
    /\ opening' = {"discovery", "useCases"}
    /\ document' = EmptyDocument
    /\ remote' = RemoteOf(EmptyDocument)
    /\ announced' = {}
    /\ missed' = FALSE
    /\ dropped' = FALSE
    /\ UNCHANGED <<tree, played>>

DNext ==
    \/ \E p \in Paths, features \in SUBSET Features : AddEntity(p, features)
    \/ \E p \in Paths, features \in SUBSET Features : ModifyEntity(p, features)
    \/ \E p \in Paths : RemoveEntity(p)
    \/ \E function \in {"discovery", "useCases"} : AnswerOpeningRead(function)
    \/ GrantSubscription
    \/ ReceiveDiscovery
    \/ ReceiveUseCases
    \/ Reconnect

-----------------------------------------------------------------------------
(* Properties                                                              *)

Settled == told /\ wire = <<>>

\* Once the client is subscribed and nothing is under way, its picture is the
\* device's tree, entity by entity and feature by feature, and it knows the use
\* cases that are played: partial notifications of additions, changes and
\* removals of whole subtrees add up to the document a fresh read would give.
\* Two exceptions are the code's: a change between the opening reply and the
\* grant of the subscription is told to nobody (Hub::receive asks only after
\* both replies), and a feature dropped from an entity that stays is never taken
\* out of the client's document (merge_detailed_discovery).
TreeIsMirrored ==
    Settled /\ ~missed /\ ~dropped => remote = tree /\ announced = played
=============================================================================
