---------------------------- MODULE PreScenario -----------------------------
(* From discovery to the first exchanges of a use case. A device has an      *)
(* entity that plays one or two use cases with the features the crate builds *)
(* for them, and perhaps another beside it that has the same features and    *)
(* may play them too; it announces which entity plays, or, as SPINE 1.1.1    *)
(* peers do, only that one does. Managers look the entity up (locate), bind  *)
(* what their tables say needs it (relations.rs), read and write             *)
(* (engine.rs), compete for the bindings and may leave at any moment.        *)
EXTENDS Features, SequencesExt

CONSTANTS
    Managers,             \* the devices that play the client ends
    MAX_DEFERRED_WRITES   \* how many writes may wait for the application

VARIABLES
    cast,       \* manager -> the ends of the use case it follows
    device,     \* entities, and the use cases announced: a RemoteDevice
    desk,       \* manager -> its own device, as the other side sees it
    bound,      \* the bindings granted: [client, entity, feature]
    queue,      \* writes the application has not decided on
    answer      \* the last exchange and how it was answered, if any
vars == <<cast, device, desk, bound, queue, answer>>

-----------------------------------------------------------------------------
(* Looking a counterpart up (discovery.rs). A lookup yields at most one      *)
(* entity, as a set.                                                         *)
RemoteUseCase(name, actor, entity) == [name |-> name, actor |-> actor, entity |-> entity]
Unnamed == 0
Feature(remote, i, type) == { f \in remote.entities[i] : f.type = type }

use_cases_played(remote, name, actor) ==
    SelectSeq(remote.use_cases, LAMBDA u : u.name = name /\ u.actor = actor)
use_case(remote, name, actor) ==
    LET found == use_cases_played(remote, name, actor)
    IN  { found[i] : i \in DOMAIN found \cap {1} }

feature_for(remote, u, type) ==
    LET carrying == { i \in DOMAIN remote.entities : Feature(remote, i, type) # {} }
    IN  IF u.entity # Unnamed THEN carrying \cap {u.entity}
        ELSE IF Cardinality(carrying) = 1 THEN carrying ELSE {}

(* A located peer: the entity on which each of its features was found.       *)
Peer(remote, u, required, optional) ==
    LET types == { t \in required \cup optional : feature_for(remote, u, t) # {} }
    IN  IF required \subseteq types
        THEN { [t \in types |-> CHOOSE i \in feature_for(remote, u, t) : TRUE] }
        ELSE {}

locate_system(c) ==
    UNION { Peer(device, u, {"LoadControl", "DeviceConfiguration"},
                 {"DeviceDiagnosis", "ElectricalConnection"}) :
            u \in use_case(device, c.name, "ControllableSystem") }
locate_car(c) ==
    UNION { Peer(device, u, {"LoadControl", "ElectricalConnection"}, {}) :
            u \in use_case(device, c.name, "EV") }
locate_compressor(c) ==
    UNION { Peer(device, u, {"SmartEnergyManagementPs"}, {}) :
            u \in use_case(device, c.name, "Compressor") }

\* Whatever actor it announces: the first that has a Bill.
locate_bill(c) ==
    LET found == { i \in DOMAIN device.use_cases :
                    /\ device.use_cases[i].name = c.name
                    /\ Peer(device, device.use_cases[i], {"Bill"}, {}) # {} }
    IN  UNION { Peer(device, device.use_cases[i], {"Bill"}, {}) :
                i \in { j \in found : \A k \in found : j <= k } }

\* Every entity that serves the use case, the ones announced twice once.
locate_thermometer(c) ==
    UNION { Peer(device, u, {"Measurement"}, {}) :
            u \in Range(use_cases_played(device, c.name, c.counterpart)) }
locate_hvac(c, server) ==
    { p \in UNION { Peer(device, u, { f[1] : f \in server_functions(server) }, {}) :
                    u \in Range(use_cases_played(device, server.name, server.actor)) } :
      "HVAC" \in DOMAIN p }

is_usable(p) == "Measurement" \in DOMAIN p \/ "DeviceConfiguration" \in DOMAIN p
locate_unit(c) ==
    { p \in UNION { Peer(device, u, {},
                         {"ElectricalConnection", "Measurement", "DeviceConfiguration"}) :
                    u \in use_case(device, c.name, c.counterpart) } : is_usable(p) }

\* What the crate has no locate for an application looks up itself.
look_up(remote, name, actor, types) ==
    UNION { Peer(remote, u, types, {}) : u \in use_case(remote, name, actor) }

FeaturesRead(d) == { u.feature : u \in { v \in Uses(d) : v.role = "Client" } }

Located(m) ==
    LET c == cast[m].client
        rest == {"DeviceClassification", "DeviceDiagnosis"}
    IN  IF c.name \in {"LPC", "LPP"} THEN locate_system(c)
        ELSE IF c.name \in {"OPEV", "OSCEV"} THEN locate_car(c)
        ELSE IF c.name = "OHPCF" THEN locate_compressor(c)
        ELSE IF c.name = "EVCS" THEN locate_bill(c)
        ELSE IF c.name \in {"MDT", "MRT", "MOT"} THEN locate_thermometer(c)
        ELSE IF c.name \in {"CDSF", "CDT", "CRHSF", "CRCSF", "CRHT", "CRCT",
                            "MDSF", "MRHSF", "MRCSF"}
             THEN locate_hvac(c, cast[m].server)
        ELSE IF c.name \in {"MPC", "MGCP", "MPS", "EVCEM", "EVSOC"} THEN locate_unit(c)
        ELSE IF c.name \in {"MOB", "MOI"}
             THEN { q @@ p : p \in locate_unit(c),
                             q \in look_up(device, c.name, c.counterpart, rest) }
        ELSE look_up(device, c.name, c.counterpart, FeaturesRead(c))

-----------------------------------------------------------------------------
(* The features the limitation's actor declares to belong together.          *)
group_of(type) ==
    IF /\ type \in {"LoadControl", "DeviceConfiguration"}
       /\ \E m \in Managers : cast[m].server.name \in {"LPC", "LPP"}
    THEN {"LoadControl", "DeviceConfiguration"} ELSE {type}
Binding(m, i, type) == [client |-> m, entity |-> i, feature |-> type]
TakenBy(i, type) ==
    { b.client : b \in { x \in bound : x.entity = i /\ x.feature \in group_of(type) } }

\* Relations::add_binding: one partner for the features of a group.
add_binding(m, i, type) ==
    IF Binding(m, i, type) \notin bound /\ TakenBy(i, type) \ {m} # {}
    THEN /\ answer' = <<[kind |-> "bind", who |-> m, entity |-> i, feature |-> type,
                         result |-> "CommandRejected"]>>
         /\ UNCHANGED bound
    ELSE /\ bound' = bound \cup {Binding(m, i, type)}
         /\ answer' = <<[kind |-> "bind", who |-> m, entity |-> i, feature |-> type,
                         result |-> "Granted"]>>

(* How the engine answers (handle_read, handle_write, check_write).          *)
handle_read(features, u) ==
    IF features = {} THEN "DestinationUnknown"
    ELSE IF \E f \in features : u.function \in Readable(f) THEN "Reply"
    ELSE "CommandNotSupported"

check_write(f, u) == u.function \in Writeable(f)
handle_write(features, u, isBound) ==
    IF features = {} THEN "DestinationUnknown"
    ELSE LET f == CHOOSE g \in features : TRUE IN
         IF ~f.unbound /\ ~isBound THEN "BindingRequired"
         ELSE IF ~check_write(f, u) THEN "CommandNotSupported"
         ELSE IF f.deferred
              THEN IF Len(queue) >= MAX_DEFERRED_WRITES THEN "Overload" ELSE "Deferred"
              ELSE "Stored"

Exchange(kind, m, i, u, result) ==
    answer' = <<[kind |-> kind, who |-> m, entity |-> i, use |-> u, result |-> result]>>

-----------------------------------------------------------------------------
(* The devices a behaviour starts with.                                      *)
Ends ==
    { e \in [server : ServerDescriptors, client : ClientDescriptors] :
        /\ e.client.name = e.server.name /\ e.client.counterpart = e.server.actor
        /\ permits_entity(e.client, "CEM") }

\* A charging manager may announce either actor; one wallbox calls itself a car.
ENERGY_GUARD_ACTORS == <<"CEM", "EnergyGuard">>
Titles(d) ==
    IF d.name \in {"OPEV", "OSCEV"} /\ d.role = "Client" THEN Range(ENERGY_GUARD_ACTORS)
    ELSE IF d.name = "EVCS" /\ d.role = "Server" THEN {d.actor, "EV"}
    ELSE {d.actor}

Announcements(plays, entities, title) ==
    LET one(i) == SetToSeq({ RemoteUseCase(d.name, title[d], i) : d \in plays })
    IN  FlattenSeq([n \in 1 .. Len(entities) |-> one(entities[n])])

\* The entity alone, beside one with all of its features, or twice; where the
\* lookup goes by the features, also beside one with one of them.
Layouts(e, named) ==
    { [entities |-> <<e.features>>, playing |-> <<1>>],
      [entities |-> <<e.features, e.features>>, playing |-> <<2>>],
      [entities |-> <<e.features, e.features>>, playing |-> <<1, 2>>] }
    \cup { [entities |-> <<{f}, e.features>>, playing |-> <<2>>] :
           f \in { g \in e.features : ~named } }

Init ==
    /\ \E e \in Entities, named \in BOOLEAN :
        /\ cast \in [Managers -> { x \in Ends : x.server \in e.plays }]
        /\ \E layout \in Layouts(e, named), title \in [e.plays -> UNION { Titles(d) : d \in e.plays }] :
            /\ \A d \in e.plays : title[d] \in Titles(d)
            /\ device = [entities |-> layout.entities,
                         use_cases |-> Announcements(e.plays,
                             IF named THEN layout.playing ELSE <<Unnamed>>, title),
                         playing |-> Range(layout.playing)]
        /\ \E title \in [Managers -> UNION { Titles(cast[m].client) : m \in Managers }] :
            /\ \A m \in Managers : title[m] \in Titles(cast[m].client)
            /\ desk = [m \in Managers |->
                 [entities |-> <<ClientFeatures(cast[m].client)>>,
                  use_cases |-> <<RemoteUseCase(cast[m].client.name, title[m],
                                                IF named THEN 1 ELSE Unnamed)>>]]
    /\ bound = {} /\ queue = <<>> /\ answer = <<>>

-----------------------------------------------------------------------------
\* The client reads a function its table names.
Read(m, u) ==
    /\ u \in Uses(cast[m].client) /\ u.role = "Client"
    /\ \E p \in Located(m) :
        /\ u.feature \in DOMAIN p
        /\ Exchange("read", m, p[u.feature], u,
                    handle_read(Feature(device, p[u.feature], u.feature), u))
    /\ UNCHANGED <<cast, device, desk, bound, queue>>

\* The client asks for a binding its table says it needs.
Bind(m, type) ==
    /\ type \in features_needing_binding(cast[m].client)
    /\ \E p \in Located(m) : type \in DOMAIN p /\ add_binding(m, p[type], type)
    /\ UNCHANGED <<cast, device, desk, queue>>

\* Either partner may release a binding (Relations::remove_binding).
Release(b) ==
    /\ b \in bound
    /\ bound' = bound \ {b} /\ answer' = <<>>
    /\ UNCHANGED <<cast, device, desk, queue>>

\* The client writes, whether or not its binding has been granted yet.
Write(m, u) ==
    /\ u \in Uses(cast[m].client) /\ u.role = "Client" /\ u.writeable
    /\ \E p \in Located(m) :
        /\ u.feature \in DOMAIN p
        /\ LET i == p[u.feature]
               result == handle_write(Feature(device, i, u.feature), u,
                                      Binding(m, i, u.feature) \in bound)
           IN  /\ Exchange("write", m, i, u, result)
               /\ queue' = IF result = "Deferred"
                           THEN Append(queue, [who |-> m, entity |-> i, use |-> u])
                           ELSE queue
    /\ UNCHANGED <<cast, device, desk, bound>>

\* The application accepts or rejects a write, in any order, and its sender is
\* told (take_deferred, answer_deferred); what is stored is in FunctionData.
Decide(n) ==
    /\ n \in DOMAIN queue
    /\ queue' = RemoveAt(queue, n)
    /\ answer' = <<>>
    /\ UNCHANGED <<cast, device, desk, bound>>

\* It decided too late: the oldest writes are abandoned (handle_timeout).
Abandon(n) ==
    /\ n \in DOMAIN queue
    /\ queue' = SubSeq(queue, n + 1, Len(queue))
    /\ answer' = <<>>
    /\ UNCHANGED <<cast, device, desk, bound>>

\* The charging actor's lookup of its manager, under either of its names.
locate_guard(m) ==
    LET name == cast[m].server.name
        found == { n \in DOMAIN ENERGY_GUARD_ACTORS :
                    use_case(desk[m], name, ENERGY_GUARD_ACTORS[n]) # {} }
    IN  UNION { look_up(desk[m], name, ENERGY_GUARD_ACTORS[n], {"DeviceDiagnosis"}) :
                n \in { k \in found : \A j \in found : k <= j } }

\* The limitation's actor takes the entity that is bound to both features.
bound_guard(m) ==
    IF \E i \in device.playing :
        \A t \in {"LoadControl", "DeviceConfiguration"} : Binding(m, i, t) \in bound
    THEN { [t \in {"DeviceDiagnosis"} |-> 1] } ELSE {}

\* The serving actor reads what its table names from a manager.
Watch(m, u) ==
    /\ u \in Uses(cast[m].server) /\ u.role = "Client"
    /\ LET s == cast[m].server IN
       \E p \in IF s.name \in {"LPC", "LPP"} THEN bound_guard(m)
                ELSE IF s.name \in {"OPEV", "OSCEV"} THEN locate_guard(m)
                ELSE look_up(desk[m], s.name, s.counterpart, {u.feature}) :
          Exchange("watch", m, p[u.feature], u,
                   handle_read(Feature(desk[m], p[u.feature], u.feature), u))
    /\ UNCHANGED <<cast, device, desk, bound, queue>>

\* The connection to a manager ends: its bindings and its writes go with it
\* (remove_peer).
Leave(m) ==
    /\ \/ \E b \in bound : b.client = m
       \/ \E n \in DOMAIN queue : queue[n].who = m
    /\ bound' = { b \in bound : b.client # m }
    /\ queue' = SelectSeq(queue, LAMBDA w : w.who # m)
    /\ answer' = <<>>
    /\ UNCHANGED <<cast, device, desk>>

Next ==
    \/ \E m \in Managers :
        \/ \E u \in Uses(cast[m].client) : Read(m, u) \/ Write(m, u)
        \/ \E u \in Uses(cast[m].server) : Watch(m, u)
        \/ \E type \in features_needing_binding(cast[m].client) : Bind(m, type)
        \/ Leave(m)
    \/ \E b \in bound : Release(b)
    \/ \E n \in DOMAIN queue : Decide(n) \/ Abandon(n)

Spec == Init /\ [][Next]_vars

-----------------------------------------------------------------------------
\* What both tables promise of an exchange: what is read is there, and comes
\* as often as the reader expects; a binding is refused only because somebody
\* else has it; a write needs a binding exactly where the writer's table says
\* so, and is turned away otherwise only when too many are waiting.
Promised(x) ==
    LET ends == cast[x.who] IN
    CASE x.kind = "read" ->
            /\ x.result = "Reply"
            /\ x.use.delivery = delivery_of(ends.server, x.use.feature, x.use.function)
      [] x.kind = "watch" ->
            /\ x.result = "Reply"
            /\ x.use.delivery = delivery_of(ends.client, x.use.feature, x.use.function)
      [] x.kind = "bind" ->
            x.result = "Granted" \/ TakenBy(x.entity, x.feature) \ {x.who} # {}
      [] x.kind = "write" ->
            IF x.use.needs_binding /\ Binding(x.who, x.entity, x.use.feature) \notin bound
            THEN x.result = "BindingRequired"
            ELSE \/ x.result \in {"Stored", "Deferred"}
                 \/ x.result = "Overload" /\ Len(queue) = MAX_DEFERRED_WRITES

\* The use cases' own tables (descriptor.rs and each use case) against the
\* features the crate builds and the way the engine treats them: a device that
\* says which entity plays a use case is found with every feature the other
\* end's table names; nobody takes an entity for its peer that does not play;
\* whatever is bound, waiting or gone, every exchange a table names is answered
\* as both tables promise; and of two managers that come up together no two
\* win a feature each of what one of them needs (actor.rs, install).
ScenariosAreServed ==
    /\ \A m \in Managers :
        /\ device.use_cases[1].entity # Unnamed =>
             \E p \in Located(m) : FeaturesRead(cast[m].client) \subseteq DOMAIN p
        /\ \A p \in Located(m) :
             \A t \in FeaturesRead(cast[m].client) \cap DOMAIN p : p[t] \in device.playing
    /\ \A n \in DOMAIN answer : Promised(answer[n])
    /\ \A b, c \in bound :
        (/\ b.entity = c.entity
         /\ \/ b.feature = c.feature
            \/ cast[b.client].server.name \in {"LPC", "LPP"}) => b.client = c.client
=============================================================================
