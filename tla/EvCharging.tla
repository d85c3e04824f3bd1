----------------------------- MODULE EvCharging -----------------------------
(* Curtailing the charging current of a car (charging.rs, for OPEV and      *)
(* OSCEV): the car's actor, which charges at a safe current unless it hears *)
(* a guard it can rely on, and the guard's actor, which learns how the car  *)
(* numbers its phases and writes what the supply can carry. Between them a  *)
(* stream that delivers in order, and may deliver late.                     *)
EXTENDS Integers, Sequences

CONSTANTS
    PHASES,            \* the phases there are
    CarPhases,         \* the phases this car charges on
    LimitId,           \* LimitId[p]: the number the car keeps phase p's limit under
    Foreign,           \* limits the car describes for another purpose: id -> measurement
    Permitted,             \* <<min, max>>: what the car can charge at
    Requirements,      \* the currents a supply may ask for, phase -> amperes
    HEARTBEAT_TIMEOUT, \* ticks of silence the car bears
    MaxWrites,         \* bound: writes a guard sends
    MaxBeats           \* bound: guard messages on their way

NoAmps == 0            \* a phase that is not limited
Unset == [set |-> FALSE, amps |-> [p \in PHASES |-> NoAmps]]
Set(currents) == [set |-> TRUE, amps |-> currents]
None == -1

VARIABLES
    car,     \* EvActor and its EvCharging; unstored: whether the limit it follows
             \* was answered with an error; behind: whether it last published in a
             \* silence that its last_source does not know of
    data,    \* the car's loadControlLimitListData: limit id -> entry
    age,     \* ticks since the car's last heartbeat
    guard,   \* OverloadGuardActor's record of the car
    asked,   \* opening requests not answered yet
    toCar, toGuard,  \* messages on their way
    sent     \* writes sent so far

evars == <<car, data, age, guard, asked, toCar, toGuard, sent>>

-----------------------------------------------------------------------------
(* Currents and bands.                                                       *)

Named(currents) == {p \in PHASES : currents[p] # NoAmps}
Clamp(value, band) == IF value < band[1] THEN band[1]
                      ELSE IF value > band[2] THEN band[2] ELSE value

(* Each phase into its own band, or the narrowest where it has none; with   *)
(* no band at all the currents stay as they are.                            *)
Narrowest(bands) ==
    <<CHOOSE lo \in {bands[p][1] : p \in DOMAIN bands} : \A p \in DOMAIN bands : lo >= bands[p][1],
      CHOOSE hi \in {bands[p][2] : p \in DOMAIN bands} : \A p \in DOMAIN bands : hi <= bands[p][2]>>
Clamped(currents, bands) ==
    [p \in PHASES |->
       IF currents[p] = NoAmps \/ DOMAIN bands = {} THEN currents[p]
       ELSE Clamp(currents[p], IF p \in DOMAIN bands THEN bands[p] ELSE Narrowest(bands))]

-----------------------------------------------------------------------------
(* What the car describes, and what a guard learns of it. A limit points at *)
(* a measurement, a parameter gives the measurement its phase: neither says *)
(* it alone.                                                                *)

PhaseOf(id) == {p \in PHASES : LimitId[p] = id}

LimitDescriptions ==
    {[limit |-> LimitId[p], measurement |-> LimitId[p], ours |-> TRUE] : p \in CarPhases}
    \cup {[limit |-> id, measurement |-> Foreign[id], ours |-> FALSE] : id \in DOMAIN Foreign}
ParameterDescriptions == {[measurement |-> LimitId[p], phase |-> p] : p \in CarPhases}
PermittedValueSets == [p \in CarPhases |-> Permitted]

Learn(known) ==
    IF "limits" \in known THEN {d \in LimitDescriptions : d.ours} ELSE {}

Parameters(known) == IF "params" \in known THEN ParameterDescriptions ELSE {}

LimitsFor(known, p) ==
    {d.limit : d \in {e \in Learn(known) :
        \E q \in Parameters(known) : q.measurement = e.measurement /\ q.phase = p}}
IsKnown(known) == \E p \in PHASES : LimitsFor(known, p) # {}
ReadPhases(known) ==
    IF "params" \in known THEN {q.phase : q \in ParameterDescriptions} ELSE PHASES

\* The permitted sets can be read only once the parameters say whose they are.
ResolveBand(known) ==
    IF {"params", "permitted"} \subseteq known THEN PermittedValueSets ELSE [p \in {} |-> Permitted]

(* One entry for every phase that is named and addressable.                 *)
LimitData(currents, active, known) ==
    LET at(id) == CHOOSE p \in PHASES : id \in LimitsFor(known, p)
    IN  [id \in UNION {LimitsFor(known, p) : p \in Named(currents)} |->
           [active |-> active, value |-> currents[at(id)]]]
Deactivated(phases, known) ==
    [id \in UNION {LimitsFor(known, p) : p \in phases} |->
       [active |-> FALSE, value |-> NoAmps]]

Everything == {"limits", "params", "permitted"}

-----------------------------------------------------------------------------
(* The car.                                                                  *)

Source(c) ==
    IF c.failed THEN "GuardFailed"
    ELSE IF c.heard = None THEN "NotYetCurtailed"
    ELSE IF c.heard >= HEARTBEAT_TIMEOUT THEN "GuardSilent"
    ELSE IF c.limit.set THEN "Curtailed" ELSE "NotYetCurtailed"

(* What the guard set, and whether it is in force.                          *)
Published(c) ==
    IF c.limit.set /\ Named(c.limit.amps) # {}
    THEN LimitData(c.limit.amps, Source(c) = "Curtailed", Everything)
    ELSE Deactivated(CarPhases, Everything)

\* An entry without an active limit says nothing of its phase.
ReadLimitWrite(entries) ==
    [p \in PHASES |->
       IF LimitId[p] \in DOMAIN entries /\ entries[LimitId[p]].active
       THEN entries[LimitId[p]].value ELSE NoAmps]
SawOne(entries) == \E id \in DOMAIN entries : PhaseOf(id) # {}

\* A partial write: the entries it names over those that stand.
Resolved(entries) ==
    [id \in DOMAIN entries \cup DOMAIN data |->
       IF id \in DOMAIN entries THEN entries[id] ELSE data[id]]

(* on_limit: clamped into the car's own band. A write that lifts the limit  *)
(* everywhere counts as a sign of life if there was none.                   *)
OnLimit(c, currents) ==
    IF Named(currents) = {}
    THEN [c EXCEPT !.limit = Set(currents), !.heard = IF @ = None THEN 0 ELSE age]
    ELSE [c EXCEPT !.limit = Set(Clamped(currents, [p \in PHASES |-> Permitted])),
                   !.heard = IF @ = None THEN None ELSE age]

\* A change of source is published and remembered.
Settled(c) == [c EXCEPT !.source = Source(c), !.behind = @ /\ Source(c) = c.source]
Settle(c) ==
    /\ car' = Settled(c)
    /\ data' = IF Source(c) = c.source THEN data ELSE Published(c)

CarTimeout ==
    /\ car.heard # None /\ car.heard # age
    /\ Settle([car EXCEPT !.heard = age])
    /\ UNCHANGED <<age, guard, asked, toCar, toGuard, sent>>

HearBeat ==
    /\ toCar # <<>> /\ Head(toCar).kind = "beat"
    /\ Settle([car EXCEPT !.heard = 0])
    /\ age' = 0 /\ toCar' = Tail(toCar)
    /\ UNCHANGED <<guard, asked, toGuard, sent>>

HearState ==
    /\ toCar # <<>> /\ Head(toCar).kind = "state"
    /\ Settle([car EXCEPT !.failed = Head(toCar).failed])
    /\ toCar' = Tail(toCar)
    /\ UNCHANGED <<age, guard, asked, toGuard, sent>>

(* decide: what was written says which phases are meant, what it resolves   *)
(* to says where they end up. The engine stores an accepted write, which    *)
(* may fail, and the car publishes what it made of it either way; which     *)
(* source it published by is not remembered.                                *)
Decided(c) ==
    LET write == Head(toCar)
        follows == [p \in PHASES |-> IF p \in CarPhases
                                     THEN ReadLimitWrite(Resolved(write.entries))[p] ELSE NoAmps]
    IN  [ refused |-> \/ ~SawOne(write.entries)
                      \/ Named(ReadLimitWrite(write.entries)) # {} /\ Named(follows) = {},
          car     |-> OnLimit(c, follows) ]

\* Mutant: the car follows the write and serves it as it came.
DecideUnpublished(stored) ==
    LET d == Decided(car)
        ok == ~d.refused /\ stored
    IN  /\ car' = IF d.refused THEN car ELSE d.car
        /\ data' = IF ok THEN Resolved(Head(toCar).entries) ELSE data
        /\ age' = IF car'.heard = None \/ car.heard # None THEN age ELSE 0
        /\ toCar' = Tail(toCar)
        /\ toGuard' = Append(toGuard, [id |-> Head(toCar).id, ok |-> ok])
        /\ UNCHANGED <<guard, asked, sent>>

Decide(stored) ==
    LET d == Decided(car)
        unknown == Source(d.car) = "GuardSilent" /\ car.source = "Curtailed"
    IN  /\ car' = IF d.refused THEN car
                  ELSE [d.car EXCEPT !.unstored = ~stored, !.behind = unknown]
        /\ data' = IF d.refused THEN data ELSE Published(d.car)
        /\ age' = IF car'.heard = None \/ car.heard # None THEN age ELSE 0
        /\ toCar' = Tail(toCar)
        /\ toGuard' = Append(toGuard, [id |-> Head(toCar).id, ok |-> ~d.refused /\ stored])
        /\ UNCHANGED <<guard, asked, sent>>

HearWrite == toCar # <<>> /\ Head(toCar).kind = "write" /\ \E stored \in BOOLEAN : Decide(stored)

-----------------------------------------------------------------------------
(* The guard.                                                                *)

NewGuard ==
    [ bound |-> FALSE, known |-> {}, required |-> Unset, outstanding |-> 0,
      asking |-> Unset, applied |-> Unset, ready |-> FALSE, failed |-> FALSE,
      missed |-> FALSE ]  \* whether a write was given up and none confirmed since

(* write_if_due: what is required and not yet applied, as far as the car    *)
(* can follow it; one write at a time.                                      *)
Due(g) ==
    /\ g.bound /\ g.outstanding = 0 /\ IsKnown(g.known)
    /\ g.required.set /\ g.applied # g.required
Asked(g) == Clamped(g.required.amps, ResolveBand(g.known))

Payload(g) ==
    IF Named(Asked(g)) # {} THEN LimitData(Asked(g), TRUE, g.known)
    ELSE Deactivated(ReadPhases(g.known), g.known)

WriteIfDue(g, messages) ==
    IF ~Due(g) \/ sent = MaxWrites
    THEN /\ guard' = g /\ toCar' = toCar \o messages /\ UNCHANGED sent
    ELSE /\ sent' = sent + 1
         /\ guard' = [g EXCEPT !.outstanding = sent + 1, !.asking = Set(Asked(g))]
         /\ toCar' = toCar \o messages
                     \o <<[kind |-> "write", id |-> sent + 1, entries |-> Payload(g)]>>

ReportReady(g) ==
    IF g.bound /\ DOMAIN ResolveBand(g.known) # {} /\ ~g.ready /\ IsKnown(g.known)
    THEN WriteIfDue([g EXCEPT !.ready = TRUE], <<>>)
    ELSE guard' = g /\ UNCHANGED <<toCar, sent>>

(* attach: binding, subscriptions and three reads; what was known and asked *)
(* of the car before is gone, and so is what was on its way.                *)
Attach ==
    /\ guard' = [NewGuard EXCEPT !.failed = guard.failed]
    /\ asked' = {"bind"} \cup Everything
    /\ toCar' = <<>> /\ toGuard' = <<>>
    /\ UNCHANGED <<car, data, age, sent>>

Reattach == asked = {} /\ sent > 0 /\ sent < MaxWrites /\ Attach

BindingAnswered(granted) ==
    /\ "bind" \in asked
    /\ asked' = asked \ {"bind"}
    /\ ReportReady([guard EXCEPT !.bound = granted])
    /\ UNCHANGED <<car, data, age, toGuard>>

DescriptionLearned(d) ==
    /\ d \in asked \ {"bind"}
    /\ asked' = asked \ {d}
    /\ ReportReady([guard EXCEPT !.known = @ \cup {d}])
    /\ UNCHANGED <<car, data, age, toGuard>>

\* An opening request that is given up is not asked again.
OpeningUnanswered(d) ==
    /\ d \in asked
    /\ asked' = asked \ {d}
    /\ UNCHANGED <<car, data, age, guard, toCar, toGuard, sent>>

Require(currents) ==
    /\ guard.required # Set(currents)
    /\ guard' = [guard EXCEPT !.required = Set(currents)]
    /\ UNCHANGED <<car, data, age, asked, toCar, toGuard, sent>>

\* handle_timeout: a heartbeat, and then whatever is due.
GuardTimeout ==
    /\ Len(toCar) < MaxBeats
    /\ WriteIfDue(guard, <<[kind |-> "beat"]>>)
    /\ UNCHANGED <<car, data, age, asked, toGuard>>

SetFailed(failed) ==
    /\ guard.failed # failed /\ Len(toCar) < MaxBeats
    /\ guard' = [guard EXCEPT !.failed = failed]
    /\ toCar' = Append(toCar, [kind |-> "state", failed |-> failed])
    /\ UNCHANGED <<car, data, age, asked, toGuard, sent>>

Resolve ==
    /\ toGuard # <<>>
    /\ guard' = IF Head(toGuard).id # guard.outstanding THEN guard
                ELSE [guard EXCEPT !.outstanding = 0, !.asking = Unset,
                                   !.applied = IF Head(toGuard).ok THEN guard.asking ELSE @,
                                   !.missed = @ /\ ~Head(toGuard).ok]
    /\ toGuard' = Tail(toGuard)
    /\ UNCHANGED <<car, data, age, asked, toCar, sent>>

(* give_up: the write's slot is free again and what is due goes out afresh; *)
(* the write itself may still arrive.                                       *)
GiveUp ==
    /\ guard.outstanding # 0
    /\ WriteIfDue([guard EXCEPT !.outstanding = 0, !.asking = Unset, !.missed = TRUE], <<>>)
    /\ UNCHANGED <<car, data, age, asked, toGuard>>

EvTick ==
    /\ age < HEARTBEAT_TIMEOUT
    /\ age' = age + 1
    /\ UNCHANGED <<car, data, guard, asked, toCar, toGuard, sent>>

-----------------------------------------------------------------------------
EvInit ==
    /\ car = [limit |-> Unset, heard |-> None, failed |-> FALSE,
              source |-> "NotYetCurtailed", unstored |-> FALSE, behind |-> FALSE]
    /\ data = Deactivated(CarPhases, Everything)
    /\ age = 0
    /\ guard = NewGuard
    /\ asked = {"bind"} \cup Everything
    /\ toCar = <<>> /\ toGuard = <<>> /\ sent = 0

EvNext ==
    \/ CarTimeout \/ HearBeat \/ HearState \/ HearWrite
    \/ Reattach \/ GuardTimeout \/ Resolve \/ GiveUp \/ EvTick
    \/ \E granted \in BOOLEAN : BindingAnswered(granted)
    \/ \E d \in Everything \cup {"bind"} : DescriptionLearned(d) \/ OpeningUnanswered(d)
    \/ \E r \in Requirements : Require(r)
    \/ \E failed \in BOOLEAN : SetFailed(failed)

EvSpec == EvInit /\ [][EvNext]_evars

-----------------------------------------------------------------------------
Currents == [PHASES -> {NoAmps} \cup (Permitted[1] .. Permitted[2])]

(* A car is never told, and never follows, a current it cannot charge at.   *)
(* (clamped, on_limit, write_if_due)                                        *)
EvTypeOK ==
    /\ car.limit.amps \in Currents /\ car.limit.set \in BOOLEAN
    /\ car.heard \in {None} \cup 0 .. HEARTBEAT_TIMEOUT /\ age \in 0 .. HEARTBEAT_TIMEOUT
    /\ DOMAIN data \subseteq {LimitId[p] : p \in CarPhases}
    /\ guard.known \subseteq Everything /\ sent \in 0 .. MaxWrites

(* The limit the guard counts as applied is the one the car holds on every  *)
(* phase it names, once nothing is on its way; refusals, late answers and   *)
(* new attachments included. (It does not hold of a limit the car could not *)
(* store, which it follows all the same, nor after a write the guard gave   *)
(* up.) (resolve, decide, on_limit)                                         *)
InStep ==
    \A p \in Named(guard.applied.amps) \cap CarPhases :
      car.limit.amps[p] = Clamp(guard.applied.amps[p], Permitted)
AppliedIsHeld ==
    /\ guard.applied.set /\ toCar = <<>> /\ toGuard = <<>>
    /\ ~car.unstored /\ ~guard.missed
    => InStep

(* "isLimitActive says whether it is in force" (charging.rs:1500): while    *)
(* the car charges by the limit it holds, the limit of every phase it names *)
(* is published as active.                                                  *)
InForceIsPublished ==
    Source(car) = "Curtailed" =>
      \A p \in Named(car.limit.amps) : data[LimitId[p]].active

(* An entry is published as active only while the car charges by the limit  *)
(* it holds, and every phase the limit names has its value. The converse,   *)
(* that a limit in force is published as active, holds too, except after a  *)
(* write that met a silence nobody had noticed: decide publishes that one   *)
(* as inactive and leaves last_source at Curtailed, so that the heartbeat   *)
(* that ends the silence finds no change to publish. (publish, settle,      *)
(* decide; effective)                                                       *)
PublishedIsInForce ==
    /\ \A p \in CarPhases :
         LimitId[p] \in DOMAIN data /\ data[LimitId[p]].active
           => Source(car) = "Curtailed" /\ car.limit.amps[p] # NoAmps
    /\ \A p \in Named(car.limit.amps) : data[LimitId[p]].value = car.limit.amps[p]
    /\ ~car.behind => InForceIsPublished
=============================================================================
