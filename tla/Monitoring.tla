----------------------------- MODULE Monitoring -----------------------------
(* A measured unit and the appliance that follows it: usecases/monitoring   *)
(* with mgcp.rs. The unit (MonitoredUnit) publishes values with their state *)
(* and says in two descriptions what each one measures; a grid connection   *)
(* point also publishes the factor by which feed-in is curtailed. The       *)
(* appliance (MonitoringApplianceActor) reads each feature and then         *)
(* subscribes to it, so a change may fall between the two.                  *)
EXTENDS Integers, Sequences

CONSTANTS
    Slots,           \* the identifiers of the values
    PerPhase,        \* those whose scope does not say the phases (phasing_of)
    Phases,          \* the phases such a value may be measured on
    Total,           \* the phases the other scopes imply
    Values, InRange, \* what is measured, and set_range
    Factors,         \* curtailment factors somebody may publish
    Percent,         \* CURTAILMENT_RANGE, as <<low, high>>
    MaxSteps         \* bound: the unit's changes and lost connections

VARIABLES
    meter,           \* what the unit holds
    granted,         \* the features the appliance is subscribed to
    answered,        \* the functions read in this connection
    toMeter, toReader,
    readings,        \* Readings and Curtailment
    told,            \* what the events have told the application
    missed,          \* functions that changed after the read, before the grant
    relabelled,      \* values sent under other phases than they have now
    steps            \* how many changes and losses there were

mvars == <<meter, granted, answered, toMeter, toReader, readings, told, missed,
           relabelled, steps>>

None == -1

-----------------------------------------------------------------------------
(* The unit.                                                                *)

FeatureOf(function) ==
    CASE function \in {"connection", "parameters"} -> "ElectricalConnection"
      [] function \in {"descriptions", "constraints", "measurements"} -> "Measurement"
      [] function \in {"keys", "factor"} -> "DeviceConfiguration"

\* measurements: a slot is listed once it has a value or a state to report.
Listed(u) == {i \in Slots : u.value[i] # None \/ u.state[i] # "normal"}

Payload(u, function) ==
    [function |-> function,
     data |-> CASE function = "parameters" -> u.phases
                [] function = "measurements" ->
                     [i \in Listed(u) |-> [value |-> u.value[i], state |-> u.state[i]]]
                [] function = "factor" -> u.factor
                [] OTHER -> <<>>]

\* record: the range decides whether the value is usable.
Record(u, i, v) ==
    [u EXCEPT !.value[i] = v,
              !.state[i] = IF v \in InRange THEN "normal" ELSE "outOfRange"]

\* curtailment_value and Curtailment::factor_percent both clamp.
Clamp(x) == IF x < Percent[1] THEN Percent[1]
            ELSE IF x > Percent[2] THEN Percent[2] ELSE x

-----------------------------------------------------------------------------
(* The readers.                                                             *)

NoReading == [value |-> None, state |-> "none", phases |-> "none"]
NewReadings ==
    [quantity |-> [i \in Slots |-> FALSE],      \* known: the description is there
     phases |-> [i \in Slots |-> "unknown"],    \* Option<Option<Phase>>
     values |-> [i \in Slots |-> NoReading],
     described |-> FALSE, key |-> FALSE, factor |-> None]
NothingTold == [values |-> [i \in Slots |-> NoReading], factor |-> None]

\* A description that does not know the phases forgets the ones known before.
DescribedAnew(r, p) ==
    CASE p.function = "descriptions" ->
           [r EXCEPT !.quantity = [i \in Slots |-> TRUE],
                     !.phases = [i \in Slots |-> IF i \in PerPhase THEN "unknown" ELSE Total]]
      [] p.function = "parameters" ->
           [r EXCEPT !.quantity = [i \in Slots |-> TRUE], !.phases = p.data]
      [] OTHER -> r

\* Readings::describe and learn: a description that does not know the phases
\* leaves the ones known before.
Described(r, p) ==
    CASE p.function = "descriptions" ->
           [r EXCEPT !.quantity = [i \in Slots |-> TRUE],
                     !.phases = [i \in Slots |-> IF i \in PerPhase THEN @[i] ELSE Total]]
      [] p.function = "parameters" ->
           [r EXCEPT !.quantity = [i \in Slots |-> TRUE], !.phases = p.data]
      [] OTHER -> r

\* measurand_of.
Resolves(r, i) == r.quantity[i] /\ r.phases[i] # "unknown"

\* Readings::apply: the values whose meaning is known, stored with it.
Applied(r, p) ==
    IF p.function # "measurements" THEN r
    ELSE [r EXCEPT !.values = [i \in Slots |->
             IF i \in DOMAIN p.data /\ Resolves(r, i)
             THEN [value |-> p.data[i].value, state |-> p.data[i].state,
                   phases |-> r.phases[i]]
             ELSE @[i]]]

\* Curtailment::describe and apply: a value is kept before its key is known.
Curtailed(r, p) ==
    CASE p.function = "keys" -> [r EXCEPT !.key = TRUE]
      [] p.function = "factor" -> [r EXCEPT !.factor = p.data]
      [] OTHER -> r
FactorPercent(r) == IF r.key /\ r.factor # None THEN Clamp(r.factor) ELSE None

\* handle_event on a payload of the electrical connection or the measurement.
LearnReadings(r, p) ==
    LET l == Applied(Described(r, p), p) IN
    [l EXCEPT !.described = @ \/ \E i \in Slots : Resolves(l, i)]

-----------------------------------------------------------------------------
\* attach: everything known of the unit is dropped; each feature is read, then
\* subscribed to. The requests are answered in the order they were sent.
Read(function) == [what |-> "read", function |-> function]
Subscribe(feature) == [what |-> "subscribe", feature |-> feature]
Attach ==
    << Read("connection"), Read("parameters"), Subscribe("ElectricalConnection"),
       Read("descriptions"), Read("constraints"), Read("measurements"),
       Subscribe("Measurement"),
       Read("keys"), Read("factor"), Subscribe("DeviceConfiguration") >>

MInit ==
    /\ meter = [value |-> [i \in Slots |-> None], state |-> [i \in Slots |-> "normal"],
                phases |-> [i \in Slots |-> IF i \in PerPhase
                                            THEN CHOOSE p \in Phases : TRUE ELSE Total],
                factor |-> Percent[2]]
    /\ granted = {} /\ answered = {} /\ toMeter = Attach /\ toReader = <<>>
    /\ readings = NewReadings /\ told = NothingTold
    /\ missed = {} /\ relabelled = {} /\ steps = 0

\* The engine's set_data followed by its notification, for what has changed.
Publish(u, function) ==
    /\ u # meter /\ steps < MaxSteps
    /\ meter' = u
    /\ IF FeatureOf(function) \in granted
       THEN /\ toReader' = Append(toReader, Payload(u, function))
            /\ missed' = missed \ {function}
       ELSE /\ toReader' = toReader
            /\ missed' = missed \cup ({function} \cap answered)
    /\ steps' = steps + 1
    /\ UNCHANGED <<granted, answered, toMeter, readings, told>>

\* What stays relabelled when the values are sent: everything, as long as the
\* reader missed which phases they are measured on.
StillRelabelled == IF "parameters" \in missed THEN relabelled ELSE {}

\* set or set_at, then notify; set_state, then notify.
Measure(i, v) ==
    /\ Publish(Record(meter, i, v), "measurements")
    /\ relabelled' = IF "Measurement" \in granted THEN StillRelabelled ELSE relabelled
Fail(i) ==
    /\ Publish([meter EXCEPT !.state[i] = "error"], "measurements")
    /\ relabelled' = IF "Measurement" \in granted THEN StillRelabelled ELSE relabelled

\* The unit says anew on which phase a value is measured.
Relabel(i, p) ==
    /\ i \in PerPhase
    /\ Publish([meter EXCEPT !.phases[i] = p], "parameters")
    /\ relabelled' = relabelled \cup {i}

Curtail(f) ==
    /\ Publish([meter EXCEPT !.factor = f], "factor")
    /\ UNCHANGED relabelled

\* The engine answers a read or grants a subscription.
Serve ==
    /\ toMeter # <<>>
    /\ LET m == Head(toMeter) IN
         \/ /\ m.what = "read"
            /\ toReader' = Append(toReader, Payload(meter, m.function))
            /\ answered' = answered \cup {m.function}
            /\ relabelled' = IF m.function = "measurements" THEN StillRelabelled
                              ELSE relabelled
            /\ UNCHANGED granted
         \/ /\ m.what = "subscribe"
            /\ granted' = granted \cup {m.feature}
            /\ UNCHANGED <<toReader, answered, relabelled>>
    /\ toMeter' = Tail(toMeter)
    /\ UNCHANGED <<meter, readings, told, missed, steps>>

\* handle_event, and what its event tells: Measured carries the readings the
\* payload brought, CurtailmentChanged the factor when it is another one.
Hear ==
    /\ toReader # <<>>
    /\ LET p == Head(toReader)
           r == IF FeatureOf(p.function) = "DeviceConfiguration"
                THEN Curtailed(readings, p) ELSE LearnReadings(readings, p)
       IN  /\ readings' = r
           /\ told' = [values |-> [i \in Slots |->
                          IF p.function = "measurements" /\ i \in DOMAIN p.data /\ Resolves(r, i)
                          THEN r.values[i] ELSE told.values[i]],
                       factor |-> IF FactorPercent(r) # FactorPercent(readings)
                                  THEN FactorPercent(r) ELSE told.factor]
    /\ toReader' = Tail(toReader)
    /\ UNCHANGED <<meter, granted, answered, toMeter, missed, relabelled, steps>>

\* The connection is lost and comes back, and the application attaches again;
\* or it attaches again while connected, where the subscriptions remain.
Reattach(lost) ==
    /\ steps < MaxSteps
    /\ steps' = steps + 1
    /\ readings' = NewReadings
    /\ granted' = IF lost THEN {} ELSE granted
    /\ answered' = {} /\ missed' = {}
    /\ toReader' = IF lost THEN <<>> ELSE toReader
    /\ toMeter' = IF lost THEN Attach ELSE toMeter \o Attach
    /\ UNCHANGED <<meter, told, relabelled>>

MNext ==
    \/ \E i \in Slots : \/ \E v \in Values : Measure(i, v)
                        \/ Fail(i)
                        \/ \E p \in Phases : Relabel(i, p)
    \/ \E f \in Factors : Curtail(f)
    \/ Serve \/ Hear
    \/ \E lost \in BOOLEAN : Reattach(lost)

-----------------------------------------------------------------------------
(* When nothing is under way and nothing changed between a read and the     *)
(* subscription, the application was told every value the unit lists, with  *)
(* its state and under the phases it is measured on, and the factor. A      *)
(* value the unit relabelled keeps its old meaning until it is sent again   *)
(* under phases the reader was told.                                        *)
(* (Readings::apply, Readings::learn, Curtailment, attach)                  *)
ReadingsAreTrue ==
    toMeter = <<>> /\ toReader = <<>> /\ missed = {} =>
      /\ \A i \in Listed(meter) :
           /\ told.values[i].value = meter.value[i]
           /\ told.values[i].state = meter.state[i]
           /\ i \notin relabelled => told.values[i].phases = meter.phases[i]
           /\ readings.phases[i] = meter.phases[i]
      /\ told.factor = Clamp(meter.factor)
      /\ FactorPercent(readings) = told.factor
=============================================================================
