----------------------------- MODULE Measurands -----------------------------
(* What a measured value is: usecases/monitoring/measurand.rs. A unit       *)
(* describes each value twice, by the scope of its quantity and by the      *)
(* phases it is measured on, in the words of its use case (Naming). A       *)
(* reader (Readings) puts the two together again, in whichever order they   *)
(* come, and files each value under what it then takes it for.              *)
EXTENDS Integers, Sequences

CONSTANTS
    PhaseNames,      \* phases a value may be measured on, other than all
    MaxSlots         \* bound: the values of one unit

VARIABLES
    naming, slots,   \* MonitoredUnit
    known,           \* Readings: what each identifier is taken for
    values,          \* the measurand the last value was filed under
    learnt           \* which descriptions have been read

unitVars == <<naming, slots, known, values, learnt>>

Abc == "abc"
NoPhases == "none"
Unknown == "unknown"

-----------------------------------------------------------------------------
(* The vocabulary.                                                          *)

WholeConnection ==
    {"EnergyConsumed", "EnergyProduced", "Frequency", "PowerFactor", "YieldDay",
     "YieldMonth", "YieldYear", "YieldTotal"}
ByPhase == {"Power", "ApparentPower", "ReactivePower", "Current", "Voltage"}
Phaseless ==
    {"EnergyCharged", "StateOfCharge", "StateOfHealth", "TravelRange",
     "Temperature", "DhwTemperature", "RoomTemperature", "OutdoorTemperature",
     "DcPower", "DcCurrent", "DcVoltage", "DcEnergy", "DcChargeEnergy",
     "DcDischargeEnergy", "StateOfEnergy", "UsableCapacity", "LoadCycleCount",
     "InsulationResistance"}

Measurand(quantity, phases) == [quantity |-> quantity, phases |-> phases]
total(quantity) == Measurand(quantity, Abc)
on(quantity, phase) == Measurand(quantity, phase)
unphased(quantity) == Measurand(quantity, NoPhases)
is_total(m) == m.phases \in {Abc, NoPhases}
Measurable ==
    { total(q) : q \in WholeConnection \cup ByPhase }
    \cup { on(q, p) : q \in ByPhase, p \in PhaseNames }
    \cup { unphased(q) : q \in Phaseless }

\* Measurand::scope_type: a power is named apart when it is the total; what is not
\* listed is named as its scope is.
PowerScope ==
    [Power |-> "AcPower", ApparentPower |-> "AcPowerApparent",
     ReactivePower |-> "AcPowerReactive"]
TotalScope ==
    [Power |-> "AcPowerTotal", ApparentPower |-> "AcPowerApparentTotal",
     ReactivePower |-> "AcPowerReactiveTotal"]
OtherScope ==
    [EnergyConsumed |-> "AcEnergyConsumed", EnergyProduced |-> "AcEnergyProduced",
     Current |-> "AcCurrent", Voltage |-> "AcVoltage", Frequency |-> "AcFrequency",
     PowerFactor |-> "AcCosPhi", YieldDay |-> "AcYieldDay", YieldMonth |-> "AcYieldMonth",
     YieldYear |-> "AcYieldYear", YieldTotal |-> "AcYieldTotal",
     EnergyCharged |-> "Charge", Temperature |-> "ComponentTemperature",
     RoomTemperature |-> "RoomAirTemperature",
     OutdoorTemperature |-> "OutsideAirTemperature", UsableCapacity |-> "UseableCapacity"]
scope_type(m) ==
    IF m.quantity \in DOMAIN PowerScope
    THEN IF is_total(m) THEN TotalScope[m.quantity] ELSE PowerScope[m.quantity]
    ELSE IF m.quantity \in DOMAIN OtherScope THEN OtherScope[m.quantity] ELSE m.quantity
grid_scope_type(m) ==
    IF m.quantity = "EnergyConsumed" THEN "GridConsumption"
    ELSE IF m.quantity = "EnergyProduced" THEN "GridFeedIn"
    ELSE scope_type(m)
Namings == {"Appliance", "GridConnectionPoint", "EvCharging", "EvBattery"}
scope_of(n, m) == IF n = "GridConnectionPoint" THEN grid_scope_type(m) ELSE scope_type(m)

-----------------------------------------------------------------------------
(* The reader's side of it.                                                 *)

QuantityNamed ==
    [AcPowerTotal |-> "Power", AcPower |-> "Power",
     AcPowerApparentTotal |-> "ApparentPower", AcPowerApparent |-> "ApparentPower",
     AcPowerReactiveTotal |-> "ReactivePower", AcPowerReactive |-> "ReactivePower",
     AcEnergyConsumed |-> "EnergyConsumed", GridConsumption |-> "EnergyConsumed",
     AcEnergyProduced |-> "EnergyProduced", GridFeedIn |-> "EnergyProduced",
     AcCurrent |-> "Current", AcVoltage |-> "Voltage", AcFrequency |-> "Frequency",
     AcCosPhi |-> "PowerFactor", AcYieldDay |-> "YieldDay", AcYieldMonth |-> "YieldMonth",
     AcYieldYear |-> "YieldYear", AcYieldTotal |-> "YieldTotal",
     Charge |-> "EnergyCharged", ComponentTemperature |-> "Temperature",
     RoomAirTemperature |-> "RoomTemperature",
     OutsideAirTemperature |-> "OutdoorTemperature", UseableCapacity |-> "UsableCapacity"]
quantity_of(scope) ==
    IF scope \in DOMAIN QuantityNamed THEN QuantityNamed[scope] ELSE scope
ScopesByPhase ==
    {"AcPower", "AcCurrent", "AcVoltage", "AcPowerApparent", "AcPowerReactive"}
PhaselessScopes ==
    {"DcPower", "DcCurrent", "DcVoltage", "DcEnergy", "DcChargeEnergy",
     "DcDischargeEnergy", "Charge", "StateOfCharge", "StateOfHealth", "StateOfEnergy",
     "UseableCapacity", "LoadCycleCount", "InsulationResistance",
     "ComponentTemperature", "DhwTemperature", "RoomAirTemperature",
     "OutsideAirTemperature", "TravelRange"}
phasing_of(scope) ==
    IF scope \in ScopesByPhase THEN Unknown
    ELSE IF scope \in PhaselessScopes THEN NoPhases ELSE Abc

\* learn: phases that are not told leave the ones known.
learn(i, quantity, phases) ==
    [quantity |-> quantity,
     phases |-> IF phases = Unknown THEN known[i].phases ELSE phases]
measurand_of(k) == Measurand(k.quantity, k.phases)

-----------------------------------------------------------------------------
NothingKnown == Measurand(Unknown, Unknown)
UInit ==
    /\ naming \in Namings /\ slots = <<>> /\ learnt = {}
    /\ known = <<>> /\ values = <<>>

\* add: a measurand already there keeps its identifier.
Add(m) ==
    /\ learnt = {} /\ values = <<>> /\ Len(slots) < MaxSlots
    /\ slots' = IF \E i \in DOMAIN slots : slots[i] = m THEN slots ELSE Append(slots, m)
    /\ known' = [i \in DOMAIN slots' |-> NothingKnown]
    /\ UNCHANGED <<naming, values, learnt>>

\* describe, of measurementDescriptionListData and of the parameter descriptions.
Describe(function) ==
    /\ slots # <<>>
    /\ known' = [i \in DOMAIN slots |->
         LET scope == scope_of(naming, slots[i]) IN
         learn(i, quantity_of(scope),
               IF function = "descriptions" THEN phasing_of(scope) ELSE slots[i].phases)]
    /\ learnt' = learnt \cup {function}
    /\ UNCHANGED <<naming, slots, values>>

\* apply: a value whose meaning is not known is not filed.
Apply ==
    /\ slots # <<>>
    /\ values' = [i \in DOMAIN slots |->
         IF known[i].phases # Unknown THEN measurand_of(known[i])
         ELSE IF i \in DOMAIN values THEN values[i] ELSE NothingKnown]
    /\ UNCHANGED <<naming, slots, known, learnt>>

UNext ==
    \/ \E m \in Measurable : Add(m)
    \/ \E function \in {"descriptions", "parameters"} : Describe(function)
    \/ Apply

-----------------------------------------------------------------------------
(* A value is filed under what it measures and under nothing else, in every *)
(* use case's vocabulary and whichever description came first; with both    *)
(* read every value can be filed, and no two under one name.                *)
(* (Measurand::scope_type, Readings::describe, MonitoredUnit::add)          *)
MeaningIsKept ==
    /\ \A i \in DOMAIN values : values[i] \in {NothingKnown, slots[i]}
    /\ \A i \in DOMAIN known : learnt = {"descriptions", "parameters"} =>
         /\ measurand_of(known[i]) = slots[i]
         /\ \A j \in DOMAIN known : known[j] = known[i] => j = i
=============================================================================
