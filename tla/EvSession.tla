----------------------------- MODULE EvSession ------------------------------
(* What an energy manager learns of a car and its charging station, and the *)
(* bill it writes when the car is done: EVCC (EvProfile), EVSECC, EVSOC and *)
(* EVCS of usecases/emobility. The manager reads the functions in any order *)
(* and is then notified of changes, by whole lists or by the entries that   *)
(* changed. The car and the station may be of another make, with numbers    *)
(* and entries of their own. A behaviour follows one topic; the topics      *)
(* share no state. Quantities are in thousandths.                           *)
EXTENDS EvProfile

CONSTANTS
    KeyIds, ParameterIds, BillIds,   \* identifiers to choose from
    Profile,         \* what a car may say: a set of values for each field
    Infos,           \* ManufacturerInfo a station may give
    Charges,         \* percentages a battery reports, in thousandths
    Capacities,      \* its nominal capacity, in thousandths of a Wh
    Summaries,       \* session summaries a broker may write
    MaxChanges

VARIABLES
    topic,           \* what this behaviour is about
    ids,             \* the identifiers the car or the station uses
    truth,           \* what the car or the station has to say
    past,            \* all it had to say so far
    wire,            \* payloads under way to the manager
    heard,           \* what the manager has asked for
    reader,          \* EvReader, or what the manager has in its place
    changes          \* how often the truth has changed
vars == <<topic, ids, truth, past, wire, heard, reader, changes>>

Topics == {"keys", "power", "plain", "station", "battery", "bill"}

-----------------------------------------------------------------------------
(* EVSECC. Manufacturer data has more fields than the six of a station's    *)
(* ManufacturerInfo; "serialNumber" stands for the others.                  *)
InfoFields == {"deviceName", "deviceCode", "vendorName", "vendorCode",
               "brandName", "manufacturerLabel"}
ManufacturerFields == InfoFields \cup {"serialNumber"}
NoManufacturer == [f \in ManufacturerFields |-> Absent]
NoInfo == [f \in InfoFields |-> Absent]
to_data(info) == Payload("manufacturer",
    [f \in ManufacturerFields |-> IF f \in InfoFields THEN info[f] ELSE Absent])
read_info(p) == [f \in InfoFields |-> p.entries[f]]
operating_state(state, last_error) == Payload("stationState",
    [operating_state |-> Some(state), last_error_code |-> last_error])
read_operating_state(p) == p.entries.operating_state
is_failure(state) ==
    state \in {"failure", "serviceNeeded", "inAlarm", "notReachable"}

-----------------------------------------------------------------------------
(* EVSOC. The manager's Readings give values their meaning and drop those   *)
(* that have none yet; Battery takes what they yield and keeps the rest.    *)
Measured == {"StateOfCharge", "StateOfHealth", "TravelRange"}
NewBattery ==
    [readings |-> {}, nominal_capacity |-> Absent,
     measured |-> [q \in Measured |-> Absent]]
nominal_capacity(watt_hours) == Payload("characteristics",
    <<[type |-> "energyCapacityNominalMax", value |-> Some(from_f64(watt_hours, 0))]>>)
read_nominal_capacity(p) ==
    LET found == SelectSeq(p.entries, LAMBDA e : e.type = "energyCapacityNominalMax")
    IN  IF found = <<>> \/ found[1].value = Absent THEN Absent
        ELSE Some(to_f64(found[1].value[1]))
measurement_descriptions == Payload("measurementDescriptions", Measured)
measurements(t, Q) == Payload("measurements", [q \in Q |-> t.measured[q]])
\* Reading::usable: a value the car calls out of range or wrong is none.
usable(m) == IF m.state = "normal" THEN Some(m.value) ELSE Absent
Or(new, old) == IF IsSome(new) THEN new ELSE old
apply_battery(b, p) ==
    CASE p.kind = "measurementDescriptions" ->
            [b EXCEPT !.readings = @ \cup p.entries]
      [] p.kind = "measurements" ->
            [b EXCEPT !.measured = [q \in Measured |->
                IF q \in DOMAIN p.entries /\ q \in b.readings
                THEN Or(usable(p.entries[q]), @[q]) ELSE @[q]]]
      [] OTHER -> [b EXCEPT !.nominal_capacity = Or(read_nominal_capacity(p), @)]

clamp(percent) == IF percent < 0 THEN 0 ELSE IF percent > 100000 THEN 100000 ELSE percent
\* A percentage of the nominal capacity, where both are known.
Portion(percent, capacity) ==
    IF IsSome(percent) /\ IsSome(capacity)
    THEN Some((percent[1] * (capacity[1] \div 1000)) \div 100) ELSE Absent
energy_stored(b) ==
    Portion([i \in DOMAIN b.measured.StateOfCharge |-> clamp(b.measured.StateOfCharge[i])],
            b.nominal_capacity)
energy_to_full(b) ==
    Portion([i \in DOMAIN b.measured.StateOfCharge |->
               100000 - clamp(b.measured.StateOfCharge[i])],
            b.nominal_capacity)
usable_capacity(b) ==
    Portion([i \in DOMAIN b.measured.StateOfHealth |-> clamp(b.measured.StateOfHealth[i])],
            b.nominal_capacity)

-----------------------------------------------------------------------------
(* EVCS. The station describes its bills and says when it wants one         *)
(* written; the broker writes the session's summary under that bill.        *)
BILL_ID == 1
SUMMARY == "chargingSummary"
Bill(id, writeable, update, types) ==
    [id |-> id, writeable |-> writeable, update |-> update, types |-> types]
summary_description(update_required) == Payload("billDescriptions",
    <<Bill(Some(BILL_ID), TRUE, Some(update_required), {SUMMARY})>>)
\* The first bill of the type that may be written; it must have an identifier.
find_summary(p) ==
    LET found == SelectSeq(p.entries, LAMBDA b : SUMMARY \in b.types /\ b.writeable)
    IN  IF found = <<>> \/ found[1].id = Absent THEN Absent
        ELSE Some([bill |-> found[1].id[1], update |-> found[1].update = Some(TRUE)])

Share(energy_percent, cost_percent) ==
    [energy_percent |-> energy_percent, cost_percent |-> cost_percent]
for_bill(summary, bill) == [summary EXCEPT !.bill = bill]
grid_energy_wh(s) == (s.energy_wh * s.from_grid[1].energy_percent) \div 100000
self_produced_energy_wh(s) == (s.energy_wh * s.self_produced[1].energy_percent) \div 100000
grid_cost(s) == (s.cost * s.from_grid[1].cost_percent) \div 100000
self_produced_cost(s) == (s.cost * s.self_produced[1].cost_percent) \div 100000
Within(x, y, slack) == x - y <= slack /\ y - x <= slack
shares_add_up(s) ==
    /\ IsSome(s.from_grid) /\ IsSome(s.self_produced)
    /\ LET grid == s.from_grid[1]
           own == s.self_produced[1]
       IN  /\ Within(grid.energy_percent + own.energy_percent, 100000, 100)
           /\ Within(grid.cost_percent + own.cost_percent, 100000, 100)

position(type, share) ==
    [type |-> type,
     value_percentage |-> Some(from_f64(share.energy_percent, 2)),
     cost_percentage |-> Some(from_f64(share.cost_percent, 2))]
\* A share that was not recorded is no position, rather than one of zero.
write(s) == Payload("bills",
    <<[id |-> Some(s.bill), type |-> SUMMARY,
       value |-> <<[unit |-> "Wh", value |-> from_f64(s.energy_wh, 0)]>>,
       cost |-> <<[type |-> "absolutePrice", currency |-> Some(s.currency),
                  cost |-> from_f64(s.cost, 2)]>>,
       position |-> [i \in DOMAIN s.from_grid |->
                       position("gridElectricEnergy", s.from_grid[i])]
                    \o [i \in DOMAIN s.self_produced |->
                          position("selfProducedElectricEnergy", s.self_produced[i])]]>>)
share_of(p) ==
    IF IsSome(p.value_percentage) /\ IsSome(p.cost_percentage)
    THEN Some(Share(to_f64(p.value_percentage[1]), to_f64(p.cost_percentage[1])))
    ELSE Absent
\* Of several positions of one type the last that gives a share counts.
LastShare(positions, type) ==
    LET given == SelectSeq(positions, LAMBDA p : p.type = type /\ IsSome(share_of(p)))
    IN  IF given = <<>> THEN Absent ELSE share_of(given[Len(given)])
read(p) ==
    LET found == SelectSeq(p.entries, LAMBDA b : b.type = SUMMARY)
        value == SelectSeq(found[1].value, LAMBDA v : v.unit = "Wh")
        cost == SelectSeq(found[1].cost, LAMBDA c : c.type = "absolutePrice")
    IN  IF found = <<>> THEN Absent
        ELSE IF value = <<>> \/ cost = <<>> THEN Absent
        ELSE IF cost[1].currency = Absent THEN Absent
        ELSE Some([energy_wh |-> to_f64(value[1].value), cost |-> to_f64(cost[1].cost),
                   currency |-> cost[1].currency[1],
                   from_grid |-> LastShare(found[1].position, "gridElectricEnergy"),
                   self_produced |->
                     LastShare(found[1].position, "selfProducedElectricEnergy"),
                   bill |-> IF IsSome(found[1].id) THEN found[1].id[1] ELSE BILL_ID])
NoBills == Payload("bills", <<>>)

-----------------------------------------------------------------------------
(* The peer's numbers. One of this crate's make uses the numbers above and  *)
(* nothing else. One of another make uses its own, has keys, parameters and *)
(* bills of other kinds, and entries that lack something; "twice" is a car  *)
(* that describes two parameters as its total power.                        *)
Own == [own |-> TRUE, keys |-> <<1, 2>>, power |-> 1, bill |-> 1, twice |-> FALSE]
Numberings(t) ==
    LET Like(keys, powers, bills, twices) ==
            [own : {FALSE}, keys : keys, power : powers, bill : bills, twice : twices]
    IN  {Own} \cup
        CASE t = "keys" -> Like({ k \in KeyIds \X KeyIds : k[1] # k[2] }, {1}, {1}, {FALSE})
          [] t = "power" -> Like({<<1, 2>>}, ParameterIds, {1}, BOOLEAN)
          [] t = "bill" -> Like({<<1, 2>>}, {1}, BillIds, {FALSE})
          [] OTHER -> {}

\* The entries of a list under the peer's numbers, after the peer's others.
Among(others, entries, number(_)) ==
    SetToSeq(others)
    \o [i \in DOMAIN entries |-> [entries[i] EXCEPT !.id = Some(number(entries[i].id[1]))]]
Published(p) ==
    LET OtherKeys == KeyIds \ {ids.keys[1], ids.keys[2]}
        OtherParameters == ParameterIds \ {ids.power}
        Key(k) == ids.keys[k]
        Power(k) == ids.power
        BillId(k) == ids.bill
    IN  IF ids.own THEN p
        ELSE CASE p.kind = "keyDescriptions" ->
               [p EXCEPT !.entries = Among(
                  { KeyDescription(Some(k), Some("other")) : k \in OtherKeys }
                  \cup {KeyDescription(Absent, Some("communicationsStandard"))}, @, Key)]
          [] p.kind = "keyValues" ->
               [p EXCEPT !.entries = Among(
                  { KeyValue(Some(k), Some("iso15118-2ed1"), Some(TRUE)) : k \in OtherKeys },
                  @, Key)]
          [] p.kind = "parameterDescriptions" ->
               [p EXCEPT !.entries = Among(
                  { ParameterDescription(Some(k), Some(IF ids.twice THEN "acPowerTotal"
                                                       ELSE "acCurrent")) :
                      k \in OtherParameters }, @, Power)]
          [] p.kind = "permittedValues" ->
               [p EXCEPT !.entries = Among(
                  { PermittedValues(Some(k), Some(from_f64(6000, 0)), Absent) :
                      k \in OtherParameters }
                  \cup {PermittedValues(Some(ids.power), Absent, Absent)}, @, Power)]
          [] p.kind = "billDescriptions" ->
               [p EXCEPT !.entries = Among(
                  { Bill(Some(k), k > ids.bill, Absent, IF k > ids.bill THEN {"tariff"}
                                                       ELSE {SUMMARY}) :
                      k \in BillIds \ {ids.bill} }, @, BillId)]
          [] OTHER -> p

-----------------------------------------------------------------------------
(* What there is to read.                                                   *)
Payloads(t) ==
    CASE topic = "keys" -> <<key_descriptions, key_values(t)>>
      [] topic = "power" -> <<power_parameter_description, power_limits(t)>>
      [] topic = "plain" ->
            <<identification_data(t), manufacturer_data(t, NoManufacturer), state_data(t)>>
      [] topic = "station" -> <<to_data(t.info), operating_state(t.state, t.last_error)>>
      [] topic = "battery" ->
            <<nominal_capacity(t.capacity), measurement_descriptions,
              measurements(t, Measured)>>
      [] OTHER -> <<summary_description(t.update), t.bills>>

\* The measured values are asked for after their descriptions.
MayRead(kind) == kind = "measurements" => "measurementDescriptions" \in heard

Fields(t) ==
    CASE t = "keys" -> {"communication_standard", "asymmetric_charging"}
      [] t = "power" -> {"charging_power"}
      [] t = "plain" -> {"identification", "manufacturer", "asleep"}
      [] OTHER -> {}
Measurement(value, state) == [value |-> value, state |-> state]
Measurements == { Measurement(c, s) : c \in Charges, s \in {"normal", "outOfRange"} }
Truths(t) ==
    CASE t = "station" ->
            { [info |-> NoInfo, state |-> "normalOperation", last_error |-> Absent] }
      [] t = "battery" ->
            { [measured |-> [q \in Measured |-> m], capacity |-> c] :
                m \in { n \in Measurements : n.state = "normal" }, c \in Capacities }
      [] t = "bill" -> { [update |-> FALSE, bills |-> NoBills] }
      [] OTHER -> {NoProfile}
Reader(t) ==
    CASE t = "station" -> [info |-> Absent, state |-> Absent]
      [] t = "battery" -> NewBattery
      [] t = "bill" -> [summary |-> Absent, bills |-> Absent, wrote |-> Absent]
      [] OTHER -> NewReader

Init ==
    /\ topic \in Topics
    /\ ids \in Numberings(topic)
    /\ truth \in Truths(topic) /\ past = {truth}
    /\ wire = <<>> /\ heard = {} /\ changes = 0
    /\ reader = Reader(topic)

\* The manager reads a function: the peer answers with what it holds now.
Read(p) ==
    /\ p.kind \notin heard /\ MayRead(p.kind)
    /\ heard' = heard \cup {p.kind}
    /\ wire' = Append(wire, Published(p))
    /\ UNCHANGED <<topic, ids, truth, past, reader, changes>>

\* The truth changes, and the manager is notified of the function that says so
\* once it has read that; a function it has not read yet tells it then.
Tell(t, p) ==
    /\ changes < MaxChanges /\ t # truth
    /\ truth' = t /\ past' = past \cup {t} /\ changes' = changes + 1
    /\ wire' = IF p.kind \in heard THEN Append(wire, Published(p)) ELSE wire
    /\ UNCHANGED <<topic, ids, heard, reader>>

\* A car sets a field of its profile. Of its keys it may tell only the one.
SetProfile ==
    /\ topic \in {"keys", "power", "plain"}
    /\ \E field \in Fields(topic) : \E value \in Profile[field] :
         LET t == SetField(truth, field, value)
             only == [NoProfile EXCEPT ![field] = Some(value)]
         IN  CASE field \in Fields("keys") ->
                    \E told \in {t, only} : Tell(t, key_values(told))
               [] field = "charging_power" -> Tell(t, power_limits(t))
               [] field = "identification" -> Tell(t, identification_data(t))
               [] field = "manufacturer" -> Tell(t, manufacturer_data(t, NoManufacturer))
               [] OTHER -> Tell(t, state_data(t))

\* A station says who made it, fails and recovers; its last error stays.
SetInfo == topic = "station" /\ \E info \in Infos :
    Tell([truth EXCEPT !.info = info], to_data(info))
SetState == topic = "station" /\ \E state \in {"normalOperation", "standby", "failure"} :
    LET error == IF is_failure(state) THEN Some("E1") ELSE truth.last_error IN
    Tell([truth EXCEPT !.state = state, !.last_error = error],
         operating_state(state, error))

\* A car measures: the others of its values may be told along with it.
Measure == topic = "battery" /\ \E q \in Measured, m \in Measurements :
    LET t == [truth EXCEPT !.measured[q] = m] IN
    \E Q \in {{q}, Measured} : Tell(t, measurements(t, Q))

\* The session ends and the station asks for its summary.
EndSession ==
    /\ topic = "bill" /\ ~truth.update
    /\ Tell([truth EXCEPT !.update = TRUE], summary_description(TRUE))

\* The manager applies the next payload.
Apply ==
    /\ wire # <<>>
    /\ wire' = Tail(wire)
    /\ reader' =
         LET p == Head(wire) IN
         CASE topic = "station" ->
                IF p.kind = "manufacturer" THEN [reader EXCEPT !.info = Some(read_info(p))]
                ELSE [reader EXCEPT !.state = read_operating_state(p)]
           [] topic = "battery" -> apply_battery(reader, p)
           [] topic = "bill" ->
                IF p.kind = "bills" THEN [reader EXCEPT !.bills = read(p)]
                ELSE [reader EXCEPT !.summary = find_summary(p)]
           [] OTHER -> apply(reader, p)
    /\ UNCHANGED <<topic, ids, truth, past, heard, changes>>

\* The broker writes the session's summary under the bill it was asked for.
\* The station stores the write, whole, and stops asking.
WriteSummary(s) ==
    /\ topic = "bill" /\ IsSome(reader.summary) /\ reader.summary[1].update
    /\ LET written == for_bill(s, reader.summary[1].bill)
           t == [update |-> FALSE, bills |-> write(written)]
       IN  /\ truth' = t /\ past' = past \cup {t}
           /\ reader' = [reader EXCEPT !.wrote = Some(written), !.summary = Absent]
    /\ wire' = Append(wire, Published(summary_description(FALSE)))
               \o (IF "bills" \in heard THEN <<truth'.bills>> ELSE <<>>)
    /\ UNCHANGED <<topic, ids, heard, changes>>

Next ==
    \/ \E i \in DOMAIN Payloads(truth) : Read(Payloads(truth)[i])
    \/ SetProfile
    \/ SetInfo
    \/ SetState
    \/ Measure
    \/ EndSession
    \/ Apply
    \/ \E s \in Summaries : WriteSummary(s)

Spec == Init /\ [][Next]_vars

-----------------------------------------------------------------------------
\* The reader has read everything and nothing is under way.
Quiet == wire = <<>> /\ \A i \in DOMAIN Payloads(truth) : Payloads(truth)[i].kind \in heard

\* What of a car's profile a manager can know: of a standard nobody defined
\* only that it is another, of a power the whole watts.
ShownStandard(standard) ==
    IF standard = Absent \/ standard = Some(Other("")) THEN Absent
    ELSE IF standard[1] \in Named THEN standard ELSE Some(Other("other"))
ShownManufacturer(m) == IF IsSome(m) THEN m ELSE Some(NoManufacturer)
ShownSleep(asleep) == Some(asleep = Some(TRUE))
WholeWatts(shown, band) ==
    /\ Len(shown) = Len(band)
    /\ \A i \in DOMAIN band :
         /\ Within(shown[i].min, band[i].min, 500) /\ Len(shown[i].max) = Len(band[i].max)
         /\ \A j \in DOMAIN band[i].max : Within(shown[i].max[j], band[i].max[j], 500)

\* The summary as it is read back: the same bill and the same shares, each
\* number within its rounding; shares that made a whole still do, and what
\* they amount to is the session's energy and cost, to a thousandth part.
BilledAs(s, r) ==
    /\ r.bill = ids.bill /\ r.currency = s.currency
    /\ Within(r.energy_wh, s.energy_wh, 500) /\ Within(r.cost, s.cost, 5)
    /\ \A share \in {"from_grid", "self_produced"} :
         /\ Len(r[share]) = Len(s[share])
         /\ \A i \in DOMAIN s[share] :
              /\ Within(r[share][i].energy_percent, s[share][i].energy_percent, 5)
              /\ Within(r[share][i].cost_percent, s[share][i].cost_percent, 5)
    /\ shares_add_up(s) => shares_add_up(r)
    /\ shares_add_up(r) =>
         /\ Within(grid_energy_wh(r) + self_produced_energy_wh(r), r.energy_wh,
                   r.energy_wh \div 1000 + 2)
         /\ Within(grid_cost(r) + self_produced_cost(r), r.cost, r.cost \div 1000 + 2)

\* At no time does the manager take the car, the battery or the station for
\* something it never was, whatever is still under way.
NothingMadeUp ==
    CASE topic \in {"keys", "power", "plain"} ->
           LET profile == reader.profile IN
           /\ profile.communication_standard
                \in {Absent} \cup { ShownStandard(p.communication_standard) : p \in past }
           /\ supports_data_exchange(profile) => \E p \in past : supports_data_exchange(p)
           /\ profile.asymmetric_charging \in { p.asymmetric_charging : p \in past }
           /\ profile.identification \in { p.identification : p \in past }
           /\ profile.charging_power # Absent =>
                \E p \in past : WholeWatts(profile.charging_power, p.charging_power)
           /\ profile.asleep \in {Absent} \cup { ShownSleep(p.asleep) : p \in past }
      [] topic = "station" ->
           reader.state \in {Absent} \cup { Some(p.state) : p \in past }
      [] topic = "battery" ->
           \A q \in Measured :
             reader.measured[q] \in {Absent} \cup { usable(p.measured[q]) : p \in past }
      [] OTHER ->
           /\ \A i \in DOMAIN reader.summary : reader.summary[i].bill = ids.bill
           /\ \A i \in DOMAIN truth.bills.entries : truth.bills.entries[i].id = Some(ids.bill)

\* However the car numbers its keys and parameters, and in whatever order
\* descriptions, values and notifications arrive, whole or in part, a manager
\* makes nothing up, and once it has heard everything it has the car's
\* profile, its battery and the station as they are (evcc.rs apply and
\* resolve_*, addressing.rs, evsecc.rs, evsoc.rs apply), and the summary it
\* wrote is what the station has under its bill (evcs.rs).
CarIsKnown ==
    /\ NothingMadeUp
    /\ Quiet =>
      CASE topic = "keys" ->
             /\ reader.profile.communication_standard
                  = ShownStandard(truth.communication_standard)
             /\ reader.profile.asymmetric_charging = truth.asymmetric_charging
        [] topic = "power" ->
             IF ids.twice THEN reader.profile.charging_power = Absent
             ELSE WholeWatts(reader.profile.charging_power, truth.charging_power)
        [] topic = "plain" ->
             /\ reader.profile.identification = truth.identification
             /\ reader.profile.manufacturer = ShownManufacturer(truth.manufacturer)
             /\ reader.profile.asleep = ShownSleep(truth.asleep)
        [] topic = "station" ->
             reader.info = Some(truth.info) /\ reader.state = Some(truth.state)
        [] topic = "battery" ->
             /\ \A q \in Measured :
                  IsSome(usable(truth.measured[q])) =>
                    reader.measured[q] = usable(truth.measured[q])
             /\ Within(reader.nominal_capacity[1], truth.capacity, 500)
             /\ \A i \in DOMAIN reader.measured.StateOfCharge :
                  Within(energy_stored(reader)[i] + energy_to_full(reader)[i],
                         reader.nominal_capacity[i], 2)
             /\ \A i \in DOMAIN usable_capacity(reader) :
                  usable_capacity(reader)[i] <= reader.nominal_capacity[i]
        [] OTHER ->
             /\ reader.summary = Some([bill |-> ids.bill, update |-> truth.update])
             /\ \A i \in DOMAIN reader.wrote :
                  BilledAs(reader.wrote[i], reader.bills[i])
=============================================================================
