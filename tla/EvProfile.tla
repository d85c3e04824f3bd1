----------------------------- MODULE EvProfile ------------------------------
(* EVCC, what a car says of itself and what a manager makes of it:          *)
(* emobility/evcc.rs with usecases/addressing.rs and ScaledNumber of        *)
(* model/values.rs. The car publishes its profile as entries under numbers; *)
(* descriptions, in functions of their own, say what the numbers stand for. *)
(* EvReader keeps values it cannot place yet and places them when either    *)
(* side moves. An Option is a sequence of at most one element.              *)
EXTENDS Integers, Sequences, SequencesExt

Absent == <<>>
Some(x) == <<x>>
IsSome(o) == o # <<>>

-----------------------------------------------------------------------------
(* ScaledNumber. A quantity is counted in thousandths, so that two decimals *)
(* lose something; what does not fit an i64 is out of reach of the model.   *)
Thousandths(decimals) == 10 ^ (3 - decimals)
round_half_away(x, unit) ==
    IF x < 0 THEN -((unit \div 2 - x) \div unit) ELSE (x + unit \div 2) \div unit
Exactly(x, max_decimals) == { d \in 0 .. max_decimals : x % Thousandths(d) = 0 }
\* The fewest decimals that lose nothing, or as many as are allowed.
from_f64(x, max_decimals) ==
    LET exact == Exactly(x, max_decimals)
        decimals == IF exact = {} THEN max_decimals
                    ELSE CHOOSE d \in exact : \A e \in exact : d <= e
    IN  [number |-> round_half_away(x, Thousandths(decimals)), scale |-> -decimals]
to_f64(n) == n.number * 10 ^ (3 + n.scale)

-----------------------------------------------------------------------------
(* CommunicationStandard.                                                   *)
Standard(variant, text) == [variant |-> variant, text |-> text]
Named ==
    { Standard("Iso15118Ed1", "iso15118-2ed1"), Standard("Iso15118Ed2", "iso15118-2ed2"),
      Standard("Iec61851", "iec61851") }
Other(text) == Standard("Other", text)
as_str(standard) == standard.text
read_standard(text) ==
    IF text = "" THEN Absent
    ELSE IF \E s \in Named : s.text = text THEN Some(CHOOSE s \in Named : s.text = text)
    ELSE Some(Other("other"))
has_data_link(standard) == standard.variant \in {"Iso15118Ed1", "Iso15118Ed2"}

-----------------------------------------------------------------------------
(* EvProfile: six optional facts, set one at a time and never unset.        *)
NoProfile ==
    [communication_standard |-> Absent, asymmetric_charging |-> Absent,
     identification |-> Absent, manufacturer |-> Absent,
     charging_power |-> Absent, asleep |-> Absent]
SetField(profile, field, value) == [profile EXCEPT ![field] = Some(value)]
supports_data_exchange(profile) ==
    /\ IsSome(profile.communication_standard)
    /\ has_data_link(profile.communication_standard[1])

COMMUNICATION_STANDARD_KEY == 1
ASYMMETRIC_CHARGING_KEY == 2
POWER_PARAMETER == 1

Payload(kind, entries) == [kind |-> kind, entries |-> entries]
KeyDescription(id, name) == [id |-> id, name |-> name]
KeyValue(id, string, boolean) ==
    [id |-> id, value |-> Some([string |-> string, boolean |-> boolean])]
ParameterDescription(id, scope) == [id |-> id, scope |-> scope]
PermittedValues(id, min, max) == [id |-> id, min |-> min, max |-> max]

key_descriptions == Payload("keyDescriptions",
    <<KeyDescription(Some(COMMUNICATION_STANDARD_KEY), Some("communicationsStandard")),
      KeyDescription(Some(ASYMMETRIC_CHARGING_KEY), Some("asymmetricChargingSupported"))>>)
key_values(profile) == Payload("keyValues",
    (IF IsSome(profile.communication_standard)
     THEN <<KeyValue(Some(COMMUNICATION_STANDARD_KEY),
                     Some(as_str(profile.communication_standard[1])), Absent)>>
     ELSE <<>>)
    \o (IF IsSome(profile.asymmetric_charging)
        THEN <<KeyValue(Some(ASYMMETRIC_CHARGING_KEY), Absent, profile.asymmetric_charging)>>
        ELSE <<>>))
\* An identification is its kind and its value.
identification_data(profile) == Payload("identification",
    IF IsSome(profile.identification)
    THEN <<[type |-> Some(profile.identification[1].kind),
            value |-> Some(profile.identification[1].value)]>>
    ELSE <<>>)
\* The default has no field set.
manufacturer_data(profile, default) == Payload("manufacturer",
    IF IsSome(profile.manufacturer) THEN profile.manufacturer[1] ELSE default)
power_parameter_description == Payload("parameterDescriptions",
    <<ParameterDescription(Some(POWER_PARAMETER), Some("acPowerTotal"))>>)
power_limits(profile) == Payload("permittedValues",
    IF IsSome(profile.charging_power)
    THEN LET band == profile.charging_power[1] IN
         <<PermittedValues(Some(POWER_PARAMETER), Some(from_f64(band.min, 0)),
                           [i \in DOMAIN band.max |-> from_f64(band.max[i], 0)])>>
    ELSE <<>>)
state_data(profile) == Payload("state",
    Some(IF profile.asleep = Some(TRUE) THEN "standby" ELSE "normalOperation"))

-----------------------------------------------------------------------------
(* KeyIds and ParameterIds: what is known of each identifier, in the order  *)
(* of first mention; a later word on an identifier replaces the earlier.    *)
Put(known, entry) ==
    IF \E i \in DOMAIN known : known[i].id = entry.id
    THEN [i \in DOMAIN known |-> IF known[i].id = entry.id THEN entry ELSE known[i]]
    ELSE Append(known, entry)
LearnKey(known, entry) ==
    IF IsSome(entry.id) /\ IsSome(entry.name)
    THEN Put(known, [id |-> entry.id[1], name |-> entry.name[1]]) ELSE known
LearnParameter(known, entry) ==
    IF IsSome(entry.id) THEN Put(known, [id |-> entry.id[1], scope |-> entry.scope])
    ELSE known
name_of(keys, id) ==
    LET found == { i \in DOMAIN keys : keys[i].id = id }
    IN  IF found = {} THEN Absent ELSE Some(keys[CHOOSE i \in found : TRUE].name)
by_scope(parameters, scope) ==
    LET matching == SelectSeq(parameters, LAMBDA p : p.scope = Some(scope))
    IN  IF Len(matching) = 1 THEN Some(matching[1].id) ELSE Absent

-----------------------------------------------------------------------------
(* EvReader.                                                                *)
NewReader == [profile |-> NoProfile, keys |-> <<>>, parameters |-> <<>>,
              key_values |-> <<>>, ranges |-> <<>>]

PlaceKey(keys, profile, kept) ==
    LET name == name_of(keys, kept.id) IN
    IF name = Some("communicationsStandard")
    THEN [profile EXCEPT !.communication_standard =
            IF IsSome(kept.value.string) THEN read_standard(kept.value.string[1])
            ELSE Absent]
    ELSE IF name = Some("asymmetricChargingSupported")
    THEN [profile EXCEPT !.asymmetric_charging = kept.value.boolean]
    ELSE profile
resolve_keys(r) ==
    [r EXCEPT !.profile =
        FoldLeft(LAMBDA profile, kept : PlaceKey(r.keys, profile, kept),
                 r.profile, r.key_values)]
resolve_ranges(r) ==
    LET parameter == by_scope(r.parameters, "acPowerTotal")
        found == SelectSeq(r.ranges, LAMBDA kept : Some(kept.id) = parameter)
    IN  IF found = <<>> THEN r
        ELSE [r EXCEPT !.profile.charging_power = Some(found[1].band)]

KeepValue(kept, entry) ==
    IF IsSome(entry.id) /\ IsSome(entry.value)
    THEN Put(kept, [id |-> entry.id[1], value |-> entry.value[1]]) ELSE kept
KeepRange(kept, entry) ==
    IF IsSome(entry.id) /\ IsSome(entry.min)
    THEN Put(kept, [id |-> entry.id[1],
                    band |-> [min |-> to_f64(entry.min[1]),
                              max |-> [i \in DOMAIN entry.max |-> to_f64(entry.max[i])]]])
    ELSE kept

apply_key_values(r, p) ==
    resolve_keys([r EXCEPT !.key_values = FoldLeft(KeepValue, @, p.entries)])
apply_permitted_values(r, p) ==
    resolve_ranges([r EXCEPT !.ranges = FoldLeft(KeepRange, @, p.entries)])
\* Of several identifications the first counts, if it says both.
apply_identification(r, p) ==
    IF p.entries # <<>> /\ IsSome(p.entries[1].type) /\ IsSome(p.entries[1].value)
    THEN [r EXCEPT !.profile.identification =
            Some([kind |-> p.entries[1].type[1], value |-> p.entries[1].value[1]])]
    ELSE r
apply_manufacturer(r, p) == [r EXCEPT !.profile.manufacturer = Some(p.entries)]
apply_state(r, p) ==
    IF IsSome(p.entries)
    THEN [r EXCEPT !.profile.asleep = Some(p.entries[1] = "standby")] ELSE r
\* A description places what was kept before it came; the mutant leaves that
\* to the next value.
apply_key_descriptions_alone(r, p) ==
    [r EXCEPT !.keys = FoldLeft(LearnKey, @, p.entries)]
apply_key_descriptions(r, p) ==
    resolve_keys([r EXCEPT !.keys = FoldLeft(LearnKey, @, p.entries)])
apply_parameter_descriptions(r, p) ==
    resolve_ranges([r EXCEPT !.parameters = FoldLeft(LearnParameter, @, p.entries)])

apply(r, p) ==
    CASE p.kind = "keyValues" -> apply_key_values(r, p)
      [] p.kind = "permittedValues" -> apply_permitted_values(r, p)
      [] p.kind = "identification" -> apply_identification(r, p)
      [] p.kind = "manufacturer" -> apply_manufacturer(r, p)
      [] p.kind = "state" -> apply_state(r, p)
      [] p.kind = "keyDescriptions" -> apply_key_descriptions(r, p)
      [] p.kind = "parameterDescriptions" -> apply_parameter_descriptions(r, p)
      [] OTHER -> r
=============================================================================
