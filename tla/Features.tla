------------------------------ MODULE Features -------------------------------
(* The features the crate builds for the actors of its use cases             *)
(* (LocalFeature in spine/device.rs and the constructors beside each use     *)
(* case's tables), and the entities they make up. The tables themselves are  *)
(* in UseCases: nothing but the checks of PreScenario makes the two agree.   *)
EXTENDS UseCases, TLC

-----------------------------------------------------------------------------
(* LocalFeature: a function is declared with its operations, and a second    *)
(* declaration replaces the first. Both kinds of operations used here allow  *)
(* partial exchanges.                                                        *)
LocalFeature(type) ==
    [type |-> type, deferred |-> FALSE, unbound |-> FALSE, functions |-> <<>>]
with_deferred_writes(f) == [f EXCEPT !.deferred = TRUE]
with_unbound_writes(f) == [f EXCEPT !.unbound = TRUE]
with_functions(f, names, operations) ==
    [f EXCEPT !.functions = [n \in names |-> operations] @@ f.functions]
reading(f, names) == with_functions(f, names, "read")
writing(f, names) == with_functions(f, names, "read_write")

Readable(f) == DOMAIN f.functions
Writeable(f) == { n \in DOMAIN f.functions : f.functions[n] = "read_write" }

-----------------------------------------------------------------------------
(* Limitation of power (limitation/actor.rs).                                *)
device_diagnosis_feature == reading(LocalFeature("DeviceDiagnosis"), {"Heartbeat"})
limitation_features ==
    { writing(reading(with_deferred_writes(LocalFeature("LoadControl")),
                      {"LimitDescription"}), {"Limit"}),
      writing(reading(with_deferred_writes(LocalFeature("DeviceConfiguration")),
                      {"KeyValueDescription"}), {"KeyValue"}),
      reading(LocalFeature("ElectricalConnection"), {"Characteristic"}),
      device_diagnosis_feature }

(* Charging (emobility/charging.rs).                                         *)
charging_features ==
    { writing(reading(with_deferred_writes(LocalFeature("LoadControl")),
                      {"LimitDescription"}), {"Limit"}),
      reading(LocalFeature("ElectricalConnection"),
              {"ParameterDescription", "PermittedValueSet"}) }
guard_diagnosis_feature ==
    reading(LocalFeature("DeviceDiagnosis"), {"Heartbeat", "State"})

(* Control of battery (cob.rs).                                              *)
cob_features ==
    { writing(reading(with_deferred_writes(LocalFeature("Setpoint")),
                      {"Description", "Constraints"}), {"Setpoint"}),
      writing(reading(with_deferred_writes(LocalFeature("DeviceConfiguration")),
                      {"KeyValueDescription"}), {"KeyValue"}) }
cob_device_diagnosis_feature ==
    reading(LocalFeature("DeviceDiagnosis"), {"Heartbeat"})

(* Heat pump, wallbox and car (ohpcf.rs, emobility/).                        *)
flexibility_feature ==
    with_deferred_writes(
        writing(LocalFeature("SmartEnergyManagementPs"), {"SmartEnergyManagementPs"}))
bill_feature ==
    writing(reading(LocalFeature("Bill"), {"Description", "Constraints"}), {"Bill"})
evcc_features ==
    { reading(LocalFeature("DeviceConfiguration"), {"KeyValueDescription", "KeyValue"}),
      reading(LocalFeature("Identification"), {"Identification"}),
      reading(LocalFeature("DeviceClassification"), {"Manufacturer"}),
      reading(LocalFeature("ElectricalConnection"),
              {"ParameterDescription", "PermittedValueSet"}),
      reading(LocalFeature("DeviceDiagnosis"), {"State"}) }
evsecc_features ==
    { reading(LocalFeature("DeviceClassification"), {"Manufacturer"}),
      reading(LocalFeature("DeviceDiagnosis"), {"State"}) }
characteristic_feature ==
    reading(LocalFeature("ElectricalConnection"),
            {"Description", "ParameterDescription", "Characteristic"})

(* Monitoring (monitoring/unit.rs, mgcp.rs).                                 *)
unit_measurement_feature ==
    reading(LocalFeature("Measurement"), {"Description", "Constraints", "Measurement"})
unit_features ==
    { reading(LocalFeature("ElectricalConnection"),
              {"Description", "ParameterDescription"}),
      unit_measurement_feature }
curtailment_feature ==
    reading(LocalFeature("DeviceConfiguration"), {"KeyValueDescription", "KeyValue"})

(* Hot water and rooms (hvac/). An entity holds one HVAC feature, so the     *)
(* system functions and the setpoint relations share it.                     *)
measurement_feature ==
    reading(LocalFeature("Measurement"), {"Description", "Constraints", "Measurement"})
setpoint_feature ==
    writing(reading(with_unbound_writes(with_deferred_writes(LocalFeature("Setpoint"))),
                    {"Description", "Constraints"}), {"Setpoint"})
relation_feature ==
    reading(LocalFeature("HVAC"), {"SystemFunctionSetpointRelation"})
hvac_feature(overrun) ==
    reading(LocalFeature("HVAC"),
        {"SystemFunctionDescription", "OperationModeDescription",
         "SystemFunctionOperationModeRelation", "SystemFunction"}
        \cup (IF overrun THEN {"OverrunDescription", "Overrun"} ELSE {}))
writeable(overrun) ==
    writing(with_unbound_writes(with_deferred_writes(hvac_feature(overrun))),
            {"SystemFunction"} \cup (IF overrun THEN {"Overrun"} ELSE {}))
with_setpoint_relations(f) == reading(f, {"SystemFunctionSetpointRelation"})

\* A system function alone, and on an entity that serves setpoints as well.
HvacFeatures(f) == [hvac_feature |-> f, with_setpoints |-> with_setpoint_relations(f)]
cdsf_features == HvacFeatures(writeable(TRUE))
mdsf_features == HvacFeatures(hvac_feature(TRUE))
crhsf_features == HvacFeatures(writeable(FALSE))
crcsf_features == HvacFeatures(writeable(FALSE))
mrhsf_features == HvacFeatures(hvac_feature(FALSE))
mrcsf_features == HvacFeatures(hvac_feature(FALSE))
mdt_measurement_feature == measurement_feature
mrt_measurement_feature == measurement_feature
mot_measurement_feature == measurement_feature
cdt_features == {setpoint_feature, relation_feature}
crht_features == {setpoint_feature, relation_feature}
crct_features == {setpoint_feature, relation_feature}

-----------------------------------------------------------------------------
(* What an integrator puts on an entity: the actors it plays and their       *)
(* features. Actors that share an entity share its features.                 *)
Entity(plays, features) == [plays |-> plays, features |-> features]

\* Features the crate has no constructor for, declared as the tables list them.
declared_features(d, types) ==
    { reading(LocalFeature(t), { f[2] : f \in { g \in server_functions(d) : g[1] = t } }) :
      t \in types }

Entities ==
    { Entity(p, limitation_features) :
        p \in (SUBSET {lpc.CONTROLLABLE_SYSTEM, lpp.CONTROLLABLE_SYSTEM}) \ {{}} }
    \cup { Entity(p, charging_features) : p \in (SUBSET {opev.EV, oscev.EV}) \ {{}} }
    \cup { Entity({d}, unit_features) : d \in {mpc.MONITORED_UNIT, mps.PV_STRING, evcem.EV} }
    \cup { Entity({d}, {unit_measurement_feature} \cup declared_features(d,
                  {"ElectricalConnection", "DeviceClassification", "DeviceDiagnosis"})) :
           d \in {mob.BATTERY, moi.INVERTER} }
    \cup { Entity({mgcp.GRID_CONNECTION_POINT}, unit_features \cup {curtailment_feature}),
           Entity({evsoc.EV}, {characteristic_feature, unit_measurement_feature}),
           Entity({cob.INVERTER}, cob_features),
           Entity({ohpcf.COMPRESSOR}, {flexibility_feature}),
           Entity({evcs.EVSE}, {bill_feature}),
           Entity({evcc.EV}, evcc_features),
           Entity({evsecc.EVSE}, evsecc_features),
           Entity({mdt.DHW_CIRCUIT}, {mdt_measurement_feature}),
           Entity({mrt.HVAC_ROOM}, {mrt_measurement_feature}),
           Entity({mot.OUTDOOR_TEMPERATURE_SENSOR}, {mot_measurement_feature}),
           Entity({cdsf.DHW_CIRCUIT}, {cdsf_features.hvac_feature}),
           Entity({mdsf.DHW_CIRCUIT}, {mdsf_features.hvac_feature}),
           Entity({cdt.DHW_CIRCUIT}, cdt_features),
           Entity({cdsf.DHW_CIRCUIT, cdt.DHW_CIRCUIT}, {cdsf_features.with_setpoints, setpoint_feature}),
           Entity({mdsf.DHW_CIRCUIT, cdt.DHW_CIRCUIT}, {mdsf_features.with_setpoints, setpoint_feature}),
           Entity({crhsf.HVAC_ROOM}, {crhsf_features.hvac_feature}),
           Entity({crcsf.HVAC_ROOM}, {crcsf_features.hvac_feature}),
           Entity({mrhsf.HVAC_ROOM}, {mrhsf_features.hvac_feature}),
           Entity({mrcsf.HVAC_ROOM}, {mrcsf_features.hvac_feature}),
           Entity({crht.HVAC_ROOM}, crht_features),
           Entity({crct.HVAC_ROOM}, crct_features),
           Entity({crhsf.HVAC_ROOM, crht.HVAC_ROOM}, {crhsf_features.with_setpoints, setpoint_feature}),
           Entity({crcsf.HVAC_ROOM, crct.HVAC_ROOM}, {crcsf_features.with_setpoints, setpoint_feature}),
           Entity({mrhsf.HVAC_ROOM, crht.HVAC_ROOM}, {mrhsf_features.with_setpoints, setpoint_feature}),
           Entity({mrcsf.HVAC_ROOM, crct.HVAC_ROOM}, {mrcsf_features.with_setpoints, setpoint_feature}) }

\* What the other ends serve, all of it heartbeats and states.
ClientFeatures(c) ==
    IF c.name \in {"LPC", "LPP"} THEN {device_diagnosis_feature}
    ELSE IF c.name \in {"OPEV", "OSCEV"} THEN {guard_diagnosis_feature}
    ELSE IF c.name = "COB" THEN {cob_device_diagnosis_feature}
    ELSE {}
=============================================================================
