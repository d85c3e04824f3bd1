------------------------------ MODULE UseCases ------------------------------
(* The use-case descriptors (usecases/descriptor.rs and the tables of every *)
(* use case): what each actor of each use case serves, reads, writes and    *)
(* sends periodically, scenario by scenario. Both ends of a use case have   *)
(* tables of their own; that they fit together is checked in PreScenario. A *)
(* use case is a record of the descriptors its file declares, named as the  *)
(* Rust paths are (cdt.DHW_CIRCUIT for cdt::DHW_CIRCUIT).                   *)
(* Functions are named without their feature's prefix and "(List)Data".     *)
EXTENDS Integers, Sequences, FiniteSets

OnChange == 0              \* Delivery: a period in seconds, or on change
HEARTBEAT_PERIOD == 60
CHARGING_HEARTBEAT == 4

FunctionUse(role, feature, functions, writeable, needs_binding) ==
    { [role |-> role, feature |-> feature, function |-> f,
       writeable |-> writeable, needs_binding |-> needs_binding,
       delivery |-> OnChange] : f \in functions }
Server(feature, functions) ==
    FunctionUse("Server", feature, functions, FALSE, FALSE)
ServerWriteable(feature, functions) ==
    FunctionUse("Server", feature, functions, TRUE, TRUE)
ServerWriteableUnbound(feature, functions) ==
    FunctionUse("Server", feature, functions, TRUE, FALSE)
Client(feature, functions) ==
    FunctionUse("Client", feature, functions, FALSE, FALSE)
ClientWrites(feature, functions) ==
    FunctionUse("Client", feature, functions, TRUE, TRUE)
ClientWritesUnbound(feature, functions) ==
    FunctionUse("Client", feature, functions, TRUE, FALSE)
Periodic(uses, every) == { [u EXCEPT !.delivery = every] : u \in uses }

Scenario(support, uses) == [support |-> support, functions |-> uses]
Mandatory(uses) == Scenario("Mandatory", uses)
Recommended(uses) == Scenario("Recommended", uses)
Optional(uses) == Scenario("Optional", uses)

Descriptor(name, actor, counterpart, role, entities, scenarios) ==
    [name |-> name, actor |-> actor, counterpart |-> counterpart,
     role |-> role, entity_types |-> entities, scenarios |-> scenarios]

-----------------------------------------------------------------------------
(* What is asked of a descriptor.                                           *)
permits_entity(d, entity) == d.entity_types = {} \/ entity \in d.entity_types
Uses(d) == UNION { d.scenarios[n].functions : n \in DOMAIN d.scenarios }
features_needing_binding(d) ==
    { u.feature : u \in { v \in Uses(d) : v.role = "Client" /\ v.needs_binding } }
server_functions(d) ==
    { <<u.feature, u.function>> : u \in { v \in Uses(d) : v.role = "Server" } }
delivery_of(d, feature, function) ==
    (CHOOSE u \in Uses(d) :
        u.feature = feature /\ u.function = function).delivery

-----------------------------------------------------------------------------
(* Shared by the monitoring use cases.                                      *)
monitoring ==
    [SERVER_MEASUREMENTS |->
        Server("ElectricalConnection",
            {"Description", "ParameterDescription"})
        \cup Server("Measurement", {"Description", "Constraints", "Measurement"}),
     CLIENT_MEASUREMENTS |->
        Client("ElectricalConnection",
            {"Description", "ParameterDescription"})
        \cup Client("Measurement", {"Description", "Constraints", "Measurement"}),
     SERVER_CHARACTERISTICS |->
        Server("ElectricalConnection",
            {"Description", "ParameterDescription", "Characteristic"}),
     CLIENT_CHARACTERISTICS |->
        Client("ElectricalConnection",
            {"Description", "ParameterDescription", "Characteristic"}),
     SERVER_IDENTIFICATION |->
        Server("DeviceClassification", {"Manufacturer"}),
     CLIENT_IDENTIFICATION |->
        Client("DeviceClassification", {"Manufacturer"}),
     SERVER_STATE |->
        Server("DeviceDiagnosis", {"State"}),
     CLIENT_STATE |->
        Client("DeviceDiagnosis", {"State"}),
     SERVER_CONFIGURATION_WRITEABLE |->
        Server("DeviceConfiguration", {"KeyValueDescription"})
        \cup ServerWriteable("DeviceConfiguration", {"KeyValue"}),
     CLIENT_CONFIGURATION_WRITES |->
        Client("DeviceConfiguration", {"KeyValueDescription"})
        \cup ClientWrites("DeviceConfiguration", {"KeyValue"})]

-----------------------------------------------------------------------------
(* Shared by overload protection and self-consumption (charging.rs).        *)
charging ==
    [EV_FUNCTIONS |->
        Server("LoadControl", {"LimitDescription"})
        \cup ServerWriteable("LoadControl", {"Limit"})
        \cup Server("ElectricalConnection",
            {"ParameterDescription", "PermittedValueSet"}),
     EV_WATCHES |->
        Periodic(Client("DeviceDiagnosis", {"Heartbeat"}), CHARGING_HEARTBEAT)
        \cup Client("DeviceDiagnosis", {"State"}),
     GUARD_WRITES |->
        Client("LoadControl", {"LimitDescription"})
        \cup ClientWrites("LoadControl", {"Limit"})
        \cup Client("ElectricalConnection",
            {"ParameterDescription", "PermittedValueSet"}),
     GUARD_SERVES |->
        Periodic(Server("DeviceDiagnosis", {"Heartbeat"}), CHARGING_HEARTBEAT)
        \cup Server("DeviceDiagnosis", {"State"})]

-----------------------------------------------------------------------------
(* Limitation of power consumption and production.                          *)
lpc ==
    [ENERGY_GUARD |->
        Descriptor("LPC", "EnergyGuard", "ControllableSystem", "Client",
          {"CEM", "GridGuard"},
          << Mandatory(Client("LoadControl", {"LimitDescription"}) \cup
               ClientWrites("LoadControl", {"Limit"})),
             Mandatory(Client("DeviceConfiguration", {"KeyValueDescription"}) \cup
               ClientWrites("DeviceConfiguration", {"KeyValue"})),
             Mandatory(Periodic(Server("DeviceDiagnosis", {"Heartbeat"}) \cup
                        Client("DeviceDiagnosis", {"Heartbeat"}), HEARTBEAT_PERIOD)),
             Mandatory(Client("ElectricalConnection", {"Characteristic"})) >>),
     CONTROLLABLE_SYSTEM |->
        Descriptor("LPC", "ControllableSystem", "EnergyGuard", "Server",
          {"CEM", "Compressor", "EVSE", "HeatPumpAppliance", "Inverter",
           "SmartEnergyAppliance", "SubMeterElectricity", "BatterySystem"},
          << Mandatory(Server("LoadControl", {"LimitDescription"}) \cup
               ServerWriteable("LoadControl", {"Limit"})),
             Mandatory(Server("DeviceConfiguration", {"KeyValueDescription"}) \cup
               ServerWriteable("DeviceConfiguration", {"KeyValue"})),
             Mandatory(Periodic(Server("DeviceDiagnosis", {"Heartbeat"}) \cup
                        Client("DeviceDiagnosis", {"Heartbeat"}), HEARTBEAT_PERIOD)),
             Recommended(Server("ElectricalConnection", {"Characteristic"})) >>)]
lpp ==
    [ENERGY_GUARD |->
        Descriptor("LPP", "EnergyGuard", "ControllableSystem", "Client",
          {"CEM", "GridGuard"},
          << Mandatory(Client("LoadControl", {"LimitDescription"}) \cup
               ClientWrites("LoadControl", {"Limit"})),
             Mandatory(Client("DeviceConfiguration", {"KeyValueDescription"}) \cup
               ClientWrites("DeviceConfiguration", {"KeyValue"})),
             Mandatory(Periodic(Server("DeviceDiagnosis", {"Heartbeat"}) \cup
                        Client("DeviceDiagnosis", {"Heartbeat"}), HEARTBEAT_PERIOD)),
             Mandatory(Client("ElectricalConnection", {"Characteristic"})) >>),
     CONTROLLABLE_SYSTEM |->
        Descriptor("LPP", "ControllableSystem", "EnergyGuard", "Server",
          {"CEM", "EVSE", "Inverter", "SmartEnergyAppliance",
           "SubMeterElectricity", "BatterySystem", "PVSystem"},
          << Mandatory(Server("LoadControl", {"LimitDescription"}) \cup
               ServerWriteable("LoadControl", {"Limit"})),
             Mandatory(Server("DeviceConfiguration", {"KeyValueDescription"}) \cup
               ServerWriteable("DeviceConfiguration", {"KeyValue"})),
             Mandatory(Periodic(Server("DeviceDiagnosis", {"Heartbeat"}) \cup
                        Client("DeviceDiagnosis", {"Heartbeat"}), HEARTBEAT_PERIOD)),
             Recommended(Server("ElectricalConnection", {"Characteristic"})) >>)]

-----------------------------------------------------------------------------
(* Monitoring of power, grid connection point, battery, inverter, PV string. *)
mpc ==
    LET SERVER_FUNCTIONS ==
            Server("ElectricalConnection",
                {"Description", "ParameterDescription"})
            \cup Server("Measurement", {"Description", "Constraints", "Measurement"})
        CLIENT_FUNCTIONS ==
            Client("ElectricalConnection",
                {"Description", "ParameterDescription"})
            \cup Client("Measurement", {"Description", "Constraints", "Measurement"})
    IN  [MONITORING_APPLIANCE |->
            Descriptor("MPC", "MonitoringAppliance", "MonitoredUnit", "Client", {},
              << Mandatory(CLIENT_FUNCTIONS), Optional(CLIENT_FUNCTIONS),
                 Recommended(CLIENT_FUNCTIONS),
                 Optional(CLIENT_FUNCTIONS), Optional(CLIENT_FUNCTIONS) >>),
         MONITORED_UNIT |->
            Descriptor("MPC", "MonitoredUnit", "MonitoringAppliance", "Server",
              {"Compressor", "ElectricalImmersionHeater", "EVSE",
               "HeatPumpAppliance", "Inverter", "SmartEnergyAppliance",
               "SubMeterElectricity"},
              << Mandatory(SERVER_FUNCTIONS), Optional(SERVER_FUNCTIONS),
                 Recommended(SERVER_FUNCTIONS),
                 Optional(SERVER_FUNCTIONS), Optional(SERVER_FUNCTIONS) >>)]
mgcp ==
    LET SERVER_MEASUREMENTS ==
            Server("ElectricalConnection",
                {"Description", "ParameterDescription"})
            \cup Server("Measurement", {"Description", "Constraints", "Measurement"})
        CLIENT_MEASUREMENTS ==
            Client("ElectricalConnection",
                {"Description", "ParameterDescription"})
            \cup Client("Measurement", {"Description", "Constraints", "Measurement"})
        SERVER_CURTAILMENT ==
            Server("DeviceConfiguration", {"KeyValueDescription", "KeyValue"})
        CLIENT_CURTAILMENT ==
            Client("DeviceConfiguration", {"KeyValueDescription", "KeyValue"})
    IN  [MONITORING_APPLIANCE |->
            Descriptor("MGCP", "MonitoringAppliance", "GridConnectionPoint", "Client",
              {},
              << Optional(CLIENT_CURTAILMENT),
                 Recommended(CLIENT_MEASUREMENTS),
                 Optional(CLIENT_MEASUREMENTS),
                 Optional(CLIENT_MEASUREMENTS),
                 Optional(CLIENT_MEASUREMENTS),
                 Optional(CLIENT_MEASUREMENTS),
                 Optional(CLIENT_MEASUREMENTS) >>),
         GRID_CONNECTION_POINT |->
            Descriptor("MGCP", "GridConnectionPoint", "MonitoringAppliance", "Server",
              {"CEM", "GridConnectionPointOfPremises"},
              << Optional(SERVER_CURTAILMENT),
                 Mandatory(SERVER_MEASUREMENTS),
                 Mandatory(SERVER_MEASUREMENTS),
                 Mandatory(SERVER_MEASUREMENTS),
                 Recommended(SERVER_MEASUREMENTS),
                 Optional(SERVER_MEASUREMENTS),
                 Optional(SERVER_MEASUREMENTS) >>)]
mob ==
    [BATTERY |->
        Descriptor("MOB", "Battery", "MonitoringAppliance", "Server", {"Battery"},
          << Mandatory(monitoring.SERVER_IDENTIFICATION),
             Mandatory(monitoring.SERVER_STATE),
             Recommended(monitoring.SERVER_MEASUREMENTS),
             Mandatory(monitoring.SERVER_MEASUREMENTS),
             Mandatory(monitoring.SERVER_MEASUREMENTS),
             Mandatory(monitoring.SERVER_MEASUREMENTS),
             Recommended(monitoring.SERVER_MEASUREMENTS),
             Recommended(monitoring.SERVER_CHARACTERISTICS),
             Optional(monitoring.SERVER_MEASUREMENTS) >>),
     MONITORING_APPLIANCE |->
        Descriptor("MOB", "MonitoringAppliance", "Battery", "Client", {},
          << Recommended(monitoring.CLIENT_IDENTIFICATION),
             Mandatory(monitoring.CLIENT_STATE),
             Mandatory(monitoring.CLIENT_MEASUREMENTS),
             Mandatory(monitoring.CLIENT_MEASUREMENTS),
             Mandatory(monitoring.CLIENT_MEASUREMENTS),
             Recommended(monitoring.CLIENT_MEASUREMENTS),
             Recommended(monitoring.CLIENT_MEASUREMENTS),
             Mandatory(monitoring.CLIENT_CHARACTERISTICS),
             Optional(monitoring.CLIENT_MEASUREMENTS) >>)]
moi ==
    [INVERTER |->
        Descriptor("MOI", "Inverter", "MonitoringAppliance", "Server",
          {"Inverter"},
          << Mandatory(monitoring.SERVER_IDENTIFICATION),
             Mandatory(monitoring.SERVER_STATE),
             Recommended(monitoring.SERVER_MEASUREMENTS),
             Mandatory(monitoring.SERVER_MEASUREMENTS),
             Recommended(monitoring.SERVER_MEASUREMENTS),
             Recommended(monitoring.SERVER_CHARACTERISTICS),
             Optional(monitoring.SERVER_MEASUREMENTS) >>),
     MONITORING_APPLIANCE |->
        Descriptor("MOI", "MonitoringAppliance", "Inverter", "Client", {},
          << Mandatory(monitoring.CLIENT_IDENTIFICATION),
             Mandatory(monitoring.CLIENT_STATE),
             Mandatory(monitoring.CLIENT_MEASUREMENTS),
             Mandatory(monitoring.CLIENT_MEASUREMENTS),
             Mandatory(monitoring.CLIENT_MEASUREMENTS),
             Mandatory(monitoring.CLIENT_CHARACTERISTICS),
             Optional(monitoring.CLIENT_MEASUREMENTS) >>)]
mps ==
    [PV_STRING |->
        Descriptor("MPS", "PVString", "MonitoringAppliance", "Server",
          {"PVString"},
          << Recommended(monitoring.SERVER_MEASUREMENTS),
             Mandatory(monitoring.SERVER_MEASUREMENTS),
             Mandatory(monitoring.SERVER_MEASUREMENTS),
             Recommended(monitoring.SERVER_MEASUREMENTS),
             Optional(monitoring.SERVER_MEASUREMENTS),
             Optional(monitoring.SERVER_MEASUREMENTS) >>),
     MONITORING_APPLIANCE |->
        Descriptor("MPS", "MonitoringAppliance", "PVString", "Client", {},
          << Mandatory(monitoring.CLIENT_MEASUREMENTS),
             Mandatory(monitoring.CLIENT_MEASUREMENTS),
             Mandatory(monitoring.CLIENT_MEASUREMENTS),
             Recommended(monitoring.CLIENT_MEASUREMENTS),
             Optional(monitoring.CLIENT_MEASUREMENTS),
             Optional(monitoring.CLIENT_MEASUREMENTS) >>)]

-----------------------------------------------------------------------------
(* Control of battery.                                                      *)
cob ==
    LET SERVER_SETPOINTS ==
            Server("Setpoint", {"Description", "Constraints"})
            \cup ServerWriteable("Setpoint", {"Setpoint"})
        CLIENT_SETPOINTS ==
            Client("Setpoint", {"Description", "Constraints"})
            \cup ClientWrites("Setpoint", {"Setpoint"})
        SERVER_HEARTBEAT ==
            Periodic(Client("DeviceDiagnosis", {"Heartbeat"}), HEARTBEAT_PERIOD)
        CLIENT_HEARTBEAT ==
            Periodic(Server("DeviceDiagnosis", {"Heartbeat"}), HEARTBEAT_PERIOD)
    IN  [INVERTER |->
            Descriptor("COB", "Inverter", "CEM", "Server", {"Inverter"},
              << Mandatory(SERVER_SETPOINTS), Mandatory(SERVER_SETPOINTS),
                 Mandatory(monitoring.SERVER_CONFIGURATION_WRITEABLE),
                 Mandatory(monitoring.SERVER_CONFIGURATION_WRITEABLE),
                 Mandatory(SERVER_HEARTBEAT) >>),
         CEM |->
            Descriptor("COB", "CEM", "Inverter", "Client", {"CEM"},
              << Mandatory(CLIENT_SETPOINTS), Mandatory(CLIENT_SETPOINTS),
                 Mandatory(monitoring.CLIENT_CONFIGURATION_WRITES),
                 Mandatory(monitoring.CLIENT_CONFIGURATION_WRITES),
                 Mandatory(CLIENT_HEARTBEAT) >>)]

-----------------------------------------------------------------------------
(* Self-consumption by the heat pump compressor.                            *)
ohpcf ==
    LET SERVER_FUNCTIONS ==
            ServerWriteable("SmartEnergyManagementPs",
                {"SmartEnergyManagementPs"})
        CLIENT_FUNCTIONS ==
            ClientWrites("SmartEnergyManagementPs", {"SmartEnergyManagementPs"})
    IN  [COMPRESSOR |->
            Descriptor("OHPCF", "Compressor", "CEM", "Server", {"Compressor"},
              << Mandatory(SERVER_FUNCTIONS),
                 Mandatory(SERVER_FUNCTIONS) >>),
         CEM |->
            Descriptor("OHPCF", "CEM", "Compressor", "Client", {"CEM"},
              << Mandatory(CLIENT_FUNCTIONS),
                 Mandatory(CLIENT_FUNCTIONS) >>)]

-----------------------------------------------------------------------------
(* E-mobility.                                                              *)
evccTables ==
    [EV_CONFIGURATION |->
        Server("DeviceConfiguration", {"KeyValueDescription", "KeyValue"}),
     EV_IDENTIFICATION |->
        Server("Identification", {"Identification"}),
     EV_MANUFACTURER |->
        Server("DeviceClassification", {"Manufacturer"}),
     EV_POWER |->
        Server("ElectricalConnection",
            {"ParameterDescription", "PermittedValueSet"}),
     EV_STATE |->
        Server("DeviceDiagnosis", {"State"}),
     CEM_CONFIGURATION |->
        Client("DeviceConfiguration", {"KeyValueDescription", "KeyValue"}),
     CEM_IDENTIFICATION |->
        Client("Identification", {"Identification"}),
     CEM_MANUFACTURER |->
        Client("DeviceClassification", {"Manufacturer"}),
     CEM_POWER |->
        Client("ElectricalConnection",
            {"ParameterDescription", "PermittedValueSet"}),
     CEM_STATE |->
        Client("DeviceDiagnosis", {"State"})]
evcc ==
    [EV |->
        Descriptor("EVCC", "EV", "CEM", "Server", {"EV"},
          << Mandatory({}), Mandatory(evccTables.EV_CONFIGURATION),
             Mandatory(evccTables.EV_CONFIGURATION),
             Recommended(evccTables.EV_IDENTIFICATION),
             Recommended(evccTables.EV_MANUFACTURER),
             Recommended(evccTables.EV_POWER),
             Recommended(evccTables.EV_STATE),
             Mandatory({}) >>),
     CEM |->
        Descriptor("EVCC", "CEM", "EV", "Client", {"CEM"},
          << Mandatory({}), Mandatory(evccTables.CEM_CONFIGURATION),
             Mandatory(evccTables.CEM_CONFIGURATION),
             Recommended(evccTables.CEM_IDENTIFICATION),
             Recommended(evccTables.CEM_MANUFACTURER),
             Mandatory(evccTables.CEM_POWER),
             Mandatory(evccTables.CEM_STATE), Mandatory({}) >>)]
evsecc ==
    LET SERVER_FUNCTIONS ==
            Server("DeviceClassification", {"Manufacturer"})
            \cup Server("DeviceDiagnosis", {"State"})
        CLIENT_FUNCTIONS ==
            Client("DeviceClassification", {"Manufacturer"})
            \cup Client("DeviceDiagnosis", {"State"})
    IN  [EVSE |->
            Descriptor("EVSECC", "EVSE", "CEM", "Server", {"EVSE"},
              << Recommended(SERVER_FUNCTIONS),
                 Mandatory(SERVER_FUNCTIONS) >>),
         CEM |->
            Descriptor("EVSECC", "CEM", "EVSE", "Client", {"CEM"},
              << Recommended(CLIENT_FUNCTIONS),
                 Mandatory(CLIENT_FUNCTIONS) >>)]
evcem ==
    LET EV_FUNCTIONS ==
            Server("ElectricalConnection",
                {"Description", "ParameterDescription"})
            \cup Server("Measurement", {"Description", "Constraints", "Measurement"})
        GUARD_FUNCTIONS ==
            Client("ElectricalConnection",
                {"Description", "ParameterDescription"})
            \cup Client("Measurement", {"Description", "Constraints", "Measurement"})
    IN  [EV |->
            Descriptor("EVCEM", "EV", "EnergyGuard", "Server", {"EV"},
              << Recommended(EV_FUNCTIONS), Optional(EV_FUNCTIONS),
                 Optional(EV_FUNCTIONS) >>),
         ENERGY_GUARD |->
            Descriptor("EVCEM", "EnergyGuard", "EV", "Client", {"CEM"},
              << Mandatory(GUARD_FUNCTIONS),
                 Mandatory(GUARD_FUNCTIONS), Mandatory(GUARD_FUNCTIONS) >>)]
evsoc ==
    LET EV_MEASUREMENTS ==
            Server("ElectricalConnection",
                {"Description", "ParameterDescription"})
            \cup Server("Measurement", {"Description", "Measurement"})
        EV_CAPACITY ==
            Server("ElectricalConnection",
                {"Description", "ParameterDescription", "Characteristic"})
        APPLIANCE_MEASUREMENTS ==
            Client("ElectricalConnection",
                {"Description", "ParameterDescription"})
            \cup Client("Measurement", {"Description", "Measurement"})
        APPLIANCE_CAPACITY ==
            Client("ElectricalConnection",
                {"Description", "ParameterDescription", "Characteristic"})
    IN  [EV |->
            Descriptor("EVSOC", "EV", "MonitoringAppliance", "Server", {"EV"},
              << Mandatory(EV_MEASUREMENTS), Optional(EV_CAPACITY),
                 Optional(EV_MEASUREMENTS), Optional(EV_MEASUREMENTS) >>),
         MONITORING_APPLIANCE |->
            Descriptor("EVSOC", "MonitoringAppliance", "EV", "Client", {"CEM"},
              << Mandatory(APPLIANCE_MEASUREMENTS),
                 Optional(APPLIANCE_CAPACITY),
                 Optional(APPLIANCE_MEASUREMENTS),
                 Optional(APPLIANCE_MEASUREMENTS) >>)]
evcs ==
    LET SERVER_FUNCTIONS ==
            Server("Bill", {"Description", "Constraints"})
            \cup ServerWriteable("Bill", {"Bill"})
        CLIENT_FUNCTIONS ==
            Client("Bill", {"Description", "Constraints"})
            \cup ClientWrites("Bill", {"Bill"})
    IN  [EVSE |->
            Descriptor("EVCS", "EVSE", "EnergyBroker", "Server", {"EVSE"},
              << Mandatory(SERVER_FUNCTIONS) >>),
         ENERGY_BROKER |->
            Descriptor("EVCS", "EnergyBroker", "EVSE", "Client", {"CEM"},
              << Mandatory(CLIENT_FUNCTIONS) >>),
         CEM |->
            Descriptor("EVCS", "CEM", "EVSE", "Client", {"CEM"},
              << Mandatory(CLIENT_FUNCTIONS) >>)]
opev ==
    [EV |->
        Descriptor("OPEV", "EV", "CEM", "Server", {"EV"},
          << Mandatory(charging.EV_FUNCTIONS), Mandatory(charging.EV_WATCHES),
             Mandatory(charging.EV_WATCHES) >>),
     ENERGY_GUARD |->
        Descriptor("OPEV", "CEM", "EV", "Client", {"CEM"},
          << Mandatory(charging.GUARD_WRITES), Mandatory(charging.GUARD_SERVES),
             Mandatory(charging.GUARD_SERVES) >>)]
oscev ==
    [EV |->
        Descriptor("OSCEV", "EV", "CEM", "Server", {"EV"},
          << Mandatory(charging.EV_FUNCTIONS), Mandatory(charging.EV_WATCHES),
             Mandatory(charging.EV_WATCHES) >>),
     CEM |->
        Descriptor("OSCEV", "CEM", "EV", "Client", {"CEM"},
          << Mandatory(charging.GUARD_WRITES), Mandatory(charging.GUARD_SERVES),
             Mandatory(charging.GUARD_SERVES) >>)]

-----------------------------------------------------------------------------
(* HVAC: configuration and monitoring of hot water and rooms.               *)
cdsf ==
    LET SERVER_MODE ==
            Server("HVAC",
                {"SystemFunctionDescription", "OperationModeDescription",
                 "SystemFunctionOperationModeRelation"})
            \cup ServerWriteableUnbound("HVAC", {"SystemFunction"})
        SERVER_OVERRUN ==
            Server("HVAC",
                {"SystemFunctionDescription", "SystemFunction",
                 "OverrunDescription"})
            \cup ServerWriteableUnbound("HVAC", {"Overrun"})
        CLIENT_MODE ==
            Client("HVAC",
                {"SystemFunctionDescription", "OperationModeDescription",
                 "SystemFunctionOperationModeRelation"})
            \cup ClientWritesUnbound("HVAC", {"SystemFunction"})
        CLIENT_OVERRUN ==
            Client("HVAC",
                {"SystemFunctionDescription", "SystemFunction",
                 "OverrunDescription"})
            \cup ClientWritesUnbound("HVAC", {"Overrun"})
    IN  [DHW_CIRCUIT |->
            Descriptor("CDSF", "DHWCircuit", "ConfigurationAppliance", "Server",
              {"DHWCircuit"},
              << Mandatory(SERVER_MODE), Mandatory(SERVER_OVERRUN),
                 Recommended(SERVER_OVERRUN) >>),
         CONFIGURATION_APPLIANCE |->
            Descriptor("CDSF", "ConfigurationAppliance", "DHWCircuit", "Client", {},
              << Optional(CLIENT_MODE), Optional(CLIENT_OVERRUN),
                 Optional(CLIENT_OVERRUN) >>)]
cdt ==
    LET SERVER_FUNCTIONS ==
            Server("Setpoint", {"Description", "Constraints"})
            \cup ServerWriteableUnbound("Setpoint", {"Setpoint"})
            \cup Server("HVAC", {"SystemFunctionSetpointRelation"})
        CLIENT_FUNCTIONS ==
            Client("Setpoint", {"Description", "Constraints"})
            \cup ClientWritesUnbound("Setpoint", {"Setpoint"})
            \cup Client("HVAC", {"SystemFunctionSetpointRelation"})
    IN  [DHW_CIRCUIT |->
            Descriptor("CDT", "DHWCircuit", "ConfigurationAppliance", "Server",
              {"DHWCircuit"},
              << Mandatory(SERVER_FUNCTIONS) >>),
         CONFIGURATION_APPLIANCE |->
            Descriptor("CDT", "ConfigurationAppliance", "DHWCircuit", "Client", {},
              << Mandatory(CLIENT_FUNCTIONS) >>)]
crcsf ==
    LET SERVER_FUNCTIONS ==
            Server("HVAC",
                {"SystemFunctionDescription", "OperationModeDescription",
                 "SystemFunctionOperationModeRelation"})
            \cup ServerWriteableUnbound("HVAC", {"SystemFunction"})
        CLIENT_FUNCTIONS ==
            Client("HVAC",
                {"SystemFunctionDescription", "OperationModeDescription",
                 "SystemFunctionOperationModeRelation"})
            \cup ClientWritesUnbound("HVAC", {"SystemFunction"})
    IN  [HVAC_ROOM |->
            Descriptor("CRCSF", "HVACRoom", "ConfigurationAppliance", "Server",
              {"HVACRoom"},
              << Mandatory(SERVER_FUNCTIONS) >>),
         CONFIGURATION_APPLIANCE |->
            Descriptor("CRCSF", "ConfigurationAppliance", "HVACRoom", "Client", {},
              << Mandatory(CLIENT_FUNCTIONS) >>)]
crct ==
    LET SERVER_FUNCTIONS ==
            Server("Setpoint", {"Description", "Constraints"})
            \cup ServerWriteableUnbound("Setpoint", {"Setpoint"})
            \cup Server("HVAC", {"SystemFunctionSetpointRelation"})
        CLIENT_FUNCTIONS ==
            Client("Setpoint", {"Description", "Constraints"})
            \cup ClientWritesUnbound("Setpoint", {"Setpoint"})
            \cup Client("HVAC", {"SystemFunctionSetpointRelation"})
    IN  [HVAC_ROOM |->
            Descriptor("CRCT", "HVACRoom", "ConfigurationAppliance", "Server",
              {"HVACRoom"},
              << Mandatory(SERVER_FUNCTIONS) >>),
         CONFIGURATION_APPLIANCE |->
            Descriptor("CRCT", "ConfigurationAppliance", "HVACRoom", "Client", {},
              << Mandatory(CLIENT_FUNCTIONS) >>)]
crhsf ==
    LET SERVER_FUNCTIONS ==
            Server("HVAC",
                {"SystemFunctionDescription", "OperationModeDescription",
                 "SystemFunctionOperationModeRelation"})
            \cup ServerWriteableUnbound("HVAC", {"SystemFunction"})
        CLIENT_FUNCTIONS ==
            Client("HVAC",
                {"SystemFunctionDescription", "OperationModeDescription",
                 "SystemFunctionOperationModeRelation"})
            \cup ClientWritesUnbound("HVAC", {"SystemFunction"})
    IN  [HVAC_ROOM |->
            Descriptor("CRHSF", "HVACRoom", "ConfigurationAppliance", "Server",
              {"HVACRoom"},
              << Mandatory(SERVER_FUNCTIONS) >>),
         CONFIGURATION_APPLIANCE |->
            Descriptor("CRHSF", "ConfigurationAppliance", "HVACRoom", "Client", {},
              << Mandatory(CLIENT_FUNCTIONS) >>)]
crht ==
    LET SERVER_FUNCTIONS ==
            Server("Setpoint", {"Description", "Constraints"})
            \cup ServerWriteableUnbound("Setpoint", {"Setpoint"})
            \cup Server("HVAC", {"SystemFunctionSetpointRelation"})
        CLIENT_FUNCTIONS ==
            Client("Setpoint", {"Description", "Constraints"})
            \cup ClientWritesUnbound("Setpoint", {"Setpoint"})
            \cup Client("HVAC", {"SystemFunctionSetpointRelation"})
    IN  [HVAC_ROOM |->
            Descriptor("CRHT", "HVACRoom", "ConfigurationAppliance", "Server",
              {"HVACRoom"},
              << Mandatory(SERVER_FUNCTIONS) >>),
         CONFIGURATION_APPLIANCE |->
            Descriptor("CRHT", "ConfigurationAppliance", "HVACRoom", "Client", {},
              << Mandatory(CLIENT_FUNCTIONS) >>)]
mdsf ==
    LET SERVER_MODE ==
            Server("HVAC",
                {"SystemFunctionDescription", "OperationModeDescription",
                 "SystemFunctionOperationModeRelation", "SystemFunction"})
        SERVER_OVERRUN ==
            Server("HVAC",
                {"SystemFunctionDescription", "SystemFunction",
                 "OverrunDescription", "Overrun"})
        CLIENT_MODE ==
            Client("HVAC",
                {"SystemFunctionDescription", "OperationModeDescription",
                 "SystemFunctionOperationModeRelation", "SystemFunction"})
        CLIENT_OVERRUN ==
            Client("HVAC",
                {"SystemFunctionDescription", "SystemFunction",
                 "OverrunDescription", "Overrun"})
    IN  [DHW_CIRCUIT |->
            Descriptor("MDSF", "DHWCircuit", "MonitoringAppliance", "Server",
              {"DHWCircuit"},
              << Mandatory(SERVER_MODE), Recommended(SERVER_OVERRUN) >>),
         MONITORING_APPLIANCE |->
            Descriptor("MDSF", "MonitoringAppliance", "DHWCircuit", "Client", {},
              << Mandatory(CLIENT_MODE), Mandatory(CLIENT_OVERRUN) >>)]
mdt ==
    LET SERVER_FUNCTIONS ==
            Server("Measurement", {"Description", "Constraints", "Measurement"})
        CLIENT_FUNCTIONS ==
            Client("Measurement", {"Description", "Constraints", "Measurement"})
    IN  [DHW_CIRCUIT |->
            Descriptor("MDT", "DHWCircuit", "MonitoringAppliance", "Server",
              {"DHWCircuit"},
              << Mandatory(SERVER_FUNCTIONS) >>),
         MONITORING_APPLIANCE |->
            Descriptor("MDT", "MonitoringAppliance", "DHWCircuit", "Client", {},
              << Mandatory(CLIENT_FUNCTIONS) >>)]
mot ==
    LET SERVER_FUNCTIONS ==
            Server("Measurement", {"Description", "Constraints", "Measurement"})
        CLIENT_FUNCTIONS ==
            Client("Measurement", {"Description", "Constraints", "Measurement"})
    IN  [OUTDOOR_TEMPERATURE_SENSOR |->
            Descriptor("MOT", "OutdoorTemperatureSensor", "MonitoringAppliance", "Server",
              {"TemperatureSensor"},
              << Mandatory(SERVER_FUNCTIONS) >>),
         MONITORING_APPLIANCE |->
            Descriptor("MOT", "MonitoringAppliance", "OutdoorTemperatureSensor", "Client",
              {},
              << Mandatory(CLIENT_FUNCTIONS) >>)]
mrcsf ==
    LET SERVER_FUNCTIONS ==
            Server("HVAC",
                {"SystemFunctionDescription", "OperationModeDescription",
                 "SystemFunctionOperationModeRelation", "SystemFunction"})
        CLIENT_FUNCTIONS ==
            Client("HVAC",
                {"SystemFunctionDescription", "OperationModeDescription",
                 "SystemFunctionOperationModeRelation", "SystemFunction"})
    IN  [HVAC_ROOM |->
            Descriptor("MRCSF", "HVACRoom", "MonitoringAppliance", "Server",
              {"HVACRoom"},
              << Mandatory(SERVER_FUNCTIONS) >>),
         MONITORING_APPLIANCE |->
            Descriptor("MRCSF", "MonitoringAppliance", "HVACRoom", "Client", {},
              << Mandatory(CLIENT_FUNCTIONS) >>)]
mrhsf ==
    LET SERVER_FUNCTIONS ==
            Server("HVAC",
                {"SystemFunctionDescription", "OperationModeDescription",
                 "SystemFunctionOperationModeRelation", "SystemFunction"})
        CLIENT_FUNCTIONS ==
            Client("HVAC",
                {"SystemFunctionDescription", "OperationModeDescription",
                 "SystemFunctionOperationModeRelation", "SystemFunction"})
    IN  [HVAC_ROOM |->
            Descriptor("MRHSF", "HVACRoom", "MonitoringAppliance", "Server",
              {"HVACRoom"},
              << Mandatory(SERVER_FUNCTIONS) >>),
         MONITORING_APPLIANCE |->
            Descriptor("MRHSF", "MonitoringAppliance", "HVACRoom", "Client", {},
              << Mandatory(CLIENT_FUNCTIONS) >>)]
mrt ==
    LET SERVER_FUNCTIONS ==
            Server("Measurement", {"Description", "Constraints", "Measurement"})
        CLIENT_FUNCTIONS ==
            Client("Measurement", {"Description", "Constraints", "Measurement"})
    IN  [HVAC_ROOM |->
            Descriptor("MRT", "HVACRoom", "MonitoringAppliance", "Server",
              {"HVACRoom"},
              << Mandatory(SERVER_FUNCTIONS) >>),
         MONITORING_APPLIANCE |->
            Descriptor("MRT", "MonitoringAppliance", "HVACRoom", "Client", {},
              << Mandatory(CLIENT_FUNCTIONS) >>)]

-----------------------------------------------------------------------------
(* The actors that serve, and the ones that read and write.                 *)
ServerDescriptors ==
    { lpc.CONTROLLABLE_SYSTEM, lpp.CONTROLLABLE_SYSTEM, mpc.MONITORED_UNIT,
      mgcp.GRID_CONNECTION_POINT, mob.BATTERY, moi.INVERTER, mps.PV_STRING,
      cob.INVERTER, ohpcf.COMPRESSOR, evcc.EV, evsecc.EVSE, evcem.EV,
      evsoc.EV, evcs.EVSE, opev.EV, oscev.EV, cdsf.DHW_CIRCUIT,
      cdt.DHW_CIRCUIT, crcsf.HVAC_ROOM, crct.HVAC_ROOM, crhsf.HVAC_ROOM,
      crht.HVAC_ROOM, mdsf.DHW_CIRCUIT, mdt.DHW_CIRCUIT,
      mot.OUTDOOR_TEMPERATURE_SENSOR, mrcsf.HVAC_ROOM, mrhsf.HVAC_ROOM,
      mrt.HVAC_ROOM }
ClientDescriptors ==
    { lpc.ENERGY_GUARD, lpp.ENERGY_GUARD, mpc.MONITORING_APPLIANCE,
      mgcp.MONITORING_APPLIANCE, mob.MONITORING_APPLIANCE,
      moi.MONITORING_APPLIANCE, mps.MONITORING_APPLIANCE, cob.CEM,
      ohpcf.CEM, evcc.CEM, evsecc.CEM, evcem.ENERGY_GUARD,
      evsoc.MONITORING_APPLIANCE, evcs.ENERGY_BROKER, evcs.CEM,
      opev.ENERGY_GUARD, oscev.CEM, cdsf.CONFIGURATION_APPLIANCE,
      cdt.CONFIGURATION_APPLIANCE, crcsf.CONFIGURATION_APPLIANCE,
      crct.CONFIGURATION_APPLIANCE, crhsf.CONFIGURATION_APPLIANCE,
      crht.CONFIGURATION_APPLIANCE, mdsf.MONITORING_APPLIANCE,
      mdt.MONITORING_APPLIANCE, mot.MONITORING_APPLIANCE,
      mrcsf.MONITORING_APPLIANCE, mrhsf.MONITORING_APPLIANCE,
      mrt.MONITORING_APPLIANCE }
=============================================================================
