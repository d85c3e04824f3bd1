------------------------------ MODULE MC_Parts ------------------------------
(* Instances of the parts that share no state with one another. A behaviour *)
(* runs one part, chosen at the start, and leaves the others where they     *)
(* begin, so the state spaces of the parts add up instead of multiplying.   *)
EXTENDS BatteryControl, Sequences

VARIABLES
    part,                                                       \* what runs
    scene, store, peerKeys, replayGuard, saved, own, shaking,   \* TrustStore
    links, last, silence, forgotten,
    car, data, age, guard, asked, toCar, toGuard, sent,         \* EvCharging
    flexibility, feature, peer, offer, toCompressor, toManager, \* Ohpcf
    commands, compressorChanges,
    date, days, turns,                                          \* Times
    held, known, online, seen, subscribing, hears, troubles,    \* GuardBinding
    clock, system, reply, served, audit,                        \* CsActor
    deferring, stored, deferred, subscribed, toClient, copy,    \* FunctionData
    synced, torn, operations,
    tree, played, told, wire, opening, document, remote,        \* Discovery
    announced, missed, dropped, changes,
    unit, hvacSubscribed, toUnit, toAppliance, reader, points,  \* Hvac
    hvacTold, hvacSteps,
    meter, granted, answered, toMeter, toReader, readings,      \* Monitoring
    meterTold, meterMissed, relabelled, meterSteps,
    cast, device, desk, bound, queue, answer,                   \* PreScenario
    topic, ids, truth, carPast, carWire, heard, carReader,       \* EvSession
    carChanges,
    naming, slots, taken, filed, learnt,                        \* Measurands
    requester, onAir, connected, complete, overruled, restarts  \* Requester

-----------------------------------------------------------------------------
(* COB: a setpoint with and without an end, an inactive one, one that is no *)
(* number and one the feature cannot read.                                  *)
Setpoint(readable, value, active, ends) ==
    [readable |-> readable, value |-> value, active |-> active, ends |-> ends]
MCSetpoints ==
    { Setpoint(TRUE, 2, TRUE, None), Setpoint(TRUE, 2, TRUE, 2),
      Setpoint(TRUE, 2, TRUE, 0), Setpoint(TRUE, 1, FALSE, None),
      Setpoint(TRUE, NotFinite, TRUE, None), Setpoint(FALSE, 1, TRUE, None) }
MCDurations == 3 .. 4

-----------------------------------------------------------------------------
(* The trust store: a device that renews its certificate twice, and another.*)
MCRequest(forId, forPar, wellFormed, authentic, trustPar) ==
    [forId |-> forId, forPar |-> forPar, wellFormed |-> wellFormed,
     authentic |-> authentic, trustPar |-> trustPar]
MCScene(nodes, what) == [nodes |-> nodes, what |-> what]
MCScenarios ==
    { MCScene({"z"}, {"renew", "follow", "crash"}),
      MCScene({"z"}, {"renew", "follow", "forget"}),
      MCScene({"z", "y"}, {"pair"}),
      MCScene({"y"}, {"pair", "crash"}),
      MCScene({"z", "y"}, {"pin", "follow", "forget"}),
      MCScene({"z"}, {"curve", "follow"}) }
Trust == INSTANCE TrustStore WITH
    guard <- replayGuard,
    Nodes <- {"z", "y"},
    Keys <- [z |-> <<"z1", "z2", "z3">>, y |-> <<"y1">>],
    Spare <- "x1", Self <- "self", GuardCapacity <- 1, REPLACEABLE_AFTER <- 1,
    Scenarios <- MCScenarios,
    Requests <- [dz |-> MCRequest(TRUE, TRUE, TRUE, TRUE, "z1"),
                 dy |-> MCRequest(TRUE, TRUE, TRUE, TRUE, "y1"),
                 echo |-> MCRequest(TRUE, TRUE, TRUE, TRUE, "self"),
                 forged |-> MCRequest(TRUE, TRUE, TRUE, FALSE, "y1"),
                 cut |-> MCRequest(TRUE, TRUE, FALSE, TRUE, "y1"),
                 other |-> MCRequest(FALSE, TRUE, TRUE, TRUE, "y1"),
                 stale |-> MCRequest(TRUE, FALSE, TRUE, TRUE, "y1")]

-----------------------------------------------------------------------------
(* A car on two phases whose limits are numbered against the phases' order, *)
(* with a foreign limit among them, and supplies that ask for more, less    *)
(* and nothing.                                                             *)
MCAmperes(a, b) == [A |-> a, B |-> b]
Ev == INSTANCE EvCharging WITH
    PHASES <- {"A", "B"}, CarPhases <- {"A", "B"},
    LimitId <- [A |-> 1, B |-> 2], Foreign <- [x \in {9} |-> 1],
    Permitted <- <<2, 3>>,
    Requirements <- {MCAmperes(1, 3), MCAmperes(0, 0)},
    HEARTBEAT_TIMEOUT <- 1, MaxWrites <- 2, MaxBeats <- 1

(* A compressor that can be stopped, or stopped and paused.                 *)
Compressor == INSTANCE Ohpcf WITH
    SEQUENCE_ID <- 1, Interrupts <- {{"stop"}, {"stop", "pause"}},
    StartTimes <- {3600}, MaxCommands <- 3, MaxChanges <- 3,
    changes <- compressorChanges

(* Thirty years on either side of the turns of a century and of 1970.       *)
MCStart(y, c) == [date |-> [year |-> y, month |-> 1, day |-> 1], days |-> c]
MCStarts == { MCStart(1970, 0), MCStart(-30, -5 * 146097),
              MCStart(1570, -146097), MCStart(2070, 36525) }
MCTurns == 11500
MCMaxSeconds == 2000000000
Calendar == INSTANCE Times WITH
    Starts <- MCStarts, Turns <- MCTurns, MAX_SECONDS <- MCMaxSeconds

(* Two guards, a released binding and a lost connection.                    *)
CONSTANTS MaxReleases, MaxLosses
Binding == INSTANCE GuardBinding WITH Guards <- {"a", "b"}

(* The controllable system behind its features, with short timers; its      *)
(* watts are counted in halves.                                             *)
MCWrites ==
    { [watts |-> 4, is_active |-> TRUE, duration |-> -1],
      [watts |-> 1, is_active |-> TRUE, duration |-> 2],
      [watts |-> 4, is_active |-> FALSE, duration |-> -1],
      [watts |-> -1, is_active |-> TRUE, duration |-> -1] }
Actor == INSTANCE CsActor WITH
    HEARTBEAT_TIMEOUT <- 2, WRITE_WINDOW <- 1, SETTLE_TIMEOUT <- 2,
    FAILSAFE_DURATION_RANGE <- 2 .. 3, FailsafeDurationMax <- 5,
    FailsafeWatts <- 1, FailsafeDuration <- 2, OnCem <- FALSE,
    Writes <- MCWrites, FailsafeWrites <- {3}, DurationWrites <- {4},
    MaxLag <- 1, MaxTime <- 3, AuditCapacity <- 1, MAX_DROPPED <- 1

-----------------------------------------------------------------------------
(* A list of entries with an identifier and two elements; 0 is an absent    *)
(* element. The commands replace, update, delete entries, delete elements,  *)
(* combine these, and ask for what the codec refuses.                       *)
MCEntry(i, x, y) ==
    [f \in {"id", "a", "b"} |-> CASE f = "id" -> i [] f = "a" -> x [] OTHER -> y]
MCSelector(i) == [of |-> "this", id |-> i, range |-> FALSE]
MCRange == [of |-> "this", id |-> 0, range |-> TRUE]
MCOther == [of |-> "other", id |-> 1, range |-> FALSE]
MCFilter(control, sels, els) == [control |-> control, sels |-> sels, els |-> els]
MCPartial == MCFilter("partial", <<>>, {})
MCDelete(sels, els) == MCFilter("delete", sels, els)
MCCommand(d, filters) == [data |-> d, filters |-> filters]
MCCommands ==
    { MCCommand(<<MCEntry(1, 1, 1), MCEntry(2, 1, 0)>>, <<>>),
      MCCommand(<<MCEntry(1, 2, 0)>>, <<MCPartial>>),
      MCCommand(<<MCEntry(3, 1, 0)>>, <<MCPartial>>),
      MCCommand(<<MCEntry(1, 2, 0)>>, <<MCDelete(<<MCSelector(1)>>, {{"b"}}), MCPartial>>),
      MCCommand(<<MCEntry(2, 0, 0)>>, <<MCDelete(<<>>, {})>>),
      MCCommand(<<>>, <<MCDelete(<<MCSelector(1), MCSelector(2)>>, {})>>),
      MCCommand(<<>>, <<MCDelete(<<>>, {{"id", "a"}})>>),
      MCCommand(<<MCEntry(2, 2, 2)>>,
                <<MCDelete(<<MCSelector(1)>>, {}), MCDelete(<<MCRange>>, {}), MCPartial>>),
      MCCommand(<<>>, <<MCDelete(<<MCOther>>, {})>>),
      MCCommand(<<MCEntry(0, 1, 0)>>, <<>>) }
MCReads ==
    { MCFilter("partial", <<MCSelector(1)>>, {}),
      MCFilter("partial", <<MCSelector(1), MCSelector(2)>>, {{"a"}}),
      MCFilter("partial", <<MCRange>>, {}) }
Function == INSTANCE FunctionData WITH
    Commands <- MCCommands, Reads <- MCReads,
    Contents <- {<<MCEntry(1, 1, 0), MCEntry(3, 1, 0)>>},
    MAX_LIST_ENTRIES <- 3, MaxOperations <- 4

(* An entity with a child, a second one, two features and two use cases.    *)
Device == INSTANCE Discovery WITH
    Paths <- {<<1>>, <<1, 1>>, <<2>>}, Features <- {1, 2},
    UseCases <- {<< <<1>>, 1, "lpc">>, << <<>>, 2, "mpc">>},
    MAX_ENTRIES <- 6, MaxChanges <- 2

(* Hot water with an overrun and a heating circuit; the heating's second    *)
(* mode reads no setpoint.                                                  *)
MCRelations ==
    [k \in {"dhw", "heating"} \X (1..3) |->
       IF k[2] = 3 THEN {} ELSE IF k[1] = "heating" THEN {1} ELSE {2}]
Hvac == INSTANCE Hvac WITH
    Functions <- {"dhw", "heating"}, Modes <- 1..3,
    Related <- [dhw |-> {1, 2}, heating |-> {1, 3}], OverrunOf <- {"dhw"},
    Relations <- MCRelations, Setpoints <- {1, 2}, Foreign <- {9},
    Permissible <- <<1, 2>>, Degrees <- {2, 3}, MaxSteps <- 2,
    subscribed <- hvacSubscribed, told <- hvacTold, steps <- hvacSteps

(* A value per phase and a total, one of them out of range at times.        *)
Meter == INSTANCE Monitoring WITH
    Slots <- {1, 2}, PerPhase <- {1}, Phases <- {"a", "b"}, Total <- "abc",
    Values <- {1, 2}, InRange <- {1}, Factors <- {1, 3}, Percent <- <<0, 2>>,
    MaxSteps <- 2,
    told <- meterTold, missed <- meterMissed, steps <- meterSteps

(* Two managers, and room for one undecided write.                          *)
Offers == INSTANCE PreScenario WITH
    Managers <- {"m1", "m2"}, MAX_DEFERRED_WRITES <- 1

(* A car that numbers its keys against this crate's order and has another,  *)
(* of a standard nobody knows; a battery whose percentages are out of       *)
(* range; bills whose shares are thirds.                                    *)
MCBand(min, max) == [min |-> min, max |-> max]
MCField(f, text) ==
    [g \in {"deviceName", "deviceCode", "vendorName", "vendorCode", "brandName",
            "manufacturerLabel", "serialNumber"} |-> IF g = f THEN <<text>> ELSE <<>>]
MCInfo(f, text) ==
    [g \in {"deviceName", "deviceCode", "vendorName", "vendorCode", "brandName",
            "manufacturerLabel"} |-> IF g = f THEN <<text>> ELSE <<>>]
MCStandard(variant, text) == [variant |-> variant, text |-> text]
MCProfile ==
    [communication_standard |->
       {MCStandard("Iso15118Ed2", "iso15118-2ed2"), MCStandard("Iec61851", "iec61851"),
        MCStandard("Other", "din"), MCStandard("Other", "")},
     asymmetric_charging |-> BOOLEAN,
     identification |-> {[kind |-> "eui48", value |-> "a"], [kind |-> "eui64", value |-> "b"]},
     manufacturer |-> {MCField("deviceName", "car"), MCField("serialNumber", "7")},
     charging_power |-> {MCBand(1499, <<11500>>), MCBand(1500, <<>>)},
     asleep |-> BOOLEAN]
MCShare(energy, cost) == [energy_percent |-> energy, cost_percent |-> cost]
MCSummary(energy, cost, grid, roof) ==
    [energy_wh |-> energy, cost |-> cost, currency |-> "EUR",
     from_grid |-> grid, self_produced |-> roof, bill |-> 1]
MCSummaries ==
    { MCSummary(18500, 4205, <<MCShare(33333, 90000)>>, <<MCShare(66667, 10000)>>),
      MCSummary(499, 0, <<>>, <<MCShare(100000, 0)>>), MCSummary(0, 1995, <<>>, <<>>) }
Session == INSTANCE EvSession WITH
    KeyIds <- 1..3, ParameterIds <- {1, 2}, BillIds <- 1..3,
    Profile <- MCProfile,
    Infos <- {MCInfo("deviceName", "box"), MCInfo("brandName", "eebus")},
    Charges <- {-5000, 40000}, Capacities <- {5000500}, Summaries <- MCSummaries,
    MaxChanges <- 2,
    past <- carPast, wire <- carWire, reader <- carReader, changes <- carChanges

(* Two values of one unit, on one phase, between two or on the whole.       *)
Words == INSTANCE Measurands WITH
    PhaseNames <- {"a", "ab"}, MaxSlots <- 2, known <- taken, values <- filed

(* A control unit that may have two connections at a time, and crash twice. *)
Asking == INSTANCE Requester WITH
    SETTLED_AFTER <- 3, Connections <- {"c1", "c2"}, MaxRestarts <- 2

-----------------------------------------------------------------------------
CONSTANT Parts

\* A part that does not run in this behaviour.
Idle == "idle"

PInit ==
    /\ part \in Parts
    /\ IF part = "battery" THEN BInit ELSE now = Idle /\ battery = Idle /\ frame = Idle
    /\ IF part = "trust" THEN Trust!TInit
       ELSE /\ scene = Idle /\ store = Idle /\ peerKeys = Idle /\ replayGuard = Idle
            /\ saved = Idle /\ own = Idle /\ shaking = Idle /\ links = Idle
            /\ last = Idle /\ silence = Idle /\ forgotten = Idle
    /\ IF part = "ev" THEN Ev!EvInit
       ELSE /\ car = Idle /\ data = Idle /\ age = Idle /\ guard = Idle
            /\ asked = Idle /\ toCar = Idle /\ toGuard = Idle /\ sent = Idle
    /\ IF part = "compressor" THEN Compressor!OInit
       ELSE /\ flexibility = Idle /\ feature = Idle /\ peer = Idle /\ offer = Idle
            /\ toCompressor = Idle /\ toManager = Idle
            /\ commands = Idle /\ compressorChanges = Idle
    /\ IF part = "times" THEN Calendar!TmInit
       ELSE date = Idle /\ days = Idle /\ turns = Idle
    /\ IF part = "binding" THEN Binding!GInit
       ELSE /\ held = Idle /\ known = Idle /\ online = Idle /\ seen = Idle
            /\ subscribing = Idle /\ hears = Idle /\ troubles = Idle
    /\ IF part = "actor" THEN Actor!AInit
       ELSE /\ clock = Idle /\ system = Idle /\ reply = Idle
            /\ served = Idle /\ audit = Idle
    /\ IF part = "function" THEN Function!FInit
       ELSE /\ deferring = Idle /\ stored = Idle /\ deferred = Idle
            /\ subscribed = Idle /\ toClient = Idle /\ copy = Idle
            /\ synced = Idle /\ torn = Idle /\ operations = Idle
    /\ IF part = "device" THEN Device!DInit
       ELSE /\ tree = Idle /\ played = Idle /\ told = Idle /\ wire = Idle
            /\ opening = Idle /\ document = Idle /\ remote = Idle
            /\ announced = Idle /\ missed = Idle /\ dropped = Idle
            /\ changes = Idle
    /\ IF part = "hvac" THEN Hvac!HInit
       ELSE /\ unit = Idle /\ hvacSubscribed = Idle /\ toUnit = Idle
            /\ toAppliance = Idle /\ reader = Idle /\ points = Idle
            /\ hvacTold = Idle /\ hvacSteps = Idle
    /\ IF part = "meter" THEN Meter!MInit
       ELSE /\ meter = Idle /\ granted = Idle /\ answered = Idle
            /\ toMeter = Idle /\ toReader = Idle /\ readings = Idle
            /\ meterTold = Idle /\ meterMissed = Idle
            /\ relabelled = Idle /\ meterSteps = Idle
    /\ IF part = "scenarios" THEN Offers!Init
       ELSE /\ cast = Idle /\ device = Idle /\ desk = Idle
            /\ bound = Idle /\ queue = Idle /\ answer = Idle
    /\ IF part = "session" THEN Session!Init
       ELSE /\ topic = Idle /\ ids = Idle /\ truth = Idle /\ carPast = Idle
            /\ carWire = Idle
            /\ heard = Idle /\ carReader = Idle /\ carChanges = Idle
    /\ IF part = "words" THEN Words!UInit
       ELSE /\ naming = Idle /\ slots = Idle /\ taken = Idle
            /\ filed = Idle /\ learnt = Idle
    /\ IF part = "requester" THEN Asking!RInit
       ELSE /\ requester = Idle /\ onAir = Idle /\ connected = Idle
            /\ complete = Idle /\ overruled = Idle /\ restarts = Idle

trustVars == <<scene, store, peerKeys, replayGuard, saved, own, shaking, links,
               last, silence, forgotten>>
evVars == <<car, data, age, guard, asked, toCar, toGuard, sent>>
compressorVars == <<flexibility, feature, peer, offer, toCompressor, toManager,
                    commands, compressorChanges>>
timesVars == <<date, days, turns>>
bindingVars == <<held, known, online, seen, subscribing, hears, troubles>>
actorVars == <<clock, system, reply, served, audit>>
functionVars == <<deferring, stored, deferred, subscribed, toClient, copy,
                  synced, torn, operations>>
deviceVars == <<tree, played, told, wire, opening, document, remote, announced,
                missed, dropped, changes>>
hvacVars == <<unit, hvacSubscribed, toUnit, toAppliance, reader, points,
              hvacTold, hvacSteps>>
meterVars == <<meter, granted, answered, toMeter, toReader, readings,
               meterTold, meterMissed, relabelled, meterSteps>>
scenarioVars == <<cast, device, desk, bound, queue, answer>>
sessionVars == <<topic, ids, truth, carPast, carWire, heard, carReader, carChanges>>
wordsVars == <<naming, slots, taken, filed, learnt>>
requesterVars == <<requester, onAir, connected, complete, overruled, restarts>>

Others(p) ==
    /\ part = p /\ UNCHANGED part
    /\ IF p = "battery" THEN TRUE ELSE UNCHANGED bvars
    /\ IF p = "trust" THEN TRUE ELSE UNCHANGED trustVars
    /\ IF p = "ev" THEN TRUE ELSE UNCHANGED evVars
    /\ IF p = "compressor" THEN TRUE ELSE UNCHANGED compressorVars
    /\ IF p = "times" THEN TRUE ELSE UNCHANGED timesVars
    /\ IF p = "binding" THEN TRUE ELSE UNCHANGED bindingVars
    /\ IF p = "actor" THEN TRUE ELSE UNCHANGED actorVars
    /\ IF p = "function" THEN TRUE ELSE UNCHANGED functionVars
    /\ IF p = "device" THEN TRUE ELSE UNCHANGED deviceVars
    /\ IF p = "hvac" THEN TRUE ELSE UNCHANGED hvacVars
    /\ IF p = "meter" THEN TRUE ELSE UNCHANGED meterVars
    /\ IF p = "scenarios" THEN TRUE ELSE UNCHANGED scenarioVars
    /\ IF p = "session" THEN TRUE ELSE UNCHANGED sessionVars
    /\ IF p = "words" THEN TRUE ELSE UNCHANGED wordsVars
    /\ IF p = "requester" THEN TRUE ELSE UNCHANGED requesterVars

PNext ==
    \/ Others("battery") /\ BNext
    \/ Others("trust") /\ Trust!TNext
    \/ Others("ev") /\ Ev!EvNext
    \/ Others("compressor") /\ Compressor!ONext
    \/ Others("times") /\ Calendar!TmNext
    \/ Others("binding") /\ Binding!GNext
    \/ Others("actor") /\ Actor!ANext
    \/ Others("function") /\ Function!FNext
    \/ Others("device") /\ Device!DNext
    \/ Others("hvac") /\ Hvac!HNext
    \/ Others("meter") /\ Meter!MNext
    \/ Others("scenarios") /\ Offers!Next
    \/ Others("session") /\ Session!Next
    \/ Others("words") /\ Words!UNext
    \/ Others("requester") /\ Asking!RNext

pvars == <<part, bvars, trustVars, evVars, compressorVars, timesVars,
           bindingVars, actorVars, functionVars, deviceVars,
           hvacVars, meterVars, scenarioVars, sessionVars, wordsVars,
           requesterVars>>
PSpec == PInit /\ [][PNext]_pvars

-----------------------------------------------------------------------------
(* TrustStore: at most one commissioning tool is trusted, over PIN entries, *)
(* renewals, displaced units and restarts.                                  *)
OneCommissioningTool == 
    part = "trust" => Trust!TrustTypeOK /\ Trust!OneCommissioningTool

(* TrustStore: a peer that renews its certificate stays trusted.            *)
RenewalIsFollowed == part = "trust" => Trust!RenewalIsFollowed

(* TrustStore: a pairing request does not displace a unit that works.       *)
WorkingUnitIsKept == [][part = "trust" => Trust!UnitIsKept]_trustVars

(* BatteryControl: poll_timeout names the instant the battery next moves,   *)
(* and a battery nobody manages is free again in time.                      *)
BatteryIsTimed ==
    part = "battery" => BatteryTypeOK /\ BatteryDeadlineExact /\ SilenceFreesBattery

(* EvCharging: the limit the guard takes as applied is the one the car has, *)
(* but for a limit the car could not store and a write the guard gave up.   *)
(* What the car publishes as active is in force, with its value; and what   *)
(* is in force is published as active, but for a write that met a silence   *)
(* the car had not noticed (decide, settle).                                *)
ChargingIsAgreed ==
    part = "ev" => Ev!EvTypeOK /\ Ev!AppliedIsHeld /\ Ev!PublishedIsInForce

(* EvCharging: a limit in force is published as active (charging.rs:1500).  *)
InForceIsPublished == part = "ev" => Ev!InForceIsPublished

(* Ohpcf, Hvac, Monitoring: a manager or an appliance that has heard        *)
(* everything has what the compressor, the unit and the meter hold.         *)
(* Measurands: it takes a value for what it measures.                       *)
AppliancesSee ==
    /\ part = "compressor" => Compressor!OfferIsSeen
    /\ part = "hvac" => Hvac!UnitIsSeen
    /\ part = "meter" => Meter!ReadingsAreTrue
    /\ part = "words" => Words!MeaningIsKept

(* Times: dates and day numbers agree, and what is written is read back.    *)
TimesAreRight ==
    part = "times" => Calendar!CalendarIsRight /\ Calendar!TextRoundTrips

(* PreScenario: every counterpart is found and answers as its descriptor    *)
(* says. EvSession: a manager that has heard everything of a car knows it.  *)
(* Requester: a pairing request is on the air for as long as it takes.      *)
PeersAreFound ==
    /\ part = "scenarios" => Offers!ScenariosAreServed
    /\ part = "session" => Session!CarIsKnown
    /\ part = "requester" => Asking!RequestIsAnnounced

(* GuardBinding: the guard that is bound and connected is listened to.      *)
BoundGuardIsFollowed == part = "binding" => Binding!BoundGuardIsFollowed

(* GuardBinding: while no connection is lost, only the entity that may      *)
(* write the limit is listened to, and one that bound both features after   *)
(* the last release is. CsActor: the features serve the limit that is       *)
(* obeyed, and the audit log has it.                                        *)
ObeyedIsServed ==
    /\ part = "binding" => Binding!GuardIsFound
    /\ part = "actor" => Actor!ObeyedIsServed /\ Actor!LimitIsOnRecord

(* FunctionData: a subscriber's copy is the server's data.                  *)
CopyIsTrue == part = "function" => Function!CopyIsTrue

(* A command does what its sender and its receiver take it to do.           *)
(* FunctionData: what the application was shown is what is stored, and a    *)
(* partial write leaves alone what it does not name. Ohpcf: a command that  *)
(* crossed the end of the process changes nothing.                          *)
CommandsAreCarriedOut ==
    [][/\ part = "function" =>
            Function!AcceptStoresShown /\ Function!WriteSparesUnnamed
       /\ part = "compressor" => Compressor!CommandComesTooLate
      ]_<<functionVars, compressorVars>>

(* Discovery: the client's picture of the device is the device.             *)
TreeIsMirrored == part = "device" => Device!TreeIsMirrored
=============================================================================
