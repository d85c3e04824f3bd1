-------------------------------- MODULE Hvac --------------------------------
(* An HVAC unit and the appliance that follows it: usecases/hvac. The unit  *)
(* publishes its system functions, their operation modes, an overrun and    *)
(* the setpoints its modes read; the appliance (HvacApplianceActor)         *)
(* subscribes, reads everything, keeps a reader per system function and one *)
(* for the setpoints, reports what changed and writes modes, overruns and   *)
(* temperatures. Replies and notifications cross the unit's own changes and *)
(* the appliance's writes.                                                  *)
EXTENDS Integers, Sequences, FiniteSets

CONSTANTS
    Functions,       \* the system functions of the unit
    Modes,           \* operation modes; the identifier stands for its kind
    Related,         \* function -> the modes it may be in
    OverrunOf,       \* the functions the unit's overrun affects; {}: it has none
    Relations,       \* <<function, mode>> -> the setpoints that mode reads
    Setpoints,       \* the setpoints of the scope the appliance follows
    Foreign,         \* setpoints of another scope on the same feature
    Permissible,     \* <<min, max>>: SetpointConstraints
    Degrees,         \* the temperatures anybody asks for
    MaxSteps         \* bound: the unit's own moves, writes and lost connections

VARIABLES
    unit,            \* what the unit's features hold
    subscribed,      \* the features the appliance is subscribed to
    toUnit, toAppliance,
    reader,          \* function -> SystemFunction and its TrackedFunction
    points,          \* TrackedSetpoints
    told,            \* what the events have told the application
    steps            \* how many of these there were

hvars == <<unit, subscribed, toUnit, toAppliance, reader, points, told, steps>>

None == -1
AllSetpoints == Setpoints \cup Foreign

-----------------------------------------------------------------------------
(* What the unit serves.                                                    *)

\* The functions the scenario tables of the mode and the temperature use cases
\* name, in their order.
ModeReads == <<"descriptions", "modes", "related", "states">>
OverrunReads == IF OverrunOf = {} THEN <<>> ELSE <<"overruns", "overrun">>
TemperatureReads == <<"setpointDescriptions", "constraints", "setpoints", "relations">>

FeatureOf(function) ==
    IF function \in {"setpointDescriptions", "constraints", "setpoints"}
    THEN "Setpoint" ELSE "HVAC"

\* A reply or a notification: the function and everything it holds. What never
\* changes is its own name.
Payload(u, function) ==
    [function |-> function,
     data |-> IF function = "states" THEN u.states
              ELSE IF function = "overrun" THEN u.overrun
              ELSE IF function = "setpoints" THEN u.temperatures
              ELSE function]

\* The engine's set_data with its notification: subscribers hear the function.
Publish(u, function) ==
    /\ unit' = u
    /\ toAppliance' = IF FeatureOf(function) \in subscribed
                      THEN Append(toAppliance, Payload(u, function)) ELSE toAppliance

\* Constraints::permits.
Permits(degrees) == degrees >= Permissible[1] /\ degrees <= Permissible[2]

\* SystemFunction::apply on the unit's own data, and read_write with the
\* constraints for a temperature: whether the unit takes a write.
Permitted(w) ==
    CASE w.what = "mode" ->
           w.mode \in Related[w.of] /\ unit.states[w.of].changeable
      [] w.what = "overrun" -> OverrunOf # {}
      [] w.what = "setpoint" -> Permits(w.degrees)

Written(w) ==
    CASE w.what = "mode" -> [unit EXCEPT !.states[w.of].current = w.mode]
      [] w.what = "overrun" ->
           [unit EXCEPT !.overrun = IF w.start THEN "active" ELSE "inactive"]
      [] w.what = "setpoint" -> [unit EXCEPT !.temperatures[w.id] = w.degrees]

FunctionOf(w) ==
    CASE w.what = "mode" -> "states" [] w.what = "overrun" -> "overrun"
      [] w.what = "setpoint" -> "setpoints"

-----------------------------------------------------------------------------
(* The readers.                                                             *)

NewReader == [function |-> FALSE, modes |-> {}, related |-> {}, states |-> <<>>,
              overruns |-> FALSE, overrun |-> "unknown",
              described |-> FALSE, mode |-> None, report |-> "unknown"]

\* SystemFunction::state, mode_id: the state list steps once the description
\* has said which entry is this function's.
StateKnown(r) == r.function /\ r.states # <<>>
ModeId(r, f) == IF StateKnown(r) THEN r.states[f].current ELSE None

\* OverrunReport::read keeps "finished" as inactive; overrun_id needs the
\* description and a function that it affects.
Report(r, f) ==
    IF ~(r.function /\ r.overruns /\ f \in OverrunOf) THEN "unknown"
    ELSE IF r.overrun = "finished" THEN "inactive" ELSE r.overrun

\* is_sufficient: two modes; is_complete.
IsComplete(r, f) == r.function /\ Cardinality(r.modes) >= 2 /\ ModeId(r, f) # None

\* SystemFunction::learn.
Heeds(p) == p.function \in {"descriptions", "modes", "related", "states", "overruns", "overrun"}
Learned(r, f, p) ==
    CASE p.function = "descriptions" -> [r EXCEPT !.function = TRUE]
      [] p.function = "modes" -> [r EXCEPT !.modes = Modes]
      [] p.function = "related" -> [r EXCEPT !.related = Related[f]]
      [] p.function = "states" -> [r EXCEPT !.states = p.data]
      [] p.function = "overruns" -> [r EXCEPT !.overruns = TRUE]
      [] p.function = "overrun" -> [r EXCEPT !.overrun = p.data]
      [] OTHER -> r

\* TrackedUnit::apply, the half of one system function: what it keeps of the
\* payload beside the reader.
Tracked(r, f, p) ==
    LET l == Learned(r, f, p) IN
    IF ~Heeds(p) THEN r
    ELSE [l EXCEPT !.described = @ \/ IsComplete(l, f),
                   !.mode = ModeId(l, f), !.report = Report(l, f)]

\* Its events: FunctionDescribed, at which the application asks mode(), and
\* ModeChanged, which needs the kind of the mode.
ToldMode(old, r, l) ==
    IF ~r.described /\ l.described THEN l.mode
    ELSE IF l.mode # None /\ r.mode # l.mode /\ l.mode \in l.modes THEN l.mode
    ELSE old

\* OverrunChanged.
ToldReport(old, r, l) ==
    IF l.report # "unknown" /\ r.report # l.report THEN l.report ELSE old

-----------------------------------------------------------------------------
NewPoints == [described |-> {}, constraints |-> FALSE,
              values |-> [s \in AllSetpoints |-> None],
              relations |-> FALSE,
              seen |-> [s \in AllSetpoints |-> None]]

\* Setpoints::learn: of the descriptions, those of this scope.
HeedsPoints(p) == p.function \in {"setpointDescriptions", "constraints", "setpoints", "relations"}
LearnedPoints(t, p) ==
    CASE p.function = "setpointDescriptions" -> [t EXCEPT !.described = Setpoints]
      [] p.function = "constraints" -> [t EXCEPT !.constraints = TRUE]
      [] p.function = "setpoints" -> [t EXCEPT !.values = p.data]
      [] p.function = "relations" -> [t EXCEPT !.relations = TRUE]
      [] OTHER -> t

\* TrackedUnit::apply, the half of the setpoints: SetpointChanged for every
\* described setpoint whose value is not the one seen last.
TrackedPoints(t, p) ==
    LET l == LearnedPoints(t, p) IN
    IF ~HeedsPoints(p) THEN t
    ELSE [l EXCEPT !.seen = [s \in AllSetpoints |->
             IF s \in l.described /\ l.values[s] # None THEN l.values[s] ELSE @[s]]]

\* Setpoints::current_setpoint: the one setpoint the known mode reads.
CurrentSetpoints(f) ==
    LET m == ModeId(reader[f], f) IN
    IF points.relations /\ m # None THEN Relations[<<f, m>>] ELSE {}

-----------------------------------------------------------------------------
(* The appliance's calls.                                                   *)

\* HvacPeer::follow for both use cases: subscribe, then read.
Subscribe(feature) == [what |-> "subscribe", feature |-> feature]
Read(function) == [what |-> "read", function |-> function]
ReadAll(reads) == [i \in DOMAIN reads |-> Read(reads[i])]
Follow ==
    <<Subscribe("HVAC")>> \o ReadAll(ModeReads \o OverrunReads)
    \o <<Subscribe("HVAC"), Subscribe("Setpoint")>> \o ReadAll(TemperatureReads)

HInit ==
    /\ unit = [states |-> [f \in Functions |-> [current |-> CHOOSE m \in Related[f] : TRUE,
                                               changeable |-> TRUE, active |-> FALSE]],
               overrun |-> "inactive",
               temperatures |-> [s \in AllSetpoints |-> Permissible[1]]]
    /\ subscribed = {} /\ toUnit = Follow /\ toAppliance = <<>>
    /\ reader = [f \in Functions |-> NewReader] /\ points = NewPoints
    /\ told = [mode |-> [f \in Functions |-> None],
               report |-> [f \in Functions |-> "unknown"],
               temperatures |-> [s \in AllSetpoints |-> None]]
    /\ steps = 0

Send(w) ==
    /\ steps < MaxSteps
    /\ steps' = steps + 1
    /\ toUnit' = Append(toUnit, w)
    /\ UNCHANGED <<unit, subscribed, toAppliance, reader, points, told>>

\* set_mode_named: the mode has to be known and related, and changeable as
\* far as is known.
ModeAllowed(r, f, m) ==
    /\ r.function /\ m \in r.modes \cap r.related
    /\ StateKnown(r) => r.states[f].changeable
SetMode(f, m) ==
    ModeAllowed(reader[f], f, m) /\ Send([what |-> "mode", of |-> f, mode |-> m])

OverrunAllowed(r, f) == r.function /\ r.overruns /\ f \in OverrunOf
Overrun(f, start) ==
    OverrunAllowed(reader[f], f) /\ Send([what |-> "overrun", start |-> start])

\* write asks for a described setpoint in range; write_effective (set_setpoint,
\* set_temperature) also that the known mode reads it.
WriteAllowed(s, degrees) ==
    s \in points.described /\ points.constraints /\ Permits(degrees)
PreloadSetpoint(s, degrees) ==
    /\ WriteAllowed(s, degrees)
    /\ Send([what |-> "setpoint", id |-> s, degrees |-> degrees])
SetSetpoint(f, s, degrees) ==
    /\ s \in CurrentSetpoints(f) /\ WriteAllowed(s, degrees)
    /\ Send([what |-> "setpoint", id |-> s, degrees |-> degrees])

\* handle_event: every reader sees every payload.
Hear ==
    /\ toAppliance # <<>>
    /\ LET p == Head(toAppliance) IN
         /\ reader' = [f \in Functions |-> Tracked(reader[f], f, p)]
         /\ points' = TrackedPoints(points, p)
         /\ told' = [mode |-> [f \in Functions |->
                                 ToldMode(told.mode[f], reader[f], reader'[f])],
                     report |-> [f \in Functions |->
                                 ToldReport(told.report[f], reader[f], reader'[f])],
                     temperatures |-> [s \in AllSetpoints |->
                         IF points'.seen[s] # points.seen[s] THEN points'.seen[s]
                         ELSE told.temperatures[s]]]
    /\ toAppliance' = Tail(toAppliance)
    /\ UNCHANGED <<unit, subscribed, toUnit, steps>>

-----------------------------------------------------------------------------
(* The unit.                                                                *)

\* The engine serves a subscription or a read; the application decides on a
\* write, which is stored and notified when it is permitted.
Serve ==
    /\ toUnit # <<>>
    /\ LET m == Head(toUnit) IN
         CASE m.what = "subscribe" ->
                /\ subscribed' = subscribed \cup {m.feature}
                /\ UNCHANGED <<unit, toAppliance>>
           [] m.what = "read" ->
                /\ toAppliance' = Append(toAppliance, Payload(unit, m.function))
                /\ UNCHANGED <<unit, subscribed>>
           [] m.what \in {"mode", "overrun", "setpoint"} ->
                /\ IF Permitted(m) THEN Publish(Written(m), FunctionOf(m))
                   ELSE UNCHANGED <<unit, toAppliance>>
                /\ UNCHANGED subscribed
    /\ toUnit' = Tail(toUnit)
    /\ UNCHANGED <<reader, points, told, steps>>

\* Somebody at the wall panel, the unit's own scheduler, or its overrun.
Move(u, function) ==
    /\ steps < MaxSteps /\ u # unit
    /\ Publish(u, function)
    /\ steps' = steps + 1
    /\ UNCHANGED <<subscribed, toUnit, reader, points, told>>

OverrunMoves == [inactive |-> {"active"}, active |-> {"running"},
                 running |-> {"finished"}, finished |-> {"inactive"}]
Moves ==
    \/ \E f \in Functions :
         \/ \E m \in Related[f] : Move([unit EXCEPT !.states[f].current = m], "states")
         \/ Move([unit EXCEPT !.states[f].changeable = ~@], "states")
         \/ f \in OverrunOf
            /\ Move([unit EXCEPT !.states[f].active = unit.overrun = "running"], "states")
    \/ \E s \in AllSetpoints, d \in Degrees :
         Permits(d) /\ Move([unit EXCEPT !.temperatures[s] = d], "setpoints")
    \/ OverrunOf # {}
       /\ \E o \in OverrunMoves[unit.overrun] : Move([unit EXCEPT !.overrun = o], "overrun")

\* The connection is lost and comes back: nothing under way arrives, the
\* subscriptions are gone, and the application attaches again. What the
\* readers have learnt is kept.
Reattach ==
    /\ steps < MaxSteps
    /\ steps' = steps + 1
    /\ subscribed' = {} /\ toUnit' = Follow /\ toAppliance' = <<>>
    /\ UNCHANGED <<unit, reader, points, told>>

HNext ==
    \/ \E f \in Functions :
         \/ \E m \in Modes : SetMode(f, m)
         \/ \E start \in BOOLEAN : Overrun(f, start)
         \/ \E s \in AllSetpoints, d \in Degrees : SetSetpoint(f, s, d)
    \/ \E s \in AllSetpoints, d \in Degrees : PreloadSetpoint(s, d)
    \/ Hear \/ Serve \/ Moves \/ Reattach

-----------------------------------------------------------------------------
(* When nothing is under way the application has been told the mode, the    *)
(* overrun and the temperatures the unit has, whatever crossed on the way,  *)
(* and the readers agree, from which set_temperature picks its setpoint.    *)
(* (TrackedUnit::apply, learn, attach)                                      *)
UnitIsSeen ==
    toUnit = <<>> /\ toAppliance = <<>> =>
      /\ \A f \in Functions :
           /\ told.mode[f] = unit.states[f].current
           /\ ModeId(reader[f], f) = unit.states[f].current
           /\ f \in OverrunOf =>
                told.report[f] = IF unit.overrun = "finished" THEN "inactive" ELSE unit.overrun
           /\ CurrentSetpoints(f) = Relations[<<f, unit.states[f].current>>]
      /\ \A s \in Setpoints : told.temperatures[s] = unit.temperatures[s]
=============================================================================
