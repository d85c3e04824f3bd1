--------------------------- MODULE BatteryControl ---------------------------
(* The Inverter actor of Control of Battery (cob.rs): six states, one       *)
(* setpoint, and the timers that take control back from a manager that      *)
(* falls silent. A sibling of ControllableSystem, with a control mode that  *)
(* says which power the setpoint is about: the battery's own or the one at  *)
(* the grid connection.                                                     *)
EXTENDS Integers, FiniteSets

CONSTANTS
    HEARTBEAT_TIMEOUT,       \* silence that ends control
    WRITE_WINDOW,            \* how long a heartbeat vouches for a write
    SETTLE_TIMEOUT,          \* how long a silent or idle manager is waited for
    FAILSAFE_DURATION_RANGE, \* the durations a manager may write
    FailsafeDuration,        \* the failsafe duration configured at start
    NotFinite,               \* a value that is not a number
    SetpointPayloads,        \* entries a manager may write to setpointListData
    DurationWrites,          \* the failsafe durations a manager may write
    MaxLag,                  \* how late the event loop may call handle_timeout
    MaxTime                  \* bound on the clock

None == -1

ASSUME BatteryTimers ==
    /\ {HEARTBEAT_TIMEOUT, WRITE_WINDOW, SETTLE_TIMEOUT} \subseteq Nat \ {0}
    /\ WRITE_WINDOW <= HEARTBEAT_TIMEOUT /\ SETTLE_TIMEOUT <= HEARTBEAT_TIMEOUT
    /\ {MaxLag, MaxTime} \subseteq Nat
    /\ FAILSAFE_DURATION_RANGE \subseteq Nat \ {0}
    /\ FailsafeDuration \in Nat \ {0}

ASSUME BatteryInputs ==
    /\ NotFinite \notin Int
    /\ SetpointPayloads \subseteq [ readable : BOOLEAN,
                                    value    : Int \cup {NotFinite},
                                    active   : BOOLEAN,
                                    ends     : Nat \cup {None} ]
    /\ DurationWrites \subseteq Nat

VARIABLES
    now,      \* the monotonic clock
    battery,  \* the machine
    frame     \* the control mode in force when the setpoint was written

bvars == <<now, battery, frame>>

-----------------------------------------------------------------------------
Modes == {"power", "pcc", "auto"}
Steering == {"PowerControl", "PccControl"}
UnderControl == Steering \cup {"AutoControl"}
CobStates == UnderControl \cup {"Init", "AutoUncontrolled", "Failsafe"}
NoSetpoint == [watts |-> 0, is_active |-> FALSE, duration |-> None]

StateOf(mode) ==
    IF mode = "power" THEN "PowerControl"
    ELSE IF mode = "pcc" THEN "PccControl" ELSE "AutoControl"

ControlMode(state) ==
    IF state = "PowerControl" THEN "power"
    ELSE IF state = "PccControl" THEN "pcc"
    ELSE IF state \in {"AutoControl", "AutoUncontrolled"} THEN "auto" ELSE "none"

NewBattery(t) ==
    [ state               |-> "Init",
      setpoint            |-> NoSetpoint,
      setpoint_expiry     |-> None,
      last_heartbeat      |-> None,
      entered_state_at    |-> t,
      awaiting_mode_since |-> None,
      failsafe_duration   |-> FailsafeDuration,
      failsafe_watts      |-> 0 ]

Effective(b) ==
    IF b.state \in {"Init", "Failsafe"} THEN <<"Failsafe", b.failsafe_watts>>
    ELSE IF b.state \notin Steering THEN <<"Autonomous", 0>>
    ELSE IF b.setpoint.is_active THEN <<"Setpoint", b.setpoint.watts>>
    ELSE <<"Default", 0>>

IsSetpointActive(b) == b.state \in Steering /\ b.setpoint.is_active

\* What a reader of setpointListData is told.
SetpointData(b) == [is_active |-> IsSetpointActive(b), value |-> b.setpoint.watts]
\* What a reader of the configuration is told: no mode is reported as `auto`.
ConfigurationValues(b) ==
    [ mode     |-> IF ControlMode(b.state) = "none" THEN "auto" ELSE ControlMode(b.state),
      failsafe |-> b.failsafe_watts,
      duration |-> b.failsafe_duration ]

(* Unreadable: no entry for this setpoint, a value that is no number, or an *)
(* end time that is not relative.                                           *)
Readable(payload) == payload.readable
ReadSetpointWrite(payload) ==
    [watts |-> payload.value, is_active |-> payload.active, duration |-> payload.ends]

-----------------------------------------------------------------------------
EnterMode(b, state, t) ==
    IF b.state = state THEN b
    ELSE [b EXCEPT !.state = state, !.entered_state_at = t, !.awaiting_mode_since = None]

NeedsRecentHeartbeat(b) == b.state \in {"Init", "Failsafe", "AutoUncontrolled"}
HeartbeatIsRecent(b, t) == b.last_heartbeat # None /\ t - b.last_heartbeat < WRITE_WINDOW
Unheard(b, t) == NeedsRecentHeartbeat(b) /\ ~HeartbeatIsRecent(b, t)
HeardAt(b) == IF b.last_heartbeat = None THEN b.entered_state_at ELSE b.last_heartbeat

ManagerLost(b, t) == b.state \in UnderControl /\ t - HeardAt(b) >= HEARTBEAT_TIMEOUT

\* A duration that has run out deactivates the setpoint and changes nothing else.
Expire(b, t) ==
    IF b.setpoint_expiry # None /\ t >= b.setpoint_expiry
    THEN [b EXCEPT !.setpoint.is_active = FALSE] ELSE b

WaitedEnough(b, t) ==
    \/ b.state = "Init" /\ t - b.entered_state_at >= SETTLE_TIMEOUT
    \/ /\ b.state = "Failsafe"
       /\ \/ t - b.entered_state_at >= b.failsafe_duration
          \/ b.awaiting_mode_since # None /\ t - b.awaiting_mode_since >= SETTLE_TIMEOUT

Silenced(b, t) ==
    EnterMode([b EXCEPT !.setpoint = NoSetpoint, !.setpoint_expiry = None], "Failsafe", t)

HandleTimeout(b, t) ==
    IF ManagerLost(b, t) THEN Silenced(b, t)
    ELSE IF WaitedEnough(b, t) THEN EnterMode(Expire(b, t), "AutoUncontrolled", t)
    ELSE Expire(b, t)

\* Mutant: the setpoint's own deadline is reported in the controlled states only while it
\* is the mode that set it, so an expiry in `auto` is slept through.
DeadlinesOfSteering(b) ==
    CASE b.state \in Steering ->
           {HeardAt(b) + HEARTBEAT_TIMEOUT}
           \cup (IF b.setpoint_expiry # None /\ b.setpoint.is_active
                 THEN {b.setpoint_expiry} ELSE {})
      [] b.state = "AutoControl" -> {HeardAt(b) + HEARTBEAT_TIMEOUT}
      [] b.state = "Init" -> {b.entered_state_at + SETTLE_TIMEOUT}
      [] b.state = "Failsafe" -> {b.entered_state_at + b.failsafe_duration}
      [] OTHER -> {}

Deadlines(b) ==
    (IF b.state \in UnderControl THEN {HeardAt(b) + HEARTBEAT_TIMEOUT} ELSE {})
    \cup (IF b.state \in UnderControl /\ b.setpoint_expiry # None /\ b.setpoint.is_active
          THEN {b.setpoint_expiry} ELSE {})
    \cup (IF b.state = "Init" THEN {b.entered_state_at + SETTLE_TIMEOUT} ELSE {})
    \cup (IF b.state = "Failsafe" THEN {b.entered_state_at + b.failsafe_duration} ELSE {})
    \cup (IF b.state = "Failsafe" /\ b.awaiting_mode_since # None
          THEN {b.awaiting_mode_since + SETTLE_TIMEOUT} ELSE {})

PollTimeout(b) ==
    IF Deadlines(b) = {} THEN None
    ELSE CHOOSE d \in Deadlines(b) : \A e \in Deadlines(b) : d <= e

-----------------------------------------------------------------------------
(* The operations, from a machine to its next value and an answer.          *)

\* It never establishes control: it opens the window in which a write counts.
OnHeartbeat(b, t) ==
    [b EXCEPT !.last_heartbeat = t,
              !.awaiting_mode_since =
                  IF b.state \in {"Failsafe", "AutoUncontrolled"} /\ @ = None
                  THEN t ELSE @]

Result(a, b) == [answer |-> a, battery |-> b]

OnControlMode(b, mode, accepted, t) ==
    LET d == HandleTimeout(b, t)
        e == [d EXCEPT !.awaiting_mode_since = None]
    IN  IF Unheard(d, t) THEN Result("NoRecentHeartbeat", d)
        ELSE IF ~accepted THEN Result("CannotApply", EnterMode(e, "AutoControl", t))
        ELSE Result("Accepted", EnterMode(e, StateOf(mode), t))

Stored(b, write, t) ==
    [b EXCEPT !.setpoint = [write EXCEPT !.is_active = write.is_active /\ write.duration # 0],
              !.setpoint_expiry = IF write.duration = None THEN None ELSE t + write.duration]

OnSetpoint(b, write, accepted, t) ==
    LET d == HandleTimeout(b, t)
    IN  IF d.state \notin Steering THEN Result("ModeNotEstablished", d)
        ELSE IF write.watts = NotFinite THEN Result("NotFinite", d)
        ELSE IF ~accepted THEN Result("CannotApply", d)
        ELSE Result("Accepted", Stored(d, write, t))

OnFailsafeDuration(b, duration, t) ==
    LET d == HandleTimeout(b, t)
    IN  IF Unheard(d, t) THEN Result("NoRecentHeartbeat", d)
        ELSE IF duration \notin FAILSAFE_DURATION_RANGE
             THEN Result("DurationOutOfRange", d)
        ELSE Result("Accepted", [d EXCEPT !.failsafe_duration = duration])

OnFailsafeSetpoint(b, watts, t) ==
    LET d == HandleTimeout(b, t)
    IN  IF Unheard(d, t) THEN Result("NoRecentHeartbeat", d)
        ELSE IF watts = NotFinite THEN Result("NotFinite", d)
        ELSE Result("Accepted", [d EXCEPT !.failsafe_watts = watts])

-----------------------------------------------------------------------------
BInit ==
    /\ now = 0
    /\ battery = NewBattery(0)
    /\ frame = "none"

Takes(r) == battery' = r.battery /\ UNCHANGED now

Heartbeat ==
    /\ battery' = OnHeartbeat(battery, now)
    /\ UNCHANGED <<now, frame>>

ControlModeWrite(mode, accepted) ==
    Takes(OnControlMode(battery, mode, accepted, now)) /\ UNCHANGED frame

SetpointWrite(payload, accepted) ==
    /\ Readable(payload)
    /\ LET r == OnSetpoint(battery, ReadSetpointWrite(payload), accepted, now)
       IN  /\ Takes(r)
           /\ frame' = IF r.answer = "Accepted" THEN ControlMode(r.battery.state) ELSE frame

FailsafeDurationWrite(duration) ==
    Takes(OnFailsafeDuration(battery, duration, now)) /\ UNCHANGED frame

FailsafeSetpointWrite(watts) ==
    Takes(OnFailsafeSetpoint(battery, watts, now)) /\ UNCHANGED frame

\* The inverter decides for itself while the manager is still there.
GoAutonomous ==
    /\ battery.state \in Steering
    /\ battery' = EnterMode(battery, "AutoControl", now)
    /\ UNCHANGED <<now, frame>>

Timeout ==
    /\ battery' = HandleTimeout(battery, now)
    /\ UNCHANGED <<now, frame>>

\* The caller sleeps until poll_timeout and wakes at most MaxLag late.
Tick ==
    /\ now < MaxTime
    /\ PollTimeout(battery) = None \/ now < PollTimeout(battery) + MaxLag
    /\ now' = now + 1
    /\ UNCHANGED <<battery, frame>>

BNext ==
    \/ Heartbeat
    \/ \E mode \in Modes, accepted \in BOOLEAN : ControlModeWrite(mode, accepted)
    \/ \E p \in SetpointPayloads, accepted \in BOOLEAN : SetpointWrite(p, accepted)
    \/ \E d \in DurationWrites : FailsafeDurationWrite(d)
    \/ \E w \in {1, NotFinite} : FailsafeSetpointWrite(w)
    \/ GoAutonomous
    \/ Timeout
    \/ Tick

BSpec == BInit /\ [][BNext]_bvars

-----------------------------------------------------------------------------
Instants == Nat \cup {None}
Setpoints == [watts : Int, is_active : BOOLEAN, duration : Instants]
Batteries == [ state               : CobStates,
               setpoint            : Setpoints,
               setpoint_expiry     : Instants,
               last_heartbeat      : Instants,
               entered_state_at    : Nat,
               awaiting_mode_since : Instants,
               failsafe_duration   : Nat \ {0},
               failsafe_watts      : Int ]

(* Types, and what a refusal has to keep out: the stored setpoint and the   *)
(* failsafe value are numbers. (BatteryControl, SetpointWrite)              *)
BatteryTypeOK ==
    /\ now \in Nat
    /\ battery \in Batteries
    /\ frame \in Modes \cup {"none"}

(* poll_timeout's invariant: "None is returned in exactly one state,        *)
(* AutoUncontrolled"; anywhere else handle_timeout changes the machine at   *)
(* the reported instant and not before, so that a caller who sleeps on it   *)
(* neither misses a deadline nor spins. (poll_timeout, handle_timeout)      *)
BatteryDeadlineExact ==
    LET deadline == PollTimeout(battery) IN
    /\ deadline = None <=> battery.state = "AutoUncontrolled"
    /\ deadline # None =>
         /\ PollTimeout(HandleTimeout(battery, deadline)) # deadline
         /\ \A t \in now .. deadline - 1 :
              Effective(HandleTimeout(battery, t)) = Effective(battery)

(* COB-913, 915, 916: a battery whose manager went silent is steered by it  *)
(* no longer than the heartbeat timeout, and after the failsafe duration    *)
(* runs on its own. (handle_timeout, enter, on_heartbeat)                   *)
SilenceFreesBattery ==
    /\ battery.state \in UnderControl =>
         /\ battery.last_heartbeat # None
         /\ now - battery.last_heartbeat <= HEARTBEAT_TIMEOUT + MaxLag
    /\ now - HeardAt(battery) >
          HEARTBEAT_TIMEOUT + battery.failsafe_duration + 2 * MaxLag =>
         battery.state = "AutoUncontrolled"

=============================================================================
