---------------------------- MODULE Parts_proofs ----------------------------
(***************************************************************************)
(* What is proved of the parts, for the composition the run checks: each   *)
(* result about a component holds of the part that is an instance of it.   *)
(***************************************************************************)
EXTENDS MC_Parts, TLAPS

-----------------------------------------------------------------------------
(***************************************************************************)
(* The battery, for every value of the timers, the failsafe duration, the  *)
(* lateness of the event loop and the writes.                              *)
(***************************************************************************)
(* The inductive invariant, in parts, of a battery b at the instant t *)

\* No recorded instant lies in the future.
NothingFromTheFuture(b, t) ==
    b.entered_state_at <= t /\ b.last_heartbeat <= t /\ b.awaiting_mode_since <= t

\* In `init`, what was heard was heard since the start, and the settle timer is running.
InitBounded(b, t) ==
    b.state = "Init" =>
        /\ b.entered_state_at <= HeardAt(b)
        /\ t - b.entered_state_at <= SETTLE_TIMEOUT + MaxLag

\* The manager was heard recently enough for a controlled state.
ControlBounded(b, t) ==
    b.state \in UnderControl =>
        b.last_heartbeat # None /\ t - b.last_heartbeat <= HEARTBEAT_TIMEOUT + MaxLag

\* `failsafe` follows a silence of the heartbeat timeout and no more than MaxLag more. It
\* ends by its duration if the silence lasts; from the first heartbeat on it ends by the
\* settle timer, whatever the manager writes for the duration.
FailsafeBounded(b, t) ==
    b.state = "Failsafe" =>
        /\ b.last_heartbeat # None
        /\ IF b.awaiting_mode_since = None
           THEN /\ b.entered_state_at - b.last_heartbeat >= HEARTBEAT_TIMEOUT
                /\ b.entered_state_at - b.last_heartbeat <= HEARTBEAT_TIMEOUT + MaxLag
                /\ t - b.entered_state_at <= b.failsafe_duration + MaxLag
           ELSE /\ b.awaiting_mode_since <= b.last_heartbeat
                /\ t - b.awaiting_mode_since <= SETTLE_TIMEOUT + MaxLag

Sound(b, t) ==
    /\ NothingFromTheFuture(b, t)
    /\ InitBounded(b, t)
    /\ ControlBounded(b, t)
    /\ FailsafeBounded(b, t)

BIInv == BatteryTypeOK /\ Sound(battery, now)

-----------------------------------------------------------------------------
(* poll_timeout *)

\* What poll_timeout reports is one of the pending deadlines and none of them is earlier.
LEMMA PollTimeoutIsEarliest ==
    ASSUME NEW b \in Batteries
    PROVE  /\ Deadlines(b) \subseteq Nat
           /\ Deadlines(b) = {} <=> b.state = "AutoUncontrolled"
           /\ Deadlines(b) = {} => PollTimeout(b) = None
           /\ Deadlines(b) # {} =>
                /\ PollTimeout(b) \in Deadlines(b)
                /\ \A e \in Deadlines(b) : PollTimeout(b) <= e
<1>1. /\ Deadlines(b) \subseteq Nat
      /\ Deadlines(b) = {} <=> b.state = "AutoUncontrolled"
  BY BatteryTimers
     DEF Deadlines, Batteries, CobStates, UnderControl, Steering, Instants, None, HeardAt
<1>2. ASSUME Deadlines(b) # {}
      PROVE  \E d \in Deadlines(b) : \A e \in Deadlines(b) : d <= e
  <2>1. CASE b.state \in UnderControl
    BY <1>2, <2>1, BatteryTimers
       DEF Deadlines, Batteries, UnderControl, Steering, Instants, None, HeardAt
  <2>2. CASE b.state = "Init"
    BY <1>2, <2>2, BatteryTimers
       DEF Deadlines, Batteries, UnderControl, Steering, Instants, None, HeardAt
  <2>3. CASE b.state = "Failsafe"
    BY <1>2, <2>3, BatteryTimers
       DEF Deadlines, Batteries, UnderControl, Steering, Instants, None, HeardAt
  <2>4. QED
    BY <1>1, <1>2, <2>1, <2>2, <2>3 DEF Batteries, CobStates
<1>3. QED
  BY <1>1, <1>2 DEF PollTimeout

-----------------------------------------------------------------------------
(* The steps handle_timeout is made of *)

\* What `enter` does to each field when the state changes.
LEMMA EnterFields ==
    ASSUME NEW b \in Batteries, NEW t \in Nat, NEW s \in CobStates, b.state # s
    PROVE  LET e == EnterMode(b, s, t) IN
           /\ e \in Batteries
           /\ e.state = s
           /\ e.setpoint = b.setpoint /\ e.setpoint_expiry = b.setpoint_expiry
           /\ e.last_heartbeat = b.last_heartbeat
           /\ e.entered_state_at = t
           /\ e.awaiting_mode_since = None
           /\ e.failsafe_duration = b.failsafe_duration
BY DEF EnterMode, Batteries, Instants, None

\* An expired setpoint is deactivated and nothing else is touched.
LEMMA ExpireFields ==
    ASSUME NEW b \in Batteries, NEW t \in Nat
    PROVE  LET e == Expire(b, t) IN
           /\ e \in Batteries
           /\ e.state = b.state
           /\ e.setpoint.watts = b.setpoint.watts
           /\ e.setpoint_expiry = b.setpoint_expiry
           /\ e.last_heartbeat = b.last_heartbeat
           /\ e.entered_state_at = b.entered_state_at
           /\ e.awaiting_mode_since = b.awaiting_mode_since
           /\ e.failsafe_duration = b.failsafe_duration
           /\ e.failsafe_watts = b.failsafe_watts
           /\ IF b.setpoint_expiry # None /\ t >= b.setpoint_expiry
              THEN e.setpoint.is_active = FALSE ELSE e = b
<1>1. CASE b.setpoint_expiry # None /\ t >= b.setpoint_expiry
  <2> DEFINE s == [b.setpoint EXCEPT !.is_active = FALSE]
  <2>1. s \in Setpoints /\ s.watts = b.setpoint.watts /\ s.is_active = FALSE
    BY DEF Batteries, Setpoints
  <2>2. Expire(b, t) = [b EXCEPT !.setpoint = s]
    BY <1>1 DEF Expire, Batteries
  <2> HIDE DEF s
  <2>3. QED
    BY <1>1, <2>1, <2>2 DEF Batteries
<1>2. CASE ~(b.setpoint_expiry # None /\ t >= b.setpoint_expiry)
  BY <1>2 DEF Expire
<1>3. QED
  BY <1>1, <1>2

\* The manager's silence: the setpoint goes and the failsafe begins.
LEMMA SilencedFields ==
    ASSUME NEW b \in Batteries, NEW t \in Nat, b.state \in UnderControl
    PROVE  LET e == Silenced(b, t) IN
           /\ e \in Batteries
           /\ e.state = "Failsafe"
           /\ e.last_heartbeat = b.last_heartbeat
           /\ e.entered_state_at = t
           /\ e.awaiting_mode_since = None
           /\ e.failsafe_duration = b.failsafe_duration
<1> DEFINE c == [b EXCEPT !.setpoint = NoSetpoint, !.setpoint_expiry = None]
<1>0. NoSetpoint \in Setpoints /\ None \in Instants
  BY DEF Setpoints, NoSetpoint, Instants, None
<1>1. /\ c \in Batteries /\ c.state = b.state
      /\ c.last_heartbeat = b.last_heartbeat
      /\ c.failsafe_duration = b.failsafe_duration
  BY <1>0 DEF Batteries
<1>2. "Failsafe" \in CobStates /\ c.state # "Failsafe"
  BY <1>1 DEF CobStates, UnderControl, Steering
<1>3. Silenced(b, t) = EnterMode(c, "Failsafe", t)
  BY DEF Silenced
<1> HIDE DEF c
<1> DEFINE e == EnterMode(c, "Failsafe", t)
<1>4. /\ e \in Batteries /\ e.state = "Failsafe"
      /\ e.last_heartbeat = c.last_heartbeat
      /\ e.entered_state_at = t
      /\ e.awaiting_mode_since = None
      /\ e.failsafe_duration = c.failsafe_duration
  BY <1>1, <1>2, EnterFields
<1> HIDE DEF e
<1>5. QED
  BY <1>1, <1>3, <1>4 DEF e

\* The ways handle_timeout goes.
LEMMA TimeoutCases ==
    ASSUME NEW b, NEW t
    PROVE  /\ ManagerLost(b, t) => HandleTimeout(b, t) = Silenced(b, t)
           /\ ~ManagerLost(b, t) /\ WaitedEnough(b, t) =>
                HandleTimeout(b, t) = EnterMode(Expire(b, t), "AutoUncontrolled", t)
           /\ ~ManagerLost(b, t) /\ ~WaitedEnough(b, t) => HandleTimeout(b, t) = Expire(b, t)
BY DEF HandleTimeout

\* A battery that has waited enough is on its own, whatever its setpoint was.
LEMMA WaitedFields ==
    ASSUME NEW b \in Batteries, NEW t \in Nat, WaitedEnough(b, t)
    PROVE  LET e == EnterMode(Expire(b, t), "AutoUncontrolled", t) IN
           /\ e \in Batteries
           /\ e.state = "AutoUncontrolled"
           /\ e.last_heartbeat = b.last_heartbeat
           /\ e.entered_state_at = t
           /\ e.awaiting_mode_since = None
<1> DEFINE x == Expire(b, t)
<1>1. x \in Batteries /\ x.state = b.state /\ x.last_heartbeat = b.last_heartbeat
  BY ExpireFields
<1>2. x.state # "AutoUncontrolled" /\ "AutoUncontrolled" \in CobStates
  BY <1>1 DEF WaitedEnough, CobStates
<1> HIDE DEF x
<1>3. QED
  BY <1>1, <1>2, EnterFields DEF x

\* Once the timers have run, every deadline lies ahead.
LEMMA TimeoutServesDeadlines ==
    ASSUME NEW b \in Batteries, NEW t \in Nat
    PROVE  \A d \in Deadlines(HandleTimeout(b, t)) : d > t
<1>1. CASE ManagerLost(b, t)
  <2> DEFINE e == Silenced(b, t)
  <2>1. b.state \in UnderControl
    BY <1>1 DEF ManagerLost
  <2>2. /\ e \in Batteries /\ e.state = "Failsafe" /\ e.entered_state_at = t
        /\ e.awaiting_mode_since = None
    BY <2>1, SilencedFields
  <2>3. HandleTimeout(b, t) = e
    BY <1>1, TimeoutCases
  <2> HIDE DEF e
  <2>4. QED
    BY <2>2, <2>3 DEF Deadlines, Batteries, UnderControl, Steering
<1>2. CASE ~ManagerLost(b, t) /\ WaitedEnough(b, t)
  <2> DEFINE e == EnterMode(Expire(b, t), "AutoUncontrolled", t)
  <2>1. e \in Batteries /\ e.state = "AutoUncontrolled"
    BY <1>2, WaitedFields
  <2>2. HandleTimeout(b, t) = e
    BY <1>2, TimeoutCases
  <2> HIDE DEF e
  <2>3. QED
    BY <2>1, <2>2, PollTimeoutIsEarliest
<1>3. CASE ~ManagerLost(b, t) /\ ~WaitedEnough(b, t)
  <2> DEFINE e == Expire(b, t)
  <2>1. /\ e \in Batteries /\ e.state = b.state
        /\ e.setpoint_expiry = b.setpoint_expiry
        /\ e.last_heartbeat = b.last_heartbeat
        /\ e.entered_state_at = b.entered_state_at
        /\ e.awaiting_mode_since = b.awaiting_mode_since
        /\ e.failsafe_duration = b.failsafe_duration
        /\ b.setpoint_expiry # None /\ t >= b.setpoint_expiry => e.setpoint.is_active = FALSE
    BY ExpireFields
  <2>2. HandleTimeout(b, t) = e
    BY <1>3, TimeoutCases
  <2> HIDE DEF e
  <2>3. QED
    BY <1>3, <2>1, <2>2, BatteryTimers
       DEF Deadlines, ManagerLost, WaitedEnough, HeardAt, Batteries, Instants, None,
           UnderControl, Steering
<1>4. QED
  BY <1>1, <1>2, <1>3

\* Before the first deadline handle_timeout leaves what the battery obeys as it is.
LEMMA TimeoutWaits ==
    ASSUME NEW b \in Batteries, NEW t \in Nat, \A d \in Deadlines(b) : d > t
    PROVE  Effective(HandleTimeout(b, t)) = Effective(b)
<1> DEFINE e == Expire(b, t)
<1>1. ~ManagerLost(b, t) /\ ~WaitedEnough(b, t)
  BY BatteryTimers
     DEF Deadlines, ManagerLost, WaitedEnough, HeardAt, Batteries, Instants, None,
         UnderControl, Steering
<1>2. HandleTimeout(b, t) = e
  BY <1>1, TimeoutCases
<1>3. /\ e.state = b.state /\ e.setpoint.watts = b.setpoint.watts
      /\ e.failsafe_watts = b.failsafe_watts
      /\ IF b.setpoint_expiry # None /\ t >= b.setpoint_expiry
         THEN e.setpoint.is_active = FALSE ELSE e = b
  BY ExpireFields
<1>4. b.state \in Steering /\ b.setpoint_expiry # None /\ t >= b.setpoint_expiry =>
        b.setpoint.is_active = FALSE
  BY DEF Deadlines, Batteries, Setpoints, UnderControl, Instants, None
<1> HIDE DEF e
<1>5. QED
  BY <1>2, <1>3, <1>4 DEF Effective

-----------------------------------------------------------------------------
(* Each method keeps a sound battery sound *)

\* The timers move a sound battery to a sound one.
LEMMA HandleTimeoutSound ==
    ASSUME NEW b \in Batteries, NEW t \in Nat, Sound(b, t)
    PROVE  /\ HandleTimeout(b, t) \in Batteries
           /\ Sound(HandleTimeout(b, t), t)
<1>1. CASE ManagerLost(b, t)
  <2> DEFINE e == Silenced(b, t)
  <2>1. b.state \in UnderControl /\ HandleTimeout(b, t) = e
    BY <1>1, TimeoutCases DEF ManagerLost
  <2>2. /\ e \in Batteries /\ e.state = "Failsafe" /\ e.entered_state_at = t
        /\ e.last_heartbeat = b.last_heartbeat /\ e.awaiting_mode_since = None
    BY <2>1, SilencedFields
  <2>3. /\ b.last_heartbeat # None /\ b.last_heartbeat <= t
        /\ t - b.last_heartbeat >= HEARTBEAT_TIMEOUT
        /\ t - b.last_heartbeat <= HEARTBEAT_TIMEOUT + MaxLag
    BY <1>1, <2>1 DEF ManagerLost, HeardAt, Sound, ControlBounded, NothingFromTheFuture
  <2> HIDE DEF e
  <2>4. Sound(e, t)
    BY <2>2, <2>3, BatteryTimers
       DEF Batteries, Instants, None, UnderControl, Steering, Sound, NothingFromTheFuture,
           InitBounded, ControlBounded, FailsafeBounded
  <2>5. QED
    BY <2>1, <2>2, <2>4
<1>2. CASE ~ManagerLost(b, t) /\ WaitedEnough(b, t)
  <2> DEFINE e == EnterMode(Expire(b, t), "AutoUncontrolled", t)
  <2>1. HandleTimeout(b, t) = e
    BY <1>2, TimeoutCases
  <2>2. /\ e \in Batteries /\ e.state = "AutoUncontrolled" /\ e.entered_state_at = t
        /\ e.last_heartbeat = b.last_heartbeat /\ e.awaiting_mode_since = None
    BY <1>2, WaitedFields
  <2> HIDE DEF e
  <2>3. Sound(e, t)
    BY <2>2
       DEF Batteries, Instants, None, UnderControl, Steering, Sound, NothingFromTheFuture,
           InitBounded, ControlBounded, FailsafeBounded
  <2>4. QED
    BY <2>1, <2>2, <2>3
<1>3. CASE ~ManagerLost(b, t) /\ ~WaitedEnough(b, t)
  <2> DEFINE e == Expire(b, t)
  <2>1. HandleTimeout(b, t) = e
    BY <1>3, TimeoutCases
  <2>2. /\ e \in Batteries /\ e.state = b.state
        /\ e.last_heartbeat = b.last_heartbeat
        /\ e.entered_state_at = b.entered_state_at
        /\ e.awaiting_mode_since = b.awaiting_mode_since
        /\ e.failsafe_duration = b.failsafe_duration
    BY ExpireFields
  <2> HIDE DEF e
  <2>3. Sound(e, t)
    BY <2>2
       DEF Sound, NothingFromTheFuture, InitBounded, ControlBounded, FailsafeBounded, HeardAt
  <2>4. QED
    BY <2>1, <2>2, <2>3
<1>4. QED
  BY <1>1, <1>2, <1>3

\* A heartbeat renews what silence is measured from and, in failsafe, starts the settle timer.
LEMMA HeartbeatSound ==
    ASSUME NEW b \in Batteries, NEW t \in Nat, Sound(b, t)
    PROVE  OnHeartbeat(b, t) \in Batteries /\ Sound(OnHeartbeat(b, t), t)
<1> DEFINE e == OnHeartbeat(b, t)
<1>1. /\ e \in Batteries /\ e.state = b.state /\ e.last_heartbeat = t
      /\ e.entered_state_at = b.entered_state_at
      /\ e.awaiting_mode_since =
           IF b.state \in {"Failsafe", "AutoUncontrolled"} /\ b.awaiting_mode_since = None
           THEN t ELSE b.awaiting_mode_since
      /\ e.failsafe_duration = b.failsafe_duration
  BY DEF OnHeartbeat, Batteries, Instants, None
<1> HIDE DEF e
<1>2. NothingFromTheFuture(e, t)
  BY <1>1 DEF Sound, NothingFromTheFuture, Batteries, Instants, None
<1>3. InitBounded(e, t) /\ ControlBounded(e, t)
  BY <1>1, BatteryTimers
     DEF Sound, NothingFromTheFuture, InitBounded, ControlBounded, HeardAt,
         Batteries, Instants, None
<1>4. FailsafeBounded(e, t)
  BY <1>1, BatteryTimers
     DEF Sound, NothingFromTheFuture, FailsafeBounded, Batteries, Instants, None
<1>5. QED
  BY <1>1, <1>2, <1>3, <1>4 DEF Sound, e

\* Entering a state of control while the manager is heard, which may be the current one.
LEMMA EnterControlSound ==
    ASSUME NEW b \in Batteries, NEW t \in Nat, Sound(b, t), NEW s \in UnderControl,
           b.last_heartbeat # None, t - b.last_heartbeat <= HEARTBEAT_TIMEOUT + MaxLag
    PROVE  EnterMode(b, s, t) \in Batteries /\ Sound(EnterMode(b, s, t), t)
<1> DEFINE e == EnterMode(b, s, t)
<1>1. CASE b.state = s
  BY <1>1 DEF EnterMode
<1>2. CASE b.state # s
  <2>1. /\ e \in Batteries /\ e.state = s /\ e.last_heartbeat = b.last_heartbeat
        /\ e.entered_state_at = t /\ e.awaiting_mode_since = None
    BY <1>2, EnterFields DEF CobStates
  <2> HIDE DEF e
  <2>2. Sound(e, t)
    BY <2>1
       DEF Batteries, Instants, None, UnderControl, Steering, Sound, NothingFromTheFuture,
           InitBounded, ControlBounded, FailsafeBounded
  <2>3. QED
    BY <2>1, <2>2 DEF e
<1>3. QED
  BY <1>1, <1>2

\* A battery that may be written to has been heard: it is under control, or its heartbeat
\* is within the window.
LEMMA HeardIsBounded ==
    ASSUME NEW b \in Batteries, NEW t \in Nat, Sound(b, t), ~Unheard(b, t)
    PROVE  b.last_heartbeat # None /\ t - b.last_heartbeat <= HEARTBEAT_TIMEOUT + MaxLag
BY BatteryTimers
   DEF Batteries, CobStates, Instants, None, Sound, ControlBounded, Unheard,
       NeedsRecentHeartbeat, HeartbeatIsRecent

\* on_control_mode as a whole: the timers, the gate, the decision, the state.
LEMMA ControlModeSound ==
    ASSUME NEW b \in Batteries, NEW t \in Nat, Sound(b, t),
           NEW mode \in Modes, NEW accepted \in BOOLEAN
    PROVE  LET r == OnControlMode(b, mode, accepted, t) IN
           r.battery \in Batteries /\ Sound(r.battery, t)
<1> DEFINE d == HandleTimeout(b, t)
           e == [d EXCEPT !.awaiting_mode_since = None]
           s == IF accepted THEN StateOf(mode) ELSE "AutoControl"
           r == OnControlMode(b, mode, accepted, t)
<1>1. d \in Batteries /\ Sound(d, t)
  BY HandleTimeoutSound
<1>2. s \in UnderControl
  BY DEF StateOf, UnderControl, Steering
<1>3. r.battery = IF Unheard(d, t) THEN d ELSE EnterMode(e, s, t)
  BY DEF OnControlMode, Result
<1> HIDE DEF d, r, s
<1>4. CASE Unheard(d, t)
  BY <1>1, <1>3, <1>4 DEF r
<1>5. CASE ~Unheard(d, t)
  <2>1. d.last_heartbeat # None /\ t - d.last_heartbeat <= HEARTBEAT_TIMEOUT + MaxLag
    BY <1>1, <1>5, HeardIsBounded
  <2>2. /\ e \in Batteries /\ e.state = d.state
        /\ e.entered_state_at = d.entered_state_at
        /\ e.last_heartbeat = d.last_heartbeat
        /\ e.awaiting_mode_since = None
    BY <1>1 DEF Batteries, Instants, None
  <2> HIDE DEF e
  <2> DEFINE f == EnterMode(e, s, t)
  <2>3. /\ f \in Batteries /\ f.state = s
        /\ f.last_heartbeat = d.last_heartbeat
        /\ f.entered_state_at \in {d.entered_state_at, t}
        /\ f.awaiting_mode_since = None
    <3>1. CASE e.state = s
      BY <2>2, <3>1 DEF EnterMode
    <3>2. CASE e.state # s
      BY <1>2, <2>2, <3>2, EnterFields DEF CobStates
    <3>3. QED
      BY <3>1, <3>2
  <2> HIDE DEF f
  <2>4. Sound(f, t)
    BY <1>1, <1>2, <2>1, <2>3
       DEF Batteries, Instants, None, UnderControl, Steering, Sound, NothingFromTheFuture,
           InitBounded, ControlBounded, FailsafeBounded
  <2>5. QED
    BY <1>3, <1>5, <2>3, <2>4 DEF r, f
<1>6. QED
  BY <1>4, <1>5

\* on_setpoint stores a number, and moves no timer but the setpoint's own.
LEMMA SetpointSound ==
    ASSUME NEW b \in Batteries, NEW t \in Nat, Sound(b, t),
           NEW p \in SetpointPayloads, NEW accepted \in BOOLEAN
    PROVE  LET r == OnSetpoint(b, ReadSetpointWrite(p), accepted, t) IN
           /\ r.battery \in Batteries /\ Sound(r.battery, t)
<1> DEFINE d == HandleTimeout(b, t)
           w == ReadSetpointWrite(p)
           r == OnSetpoint(b, w, accepted, t)
           v == [w EXCEPT !.is_active = @ /\ w.duration # 0]
           x == IF w.duration = None THEN None ELSE t + w.duration
<1>1. d \in Batteries /\ Sound(d, t)
  BY HandleTimeoutSound
<1>2. /\ w = [watts |-> p.value, is_active |-> p.active, duration |-> p.ends]
      /\ p.value \in Int \cup {NotFinite} /\ p.active \in BOOLEAN /\ p.ends \in Instants
  BY BatteryInputs DEF ReadSetpointWrite, Instants
<1>3. \/ r.battery = d
      \/ w.watts # NotFinite /\ r.battery = Stored(d, w, t)
  BY DEF OnSetpoint, Result
<1>4. ASSUME w.watts # NotFinite
      PROVE  v \in Setpoints
  <2>1. (p.active /\ p.ends # 0) \in BOOLEAN
    OBVIOUS
  <2>2. v = [watts |-> p.value, is_active |-> (p.active /\ p.ends # 0), duration |-> p.ends]
    BY <1>2
  <2>3. p.value \in Int
    BY <1>2, <1>4
  <2>4. QED
    BY <1>2, <2>1, <2>2, <2>3 DEF Setpoints
<1>5. x \in Instants
  BY <1>2 DEF Instants, None
<1>6. Stored(d, w, t) = [d EXCEPT !.setpoint = v, !.setpoint_expiry = x]
  BY DEF Stored
<1> HIDE DEF d, w, r, v, x
<1>7. ASSUME w.watts # NotFinite
      PROVE  Stored(d, w, t) \in Batteries /\ Sound(Stored(d, w, t), t)
  <2> DEFINE e == Stored(d, w, t)
  <2>1. /\ e \in Batteries /\ e.state = d.state
        /\ e.last_heartbeat = d.last_heartbeat
        /\ e.entered_state_at = d.entered_state_at
        /\ e.awaiting_mode_since = d.awaiting_mode_since
        /\ e.failsafe_duration = d.failsafe_duration
    BY <1>1, <1>4, <1>5, <1>6, <1>7 DEF Batteries
  <2> HIDE DEF e
  <2>2. Sound(e, t)
    BY <1>1, <2>1
       DEF Sound, NothingFromTheFuture, InitBounded, ControlBounded, FailsafeBounded, HeardAt
  <2>3. QED
    BY <2>1, <2>2 DEF e
<1>8. QED
  BY <1>1, <1>3, <1>7 DEF r, w

\* A shorter duration written while the battery is in failsafe shortens nothing that is
\* not already ending: the heartbeat that vouches for the write started the settle timer.
LEMMA FailsafeDurationSound ==
    ASSUME NEW b \in Batteries, NEW t \in Nat, Sound(b, t), NEW duration \in DurationWrites
    PROVE  LET r == OnFailsafeDuration(b, duration, t) IN
           r.battery \in Batteries /\ Sound(r.battery, t)
<1> DEFINE d == HandleTimeout(b, t)
           e == [d EXCEPT !.failsafe_duration = duration]
           r == OnFailsafeDuration(b, duration, t)
<1>1. d \in Batteries /\ Sound(d, t)
  BY HandleTimeoutSound
<1>2. \/ r.battery = d
      \/ ~Unheard(d, t) /\ duration \in Nat \ {0} /\ r.battery = e
  BY BatteryTimers DEF OnFailsafeDuration, Result
<1> HIDE DEF d, r
<1>3. ASSUME ~Unheard(d, t), duration \in Nat \ {0}
      PROVE  e \in Batteries /\ Sound(e, t)
  <2>1. /\ e \in Batteries /\ e.state = d.state
        /\ e.last_heartbeat = d.last_heartbeat
        /\ e.entered_state_at = d.entered_state_at
        /\ e.awaiting_mode_since = d.awaiting_mode_since
    BY <1>1, <1>3 DEF Batteries
  <2>2. d.state = "Failsafe" => d.awaiting_mode_since # None
    BY <1>1, <1>3, BatteryTimers
       DEF Sound, FailsafeBounded, NothingFromTheFuture, Unheard, NeedsRecentHeartbeat,
           HeartbeatIsRecent, Batteries, Instants, None
  <2> HIDE DEF e
  <2>3. Sound(e, t)
    BY <1>1, <2>1, <2>2
       DEF Sound, NothingFromTheFuture, InitBounded, ControlBounded, FailsafeBounded, HeardAt
  <2>4. QED
    BY <2>1, <2>3
<1>4. QED
  BY <1>1, <1>2, <1>3 DEF r

\* The failsafe value is a number, and no timer depends on it.
LEMMA FailsafeSetpointSound ==
    ASSUME NEW b \in Batteries, NEW t \in Nat, Sound(b, t), NEW w \in {1, NotFinite}
    PROVE  LET r == OnFailsafeSetpoint(b, w, t) IN
           r.battery \in Batteries /\ Sound(r.battery, t)
<1> DEFINE d == HandleTimeout(b, t)
           e == [d EXCEPT !.failsafe_watts = w]
           r == OnFailsafeSetpoint(b, w, t)
<1>1. d \in Batteries /\ Sound(d, t)
  BY HandleTimeoutSound
<1>2. r.battery = d \/ (w \in Int /\ r.battery = e)
  <2>1. w # NotFinite => w \in Int
    OBVIOUS
  <2>2. r = IF Unheard(d, t) THEN Result("NoRecentHeartbeat", d)
            ELSE IF w = NotFinite THEN Result("NotFinite", d) ELSE Result("Accepted", e)
    BY DEF OnFailsafeSetpoint
  <2> HIDE DEF d, e, r
  <2>3. QED
    BY <2>1, <2>2 DEF Result
<1> HIDE DEF d, r
<1>3. ASSUME w \in Int
      PROVE  e \in Batteries /\ Sound(e, t)
  <2>1. /\ e \in Batteries /\ e.state = d.state
        /\ e.last_heartbeat = d.last_heartbeat
        /\ e.entered_state_at = d.entered_state_at
        /\ e.awaiting_mode_since = d.awaiting_mode_since
        /\ e.failsafe_duration = d.failsafe_duration
    BY <1>1, <1>3 DEF Batteries
  <2> HIDE DEF e
  <2>2. Sound(e, t)
    BY <1>1, <2>1
       DEF Sound, NothingFromTheFuture, InitBounded, ControlBounded, FailsafeBounded, HeardAt
  <2>3. QED
    BY <2>1, <2>2
<1>4. QED
  BY <1>1, <1>2, <1>3 DEF r

\* A sleeping caller that wakes at most MaxLag after poll_timeout lets no timer overrun.
LEMMA TickSound ==
    ASSUME NEW b \in Batteries, NEW t \in Nat, Sound(b, t),
           PollTimeout(b) = None \/ t < PollTimeout(b) + MaxLag
    PROVE  Sound(b, t + 1)
<1>1. \A e \in Deadlines(b) : e \in Nat /\ t < e + MaxLag
  BY PollTimeoutIsEarliest, BatteryTimers DEF None
<1>2. NothingFromTheFuture(b, t + 1)
  BY DEF Sound, NothingFromTheFuture, Batteries, Instants, None
<1>3. InitBounded(b, t + 1)
  BY <1>1, BatteryTimers DEF Sound, InitBounded, Deadlines, Batteries
<1>4. ControlBounded(b, t + 1)
  BY <1>1, BatteryTimers
     DEF Sound, ControlBounded, Deadlines, Batteries, HeardAt, Instants, None
<1>5. FailsafeBounded(b, t + 1)
  BY <1>1, BatteryTimers
     DEF Sound, FailsafeBounded, Deadlines, Batteries, Instants, None
<1>6. QED
  BY <1>2, <1>3, <1>4, <1>5 DEF Sound

-----------------------------------------------------------------------------
(* The specification *)

\* The start-up state is sound.
LEMMA BInitSound == BInit => BIInv
<1> SUFFICES ASSUME BInit PROVE BIInv
  OBVIOUS
<1>1. NoSetpoint \in Setpoints /\ None \in Instants
  BY DEF Setpoints, NoSetpoint, Instants, None
<1>2. NewBattery(0) \in Batteries
  <2>1. FailsafeDuration \in Nat \ {0} /\ 0 \in Int /\ "Init" \in CobStates
    BY BatteryTimers DEF CobStates
  <2>2. QED
    BY <1>1, <2>1 DEF NewBattery, Batteries
<1>3. Sound(NewBattery(0), 0)
  BY BatteryTimers
     DEF NewBattery, Sound, NothingFromTheFuture, InitBounded, ControlBounded, FailsafeBounded,
         HeardAt, UnderControl, Steering, None
<1>4. QED
  BY <1>2, <1>3 DEF BInit, BIInv, BatteryTypeOK

\* Every call the event loop makes keeps the battery sound.
LEMMA BNextSound == BIInv /\ [BNext]_bvars => BIInv'
<1> SUFFICES ASSUME BIInv, [BNext]_bvars PROVE BIInv'
  OBVIOUS
<1>1. /\ battery \in Batteries /\ now \in Nat /\ frame \in Modes \cup {"none"}
      /\ Sound(battery, now)
  BY DEF BIInv, BatteryTypeOK
<1> DEFINE Kept == /\ battery' \in Batteries /\ now' \in Nat
                   /\ frame' \in Modes \cup {"none"} /\ Sound(battery', now')
<1>2. SUFFICES Kept
  BY DEF BIInv, BatteryTypeOK, Sound, NothingFromTheFuture, InitBounded, ControlBounded,
         FailsafeBounded, HeardAt
<1>3. CASE Heartbeat
  BY <1>1, <1>3, HeartbeatSound DEF Heartbeat
<1>4. ASSUME NEW mode \in Modes, NEW accepted \in BOOLEAN, ControlModeWrite(mode, accepted)
      PROVE  Kept
  BY <1>1, <1>4, ControlModeSound DEF ControlModeWrite, Takes
<1>5. ASSUME NEW p \in SetpointPayloads, NEW accepted \in BOOLEAN, SetpointWrite(p, accepted)
      PROVE  Kept
  <2> DEFINE r == OnSetpoint(battery, ReadSetpointWrite(p), accepted, now)
  <2>1. r.battery \in Batteries /\ Sound(r.battery, now)
    BY <1>1, SetpointSound
  <2>2. /\ battery' = r.battery /\ now' = now
        /\ frame' = IF r.answer = "Accepted" THEN ControlMode(r.battery.state) ELSE frame
    BY <1>5 DEF SetpointWrite, Takes
  <2> HIDE DEF r
  <2>3. ControlMode(r.battery.state) \in Modes \cup {"none"}
    BY DEF ControlMode, Modes
  <2>4. QED
    BY <1>1, <2>1, <2>2, <2>3
<1>6. ASSUME NEW d \in DurationWrites, FailsafeDurationWrite(d)
      PROVE  Kept
  BY <1>1, <1>6, FailsafeDurationSound DEF FailsafeDurationWrite, Takes
<1>7. ASSUME NEW w \in {1, NotFinite}, FailsafeSetpointWrite(w)
      PROVE  Kept
  BY <1>1, <1>7, FailsafeSetpointSound DEF FailsafeSetpointWrite, Takes
<1>8. CASE GoAutonomous
  <2>1. /\ battery.last_heartbeat # None
        /\ now - battery.last_heartbeat <= HEARTBEAT_TIMEOUT + MaxLag
    BY <1>1, <1>8 DEF GoAutonomous, Sound, ControlBounded, UnderControl
  <2>2. "AutoControl" \in UnderControl
    BY DEF UnderControl
  <2>3. QED
    BY <1>1, <1>8, <2>1, <2>2, EnterControlSound DEF GoAutonomous
<1>9. CASE Timeout
  BY <1>1, <1>9, HandleTimeoutSound DEF Timeout
<1>10. CASE Tick
  BY <1>1, <1>10, TickSound DEF Tick
<1>11. CASE UNCHANGED bvars
  BY <1>1, <1>11 DEF bvars
<1>12. QED
  BY <1>3, <1>4, <1>5, <1>6, <1>7, <1>8, <1>9, <1>10, <1>11 DEF BNext

\* What a sound battery shows: the three properties.
LEMMA SoundIsTimed == BIInv => BatteryTypeOK /\ BatteryDeadlineExact /\ SilenceFreesBattery
<1> SUFFICES ASSUME BIInv
             PROVE  BatteryTypeOK /\ BatteryDeadlineExact /\ SilenceFreesBattery
  OBVIOUS
<1>1. battery \in Batteries /\ now \in Nat /\ Sound(battery, now) /\ BatteryTypeOK
  BY DEF BIInv, BatteryTypeOK
<1>2. BatteryDeadlineExact
  <2> DEFINE deadline == PollTimeout(battery)
             after == HandleTimeout(battery, deadline)
  <2>1. deadline = None <=> battery.state = "AutoUncontrolled"
    BY <1>1, PollTimeoutIsEarliest DEF None
  <2>2. ASSUME deadline # None
        PROVE  /\ deadline \in Nat
               /\ \A d \in Deadlines(battery) : d \in Nat /\ deadline <= d
    BY <1>1, <2>2, PollTimeoutIsEarliest
  <2>3. ASSUME deadline # None
        PROVE  PollTimeout(after) # deadline
    <3>1. after \in Batteries
      <4>1. deadline \in Nat
        BY <2>2, <2>3
      <4> HIDE DEF deadline
      <4>2. CASE ManagerLost(battery, deadline)
        <5>1. after = Silenced(battery, deadline) /\ battery.state \in UnderControl
          BY <4>2, TimeoutCases DEF ManagerLost
        <5>2. QED
          BY <1>1, <4>1, <5>1, SilencedFields
      <4>3. CASE ~ManagerLost(battery, deadline) /\ WaitedEnough(battery, deadline)
        <5>1. after = EnterMode(Expire(battery, deadline), "AutoUncontrolled", deadline)
          BY <4>3, TimeoutCases
        <5>2. QED
          BY <1>1, <4>1, <4>3, <5>1, WaitedFields
      <4>4. CASE ~ManagerLost(battery, deadline) /\ ~WaitedEnough(battery, deadline)
        <5>1. after = Expire(battery, deadline)
          BY <4>4, TimeoutCases
        <5>2. Expire(battery, deadline) \in Batteries
          BY <1>1, <4>1, ExpireFields
        <5>3. QED
          BY <5>1, <5>2
      <4>5. QED
        BY <4>2, <4>3, <4>4
    <3>2. \A d \in Deadlines(after) : d > deadline
      BY <1>1, <2>2, <2>3, TimeoutServesDeadlines
    <3>3. deadline \in Nat
      BY <2>2, <2>3
    <3> HIDE DEF after, deadline
    <3>4. QED
      BY <3>1, <3>2, <3>3, PollTimeoutIsEarliest DEF None
  <2>4. ASSUME deadline # None, NEW t \in now .. deadline - 1
        PROVE  Effective(HandleTimeout(battery, t)) = Effective(battery)
    <3>1. t \in Nat /\ \A d \in Deadlines(battery) : d > t
      <4>1. /\ deadline \in Nat
            /\ \A d \in Deadlines(battery) : d \in Nat /\ deadline <= d
        BY <2>2, <2>4
      <4> HIDE DEF deadline
      <4>2. QED
        BY <1>1, <2>4, <4>1
    <3>2. QED
      BY <1>1, <3>1, TimeoutWaits
  <2>5. QED
    BY <2>1, <2>3, <2>4 DEF BatteryDeadlineExact
<1>3. SilenceFreesBattery
  <2> DEFINE limit == HEARTBEAT_TIMEOUT + battery.failsafe_duration + 2 * MaxLag
  <2>1. battery.state \in UnderControl =>
          /\ battery.last_heartbeat # None
          /\ now - battery.last_heartbeat <= HEARTBEAT_TIMEOUT + MaxLag
    BY <1>1 DEF Sound, ControlBounded
  <2>2. CASE battery.state \in UnderControl
    BY <1>1, <2>1, <2>2, BatteryTimers DEF SilenceFreesBattery, HeardAt, Batteries, Instants, None
  <2>3. CASE battery.state = "Init"
    <3>1. now - HeardAt(battery) <= limit
      BY <1>1, <2>3, BatteryTimers
         DEF Sound, InitBounded, HeardAt, Batteries, Instants, None
    <3>2. limit \in Nat /\ now - HeardAt(battery) \in Int
      BY <1>1, BatteryTimers DEF HeardAt, Batteries, Instants, None
    <3>3. ~(now - HeardAt(battery) > limit)
      BY <3>1, <3>2
    <3>4. QED
      BY <2>1, <3>3 DEF SilenceFreesBattery
  <2>4. CASE battery.state = "Failsafe"
    <3>1. now - HeardAt(battery) <= limit
      BY <1>1, <2>4, BatteryTimers
         DEF Sound, FailsafeBounded, NothingFromTheFuture, HeardAt, Batteries, Instants, None
    <3>2. limit \in Nat /\ now - HeardAt(battery) \in Int
      BY <1>1, BatteryTimers DEF HeardAt, Batteries, Instants, None
    <3>3. ~(now - HeardAt(battery) > limit)
      BY <3>1, <3>2
    <3>4. QED
      BY <2>1, <3>3 DEF SilenceFreesBattery
  <2>5. CASE battery.state = "AutoUncontrolled"
    BY <2>1, <2>5 DEF SilenceFreesBattery
  <2>6. QED
    BY <1>1, <2>2, <2>3, <2>4, <2>5 DEF Batteries, CobStates
<1>4. QED
  BY <1>1, <1>2, <1>3

\* Control of Battery, for every setting of its timers: poll_timeout names the instant at
\* which handle_timeout next changes what the battery obeys, no instant before it does,
\* and a battery whose manager is silent runs on its own in time.
THEOREM BatteryTimed ==
    BSpec => [](BatteryTypeOK /\ BatteryDeadlineExact /\ SilenceFreesBattery)
BY BInitSound, BNextSound, SoundIsTimed, PTL DEF BSpec

-----------------------------------------------------------------------------
(***************************************************************************)
(* The composition                                                         *)
(***************************************************************************)
\* A step of the composition is a step of the part that runs, or none.
LEMMA OnePartMoves ==
    ASSUME [PNext]_pvars
    PROVE  /\ part' = part
           /\ part = "battery" => [BNext]_bvars
           /\ part = "trust" => [Trust!TNext]_trustVars
           /\ part = "binding" => [Binding!GNext]_bindingVars
           /\ part = "actor" => [Actor!ANext]_actorVars
           /\ part = "requester" => [Asking!RNext]_requesterVars
           /\ part = "times" => [Calendar!TmNext]_timesVars
           /\ part = "ev" => [Ev!EvNext]_evVars
           /\ part = "compressor" => [Compressor!ONext]_compressorVars
           /\ part = "device" => [Device!DNext]_deviceVars
           /\ part = "hvac" => [Hvac!HNext]_hvacVars
           /\ part = "meter" => [Meter!MNext]_meterVars
           /\ part = "words" => [Words!UNext]_wordsVars
<1>1. CASE UNCHANGED pvars
  BY <1>1 DEF pvars
<1>2. CASE PNext
  BY <1>2 DEF PNext, Others
<1>3. QED
  BY <1>1, <1>2

\* Control of Battery.
THEOREM BatteryAlwaysTimed == PSpec => []BatteryIsTimed
<1> DEFINE I == part = "battery" => BIInv
<1>1. PInit => I
  BY BInitSound DEF PInit
<1>2. I /\ [PNext]_pvars => I'
  BY OnePartMoves, BNextSound
<1>3. I => BatteryIsTimed
  BY SoundIsTimed DEF BatteryIsTimed
<1>4. QED
  BY <1>1, <1>2, <1>3, PTL DEF PSpec

-----------------------------------------------------------------------------
(* The trust store and the asking end of the pairing service.               *)

TrustProofs == INSTANCE TrustStore_proofs WITH
    guard <- replayGuard,
    Nodes <- {"z", "y"},
    Keys <- [z |-> <<"z1", "z2", "z3">>, y |-> <<"y1">>],
    SETTLED_AFTER <- 3, Connections <- {"c1", "c2"}, MaxRestarts <- 2,
    Spare <- "x1", Self <- "self", GuardCapacity <- 1, REPLACEABLE_AFTER <- 1,
    Scenarios <- MCScenarios,
    Requests <- [dz |-> MCRequest(TRUE, TRUE, TRUE, TRUE, "z1"),
                 dy |-> MCRequest(TRUE, TRUE, TRUE, TRUE, "y1"),
                 echo |-> MCRequest(TRUE, TRUE, TRUE, TRUE, "self"),
                 forged |-> MCRequest(TRUE, TRUE, TRUE, FALSE, "y1"),
                 cut |-> MCRequest(TRUE, TRUE, FALSE, TRUE, "y1"),
                 other |-> MCRequest(FALSE, TRUE, TRUE, TRUE, "y1"),
                 stale |-> MCRequest(TRUE, FALSE, TRUE, TRUE, "y1")]

\* Either instance of the trust store is the same specification.
LEMMA SameTrust ==
    /\ Trust!TInit <=> TrustProofs!TInit
    /\ [Trust!TNext]_trustVars <=> [TrustProofs!TNext]_(TrustProofs!tvars)
    /\ Trust!TrustTypeOK <=> TrustProofs!TrustTypeOK
    /\ Trust!OneCommissioningTool <=> TrustProofs!OneCommissioningTool
    /\ Trust!UnitIsKept <=> TrustProofs!UnitIsKept
    /\ Trust!RenewalIsFollowed <=> TrustProofs!RenewalIsFollowed
<1>1. Trust!None = TrustProofs!None
  BY DEF Trust!None, TrustProofs!None
<1>2. Trust!Skis = TrustProofs!Skis
  BY DEF Trust!Skis, TrustProofs!Skis, Trust!Range, TrustProofs!Range
<1>3. \A s : Trust!Owner(s) = TrustProofs!Owner(s)
  BY DEF Trust!Owner, TrustProofs!Owner, Trust!Range, TrustProofs!Range
<1>4. \A a, b : Trust!Level(a, b) = TrustProofs!Level(a, b)
  BY DEF Trust!Level, TrustProofs!Level
<1>5. Trust!UNTRUSTED = TrustProofs!UNTRUSTED
  BY <1>4 DEF Trust!UNTRUSTED, TrustProofs!UNTRUSTED
<1>6. Trust!AUTO_ACCEPT = TrustProofs!AUTO_ACCEPT
  BY <1>4 DEF Trust!AUTO_ACCEPT, TrustProofs!AUTO_ACCEPT
<1>7. Trust!USER_VERIFIED = TrustProofs!USER_VERIFIED
  BY <1>4 DEF Trust!USER_VERIFIED, TrustProofs!USER_VERIFIED
<1>8. \A a, b : Trust!Larger(a, b) = TrustProofs!Larger(a, b)
  BY DEF Trust!Larger, TrustProofs!Larger
<1>9. \A a, b : Trust!Merged(a, b) = TrustProofs!Merged(a, b)
  BY <1>4, <1>8 DEF Trust!Merged, TrustProofs!Merged
<1>10. Trust!NewStore = TrustProofs!NewStore
  BY <1>1, <1>2, <1>5 DEF Trust!NewStore, TrustProofs!NewStore
<1>11. Trust!NoUnit = TrustProofs!NoUnit
  BY <1>1 DEF Trust!NoUnit, TrustProofs!NoUnit
<1>12. \A st, s : Trust!IsTrusted(st, s) <=> TrustProofs!IsTrusted(st, s)
  BY <1>5 DEF Trust!IsTrusted, TrustProofs!IsTrusted
<1>13. \A st, s, l : Trust!Remembered(st, s, l) = TrustProofs!Remembered(st, s, l)
  BY DEF Trust!Remembered, TrustProofs!Remembered
<1>14. \A st, s : Trust!Trusted(st, s) = TrustProofs!Trusted(st, s)
  BY <1>7, <1>13 DEF Trust!Trusted, TrustProofs!Trusted
<1>15. \A st, s : Trust!Without(st, s) = TrustProofs!Without(st, s)
  BY <1>1, <1>5 DEF Trust!Without, TrustProofs!Without
<1>16. \A st, u : Trust!TrustUnit(st, u) = TrustProofs!TrustUnit(st, u)
  BY <1>1, <1>14, <1>15 DEF Trust!TrustUnit, TrustProofs!TrustUnit
<1>17. \A st : Trust!ForgetUnitIn(st) = TrustProofs!ForgetUnitIn(st)
  BY <1>11, <1>15 DEF Trust!ForgetUnitIn, TrustProofs!ForgetUnitIn
<1>18. \A st, s : Trust!ForgetIn(st, s) = TrustProofs!ForgetIn(st, s)
  BY <1>11, <1>15 DEF Trust!ForgetIn, TrustProofs!ForgetIn
<1>19. \A st, s : Trust!IsCertificateTrusted(st, s) <=> TrustProofs!IsCertificateTrusted(st, s)
  BY DEF Trust!IsCertificateTrusted, TrustProofs!IsCertificateTrusted
<1>20. \A st, s : Trust!ObserveUnitSki(st, s) = TrustProofs!ObserveUnitSki(st, s)
  BY <1>14, <1>15 DEF Trust!ObserveUnitSki, TrustProofs!ObserveUnitSki
<1>21. \A st, s : Trust!PinFirstTaken(st, s) <=> TrustProofs!PinFirstTaken(st, s)
  BY <1>2 DEF Trust!PinFirstTaken, TrustProofs!PinFirstTaken, Trust!SECOND_FACTOR_PIN_FIRST, TrustProofs!SECOND_FACTOR_PIN_FIRST
<1>22. \A st, s : Trust!AwardPinTrust(st, s) = TrustProofs!AwardPinTrust(st, s)
  BY <1>4, <1>9, <1>12, <1>13, <1>21 DEF Trust!AwardPinTrust, TrustProofs!AwardPinTrust, Trust!SECOND_FACTOR_PIN_FIRST, TrustProofs!SECOND_FACTOR_PIN_FIRST, Trust!SECOND_FACTOR_PIN_LATER, TrustProofs!SECOND_FACTOR_PIN_LATER
<1>23. \A st : Trust!FromJson(st) = TrustProofs!FromJson(st)
  BY <1>1, <1>11, <1>16 DEF Trust!FromJson, TrustProofs!FromJson
<1>24. \A s : Trust!NewKeys(s) = TrustProofs!NewKeys(s)
  BY DEF Trust!NewKeys, TrustProofs!NewKeys
<1>25. \A k, s : Trust!EntriesIn(k, s) = TrustProofs!EntriesIn(k, s)
  BY DEF Trust!EntriesIn, TrustProofs!EntriesIn
<1>26. \A k : Trust!UpdateInProgress(k) <=> TrustProofs!UpdateInProgress(k)
  BY <1>25 DEF Trust!UpdateInProgress, TrustProofs!UpdateInProgress
<1>27. \A k, c : Trust!CurrentFor(k, c) = TrustProofs!CurrentFor(k, c)
  BY <1>25 DEF Trust!CurrentFor, TrustProofs!CurrentFor
<1>28. \A k, es : Trust!Bump(k, es) = TrustProofs!Bump(k, es)
  BY DEF Trust!Bump, TrustProofs!Bump
<1>29. Trust!NoRecord = TrustProofs!NoRecord
  BY DEF Trust!NoRecord, TrustProofs!NoRecord
<1>30. \A m : Trust!Announced(m) = TrustProofs!Announced(m)
  BY DEF Trust!Announced, TrustProofs!Announced
<1>31. \A r, m : Trust!ApplyKeys(r, m) = TrustProofs!ApplyKeys(r, m)
  BY <1>30 DEF Trust!ApplyKeys, TrustProofs!ApplyKeys
<1>32. \A r, m : Trust!NewlyTrusted(r, m) = TrustProofs!NewlyTrusted(r, m)
  BY <1>30 DEF Trust!NewlyTrusted, TrustProofs!NewlyTrusted
<1>33. \A r, m : Trust!NoLongerTrusted(r, m) = TrustProofs!NoLongerTrusted(r, m)
  BY <1>30 DEF Trust!NoLongerTrusted, TrustProofs!NoLongerTrusted
<1>34. \A st, a, b, s : Trust!FollowedIn(st, a, b, s) = TrustProofs!FollowedIn(st, a, b, s)
  BY <1>2, <1>5, <1>7, <1>11 DEF Trust!FollowedIn, TrustProofs!FollowedIn
<1>35. Trust!Image = TrustProofs!Image
  BY DEF Trust!Image, TrustProofs!Image
<1>36. \A d : Trust!GuardAccept(d) = TrustProofs!GuardAccept(d)
  BY DEF Trust!GuardAccept, TrustProofs!GuardAccept
<1>37. \A r : Trust!FromPairs(r) <=> TrustProofs!FromPairs(r)
  BY DEF Trust!FromPairs, TrustProofs!FromPairs
<1>38. \A e : Trust!Promoted(e) = TrustProofs!Promoted(e)
  BY DEF Trust!Promoted, TrustProofs!Promoted
<1>39. \A d : Trust!Replayed(d) <=> TrustProofs!Replayed(d)
  BY DEF Trust!Replayed, TrustProofs!Replayed, Trust!Range, TrustProofs!Range
<1>40. \A d, r : Trust!Verify(d, r) = TrustProofs!Verify(d, r)
  BY <1>39 DEF Trust!Verify, TrustProofs!Verify
<1>41. \A d : Trust!Evaluate(d) = TrustProofs!Evaluate(d)
  BY <1>37, <1>40 DEF Trust!Evaluate, TrustProofs!Evaluate
<1>42. Trust!Accepting <=> TrustProofs!Accepting
  BY <1>11 DEF Trust!Accepting, TrustProofs!Accepting
<1>43. Trust!TInit <=> TrustProofs!TInit
  BY <1>2, <1>10, <1>24, <1>29 DEF Trust!TInit, TrustProofs!TInit
<1>44. \A z, l : Trust!ApproveAt(z, l) <=> TrustProofs!ApproveAt(z, l)
  BY <1>13, <1>27 DEF Trust!ApproveAt, TrustProofs!ApproveAt
<1>45. \A s : Trust!ForgetSki(s) <=> TrustProofs!ForgetSki(s)
  BY <1>12, <1>18 DEF Trust!ForgetSki, TrustProofs!ForgetSki
<1>46. Trust!ForgetUnit <=> TrustProofs!ForgetUnit
  BY <1>1, <1>11, <1>17 DEF Trust!ForgetUnit, TrustProofs!ForgetUnit
<1>47. Trust!ForgetAll <=> TrustProofs!ForgetAll
  BY <1>2, <1>10, <1>12 DEF Trust!ForgetAll, TrustProofs!ForgetAll
<1>48. \A s : Trust!PinVerified(s) <=> TrustProofs!PinVerified(s)
  BY <1>22 DEF Trust!PinVerified, TrustProofs!PinVerified
<1>49. \A z : Trust!Connects(z) <=> TrustProofs!Connects(z)
  BY <1>12, <1>19, <1>20, <1>27 DEF Trust!Connects, TrustProofs!Connects
<1>50. \A s : Trust!Exchanged(s) <=> TrustProofs!Exchanged(s)
  BY DEF Trust!Exchanged, TrustProofs!Exchanged
<1>51. \A s : Trust!HeardFrom(s) <=> TrustProofs!HeardFrom(s)
  BY DEF Trust!HeardFrom, TrustProofs!HeardFrom
<1>52. \A s : Trust!Adopted(s) <=> TrustProofs!Adopted(s)
  BY <1>50, <1>51 DEF Trust!Adopted, TrustProofs!Adopted
<1>53. \A s : Trust!MessageReceived(s) <=> TrustProofs!MessageReceived(s)
  BY <1>50, <1>51 DEF Trust!MessageReceived, TrustProofs!MessageReceived
<1>54. \A s : Trust!Disconnected(s) <=> TrustProofs!Disconnected(s)
  BY DEF Trust!Disconnected, TrustProofs!Disconnected
<1>55. \A d : Trust!EvaluatePairing(d) <=> TrustProofs!EvaluatePairing(d)
  BY <1>1, <1>16, <1>36, <1>41, <1>42 DEF Trust!EvaluatePairing, TrustProofs!EvaluatePairing
<1>56. \A z : Trust!BeginUpdate(z) <=> TrustProofs!BeginUpdate(z)
  BY <1>26, <1>27, <1>28 DEF Trust!BeginUpdate, TrustProofs!BeginUpdate
<1>57. \A z : Trust!CompleteUpdate(z) <=> TrustProofs!CompleteUpdate(z)
  BY <1>26, <1>28, <1>38 DEF Trust!CompleteUpdate, TrustProofs!CompleteUpdate
<1>58. \A z : Trust!AddCurve(z) <=> TrustProofs!AddCurve(z)
  BY <1>27, <1>28 DEF Trust!AddCurve, TrustProofs!AddCurve
<1>59. \A z : Trust!DropCurve(z) <=> TrustProofs!DropCurve(z)
  BY <1>28 DEF Trust!DropCurve, TrustProofs!DropCurve
<1>60. \A s : Trust!FollowKeyMaterial(s) <=> TrustProofs!FollowKeyMaterial(s)
  BY <1>3, <1>31, <1>32, <1>33, <1>34 DEF Trust!FollowKeyMaterial, TrustProofs!FollowKeyMaterial
<1>61. Trust!Save <=> TrustProofs!Save
  BY <1>35 DEF Trust!Save, TrustProofs!Save
<1>62. Trust!Restart <=> TrustProofs!Restart
  BY <1>23 DEF Trust!Restart, TrustProofs!Restart
<1>63. Trust!TTick <=> TrustProofs!TTick
  BY DEF Trust!TTick, TrustProofs!TTick
<1>64. \A x : Trust!May(x) <=> TrustProofs!May(x)
  BY DEF Trust!May, TrustProofs!May
<1>65. Trust!TNext <=> TrustProofs!TNext
  BY <1>2, <1>6, <1>7, <1>44, <1>45, <1>46, <1>47, <1>48, <1>49, <1>52, <1>53, <1>54, <1>55, <1>56, <1>57, <1>58, <1>59, <1>60, <1>61, <1>62, <1>63, <1>64 DEF Trust!TNext, TrustProofs!TNext
<1>66. Trust!TrustTypeOK <=> TrustProofs!TrustTypeOK
  BY <1>1, <1>2 DEF Trust!TrustTypeOK, TrustProofs!TrustTypeOK
<1>67. Trust!OneCommissioningTool <=> TrustProofs!OneCommissioningTool
  BY <1>2 DEF Trust!OneCommissioningTool, TrustProofs!OneCommissioningTool, Trust!SECOND_FACTOR_PIN_FIRST, TrustProofs!SECOND_FACTOR_PIN_FIRST
<1>68. Trust!UnitIsKept <=> TrustProofs!UnitIsKept
  BY <1>11, <1>55 DEF Trust!UnitIsKept, TrustProofs!UnitIsKept
<1>69. Trust!RenewalIsFollowed <=> TrustProofs!RenewalIsFollowed
  BY <1>3, <1>12, <1>30 DEF Trust!RenewalIsFollowed, TrustProofs!RenewalIsFollowed
<1>70. (UNCHANGED trustVars) <=> UNCHANGED TrustProofs!tvars
  BY DEF trustVars, TrustProofs!tvars
<1>71. QED
  BY <1>43, <1>65, <1>66, <1>67, <1>68, <1>69, <1>70

LEMMA TrustInstance == TrustProofs!TrustConstants
<1> DEFINE keys == [z |-> <<"z1", "z2", "z3">>, y |-> <<"y1">>]
<1>1. /\ DOMAIN keys["z"] = 1 .. 3 /\ Len(keys["z"]) = 3
      /\ DOMAIN keys["y"] = 1 .. 1 /\ Len(keys["y"]) = 1
  OBVIOUS
<1>2. /\ keys["z"][1] = "z1" /\ keys["z"][2] = "z2" /\ keys["z"][3] = "z3"
      /\ keys["y"][1] = "y1"
  OBVIOUS
<1>3. \A f : TrustProofs!Range(f) = {f[x] : x \in DOMAIN f}
  BY DEF TrustProofs!Range
<1>4. TrustProofs!Skis = {"z1", "z2", "z3", "y1", "x1"}
  BY <1>1, <1>2, <1>3 DEF TrustProofs!Skis
<1>5. QED
  BY <1>1, <1>2, <1>4 DEF TrustProofs!TrustConstants, TrustProofs!None, MCScenarios, MCScene, MCRequest

\* The trust store's inductive invariant, of the part that is an instance of it.
LEMMA TrustInvariant == PSpec => [](part = "trust" => TrustProofs!TIInv)
<1> DEFINE I == part = "trust" => TrustProofs!TIInv
<1>1. PInit => I
  BY TrustInstance, SameTrust, TrustProofs!TInitKept DEF PInit
<1>2. I /\ [PNext]_pvars => I'
  BY TrustInstance, OnePartMoves, SameTrust, TrustProofs!TNextKept
<1>3. QED
  BY <1>1, <1>2, PTL DEF PSpec

\* Trust decisions: one commissioning tool at most. (node.rs award_pin_trust, from_json)
THEOREM OneToolAlways == PSpec => []OneCommissioningTool
<1>1. (part = "trust" => TrustProofs!TIInv) => OneCommissioningTool
  BY TrustInstance, SameTrust, TrustProofs!KeptShows DEF OneCommissioningTool
<1>2. QED
  BY <1>1, TrustInvariant, PTL

\* Certificate renewal: a device that announced its new key before it uses it stays trusted.
\* (ship/keys.rs apply, hub.rs follow_key_material)
THEOREM RenewalAlwaysFollowed == PSpec => []RenewalIsFollowed
<1>1. (part = "trust" => TrustProofs!TIInv) => RenewalIsFollowed
  BY TrustInstance, SameTrust, TrustProofs!KeptShows DEF RenewalIsFollowed
<1>2. QED
  BY <1>1, TrustInvariant, PTL

\* Pairing: a unit that works is not displaced. (hub.rs evaluate_pairing)
THEOREM UnitAlwaysKept == PSpec => WorkingUnitIsKept
<1>1. (part = "trust" => TrustProofs!TIInv) => (part = "trust" => Trust!UnitIsKept)
  BY SameTrust, TrustProofs!PairingSpares
<1>2. QED
  BY <1>1, TrustInvariant, PTL DEF WorkingUnitIsKept

LEMMA SameRequester ==
    /\ Asking!RInit <=> TrustProofs!Asking!RInit
    /\ [Asking!RNext]_requesterVars <=> [TrustProofs!Asking!RNext]_(TrustProofs!Asking!rvars)
    /\ Asking!RequestIsAnnounced <=> TrustProofs!Asking!RequestIsAnnounced
<1>1. /\ Asking!None = TrustProofs!Asking!None /\ Asking!Down = TrustProofs!Asking!Down
      /\ \A r : Asking!is_announcing(r) <=> TrustProofs!Asking!is_announcing(r)
  BY DEF Asking!None, TrustProofs!Asking!None, Asking!Down, TrustProofs!Asking!Down,
         Asking!is_announcing, TrustProofs!Asking!is_announcing
<1>2. /\ Asking!new = TrustProofs!Asking!new /\ Asking!settled = TrustProofs!Asking!settled
      /\ \A r : Asking!settle(r) = TrustProofs!Asking!settle(r)
  BY <1>1 DEF Asking!new, TrustProofs!Asking!new, Asking!settled, TrustProofs!Asking!settled,
              Asking!settle, TrustProofs!Asking!settle
<1>3. /\ \A r : Asking!on_connected(r) = TrustProofs!Asking!on_connected(r)
      /\ \A r : Asking!on_disconnected(r) = TrustProofs!Asking!on_disconnected(r)
  BY <1>1 DEF Asking!on_connected, TrustProofs!Asking!on_connected,
              Asking!on_disconnected, TrustProofs!Asking!on_disconnected
<1>4. \A a : Asking!Older(a) = TrustProofs!Asking!Older(a)
  BY <1>1 DEF Asking!Older, TrustProofs!Asking!Older
<1>5. Asking!RInit <=> TrustProofs!Asking!RInit
  BY <1>1, <1>2 DEF Asking!RInit, TrustProofs!Asking!RInit
<1>6. /\ Asking!PollAction <=> TrustProofs!Asking!PollAction
      /\ Asking!RecordSettled <=> TrustProofs!Asking!RecordSettled
  BY <1>1 DEF Asking!PollAction, TrustProofs!Asking!PollAction,
              Asking!RecordSettled, TrustProofs!Asking!RecordSettled
<1>7. /\ Asking!HandleTimeout <=> TrustProofs!Asking!HandleTimeout
      /\ Asking!Withdraw <=> TrustProofs!Asking!Withdraw
      /\ Asking!Restart <=> TrustProofs!Asking!Restart
  BY <1>1, <1>2 DEF Asking!HandleTimeout, TrustProofs!Asking!HandleTimeout,
                    Asking!Withdraw, TrustProofs!Asking!Withdraw,
                    Asking!Restart, TrustProofs!Asking!Restart
<1>8. Asking!RTick <=> TrustProofs!Asking!RTick
  BY <1>4 DEF Asking!RTick, TrustProofs!Asking!RTick
<1>9. Asking!RNext <=> TrustProofs!Asking!RNext
  <2>1. (\E c \in {"c1", "c2"} : Asking!Connect(c) \/ Asking!Disconnect(c))
        <=> (\E c \in {"c1", "c2"} : \/ TrustProofs!Asking!Connect(c)
                                    \/ TrustProofs!Asking!Disconnect(c))
    <3>1. \A c \in {"c1", "c2"} : (Asking!Connect(c) \/ Asking!Disconnect(c))
            <=> (TrustProofs!Asking!Connect(c) \/ TrustProofs!Asking!Disconnect(c))
      <4> TAKE c \in {"c1", "c2"}
      <4>1. Asking!Connect(c) <=> TrustProofs!Asking!Connect(c)
        BY <1>1, <1>3 DEF Asking!Connect, TrustProofs!Asking!Connect
      <4>2. Asking!Disconnect(c) <=> TrustProofs!Asking!Disconnect(c)
        BY <1>1, <1>3 DEF Asking!Disconnect, TrustProofs!Asking!Disconnect
      <4>3. QED
        BY <4>1, <4>2, Zenon
    <3>2. QED
      BY <3>1, Zenon
  <2>2. QED
    BY <2>1, <1>6, <1>7, <1>8, Zenon DEF Asking!RNext, TrustProofs!Asking!RNext
<1>10. Asking!RequestIsAnnounced <=> TrustProofs!Asking!RequestIsAnnounced
  BY <1>1 DEF Asking!RequestIsAnnounced, TrustProofs!Asking!RequestIsAnnounced,
              Asking!Requesters, TrustProofs!Asking!Requesters,
              Asking!Ages, TrustProofs!Asking!Ages
<1>11. (UNCHANGED requesterVars) <=> UNCHANGED TrustProofs!Asking!rvars
  BY DEF requesterVars, TrustProofs!Asking!rvars
<1>12. QED
  BY <1>5, <1>9, <1>10, <1>11

\* Pairing, the asking end: a request is on the air exactly until it is withdrawn for good.
\* (pairing.rs Requester)
THEOREM RequestAlwaysAnnounced ==
    PSpec => [](part = "requester" => Asking!RequestIsAnnounced)
<1> DEFINE I == part = "requester" => TrustProofs!RIInv
<1>1. PInit => I
  BY SameRequester, TrustProofs!RInitAnnounced DEF PInit
<1>2. I /\ [PNext]_pvars => I'
  BY OnePartMoves, SameRequester, TrustProofs!RNextAnnounced
<1>3. I => (part = "requester" => Asking!RequestIsAnnounced)
  BY SameRequester DEF TrustProofs!RIInv
<1>4. QED
  BY <1>1, <1>2, <1>3, PTL DEF PSpec

-----------------------------------------------------------------------------
(* The actors of the use cases and what they read and write.                *)

ActorProofs == INSTANCE Actors_proofs WITH
    Starts <- MCStarts, Turns <- MCTurns, MAX_SECONDS <- MCMaxSeconds,
    HEARTBEAT_TIMEOUT <- 2, WRITE_WINDOW <- 1, SETTLE_TIMEOUT <- 2,
    FAILSAFE_DURATION_RANGE <- 2 .. 3, FailsafeDurationMax <- 5,
    FailsafeWatts <- 1, FailsafeDuration <- 2, OnCem <- FALSE,
    Writes <- MCWrites, FailsafeWrites <- {3}, DurationWrites <- {4},
    MaxLag <- 1, MaxTime <- 3, AuditCapacity <- 1, MAX_DROPPED <- 1,
    Guards <- {"a", "b"},
    SEQUENCE_ID <- 1, Interrupts <- {{"stop"}, {"stop", "pause"}}, StartTimes <- {3600},
    MaxCommands <- 3, MaxChanges <- 3, changes <- compressorChanges,
    PHASES <- {"A", "B"}, CarPhases <- {"A", "B"}, LimitId <- [A |-> 1, B |-> 2],
    Foreign <- [x \in {9} |-> 1], Permitted <- <<2, 3>>,
    Requirements <- {MCAmperes(1, 3), MCAmperes(0, 0)}, CAR_TIMEOUT <- 1,
    MaxWrites <- 2, MaxBeats <- 1,
    Paths <- {<<1>>, <<1, 1>>, <<2>>}, EntityFeatures <- {1, 2},
    UseCases <- {<< <<1>>, 1, "lpc">>, << <<>>, 2, "mpc">>},
    MAX_ENTRIES <- 6, MaxTreeChanges <- 2, treeTold <- told, treeChanges <- changes,
    PhaseNames <- {"a", "ab"}, MaxSlots <- 2,
    Functions <- {"dhw", "heating"}, Modes <- 1..3,
    Related <- [dhw |-> {1, 2}, heating |-> {1, 3}], OverrunOf <- {"dhw"},
    Relations <- MCRelations, Setpoints <- {1, 2}, UnitForeign <- {9},
    Permissible <- <<1, 2>>, Degrees <- {2, 3}, MaxUnitSteps <- 2,
    unitSubscribed <- hvacSubscribed, unitTold <- hvacTold, unitSteps <- hvacSteps,
    Slots <- {1, 2}, PerPhase <- {1}, Phases <- {"a", "b"}, Total <- "abc",
    Values <- {1, 2}, InRange <- {1}, Factors <- {1, 3}, Percent <- <<0, 2>>,
    MaxMeterSteps <- 2, meterGranted <- granted

\* The two instances of a component are the same specification.
LEMMA SameBinding ==
    /\ Binding!GInit <=> ActorProofs!GInit
    /\ [Binding!GNext]_bindingVars <=> [ActorProofs!GNext]_(ActorProofs!gvars)
    /\ Binding!GuardIsFound <=> ActorProofs!GuardIsFound
<1>1. Binding!GInit <=> ActorProofs!GInit
  BY DEF Binding!GInit, ActorProofs!GInit, Binding!Features, ActorProofs!Features,
         Binding!Nobody, ActorProofs!Nobody
<1>2. Binding!GNext <=> ActorProofs!GNext
  BY DEF Binding!GNext, Binding!Connect, Binding!Discover, Binding!Disconnect,
         Binding!SubscriptionGranted, Binding!Bind, Binding!Release, Binding!Settle,
         Binding!Follow, Binding!OnBinding, Binding!OnRelease, Binding!MayBind,
         Binding!Features, Binding!Nobody,
         ActorProofs!GNext, ActorProofs!Connect, ActorProofs!Discover,
         ActorProofs!Disconnect, ActorProofs!SubscriptionGranted, ActorProofs!Bind,
         ActorProofs!Release, ActorProofs!Settle, ActorProofs!Follow,
         ActorProofs!OnBinding, ActorProofs!OnRelease, ActorProofs!MayBind,
         ActorProofs!Features, ActorProofs!Nobody
<1>3. (UNCHANGED bindingVars) <=> UNCHANGED ActorProofs!gvars
  BY DEF bindingVars, ActorProofs!gvars
<1>4. Binding!GuardIsFound <=> ActorProofs!GuardIsFound
  BY DEF Binding!GuardIsFound, Binding!BoundGuardIsFollowed, Binding!Controls,
         Binding!BoundAnew, ActorProofs!BoundAnew,
         Binding!Followed, Binding!Features, Binding!Nobody,
         ActorProofs!GuardIsFound, ActorProofs!BoundGuardIsFollowed, ActorProofs!Controls,
         ActorProofs!Followed, ActorProofs!Features, ActorProofs!Nobody
<1>5. QED
  BY <1>1, <1>2, <1>3, <1>4

\* The machine behind either instance is the same one.
LEMMA SameMachine ==
    /\ \A c, s, t :
         Actor!Machine!Enter(c, s, t) = ActorProofs!Machine!Enter(c, s, t)
    /\ \A c, t :
         Actor!Machine!HandleTimeout(c, t) = ActorProofs!Machine!HandleTimeout(c, t)
    /\ \A c, t :
         Actor!Machine!Refuse(c, t) = ActorProofs!Machine!Refuse(c, t)
    /\ \A c, t :
         Actor!Machine!OnHeartbeat(c, t) = ActorProofs!Machine!OnHeartbeat(c, t)
    /\ \A c, w, b, t :
         Actor!Machine!LimitAnswer(c, w, b, t) = ActorProofs!Machine!LimitAnswer(c, w, b, t)
    /\ \A c, w, t :
         Actor!Machine!ApplyLimit(c, w, t) = ActorProofs!Machine!ApplyLimit(c, w, t)
    /\ \A c, w, b, t :
         Actor!Machine!OnLimitWrite(c, w, b, t) = ActorProofs!Machine!OnLimitWrite(c, w, b, t)
    /\ \A c, t :
         Actor!Machine!OnUnreadableLimitWrite(c, t) = ActorProofs!Machine!OnUnreadableLimitWrite(c, t)
    /\ \A c, t :
         Actor!Machine!OnUnstoredLimitWrite(c, t) = ActorProofs!Machine!OnUnstoredLimitWrite(c, t)
    /\ \A c, w, t :
         Actor!Machine!OnFailsafeLimitWrite(c, w, t) = ActorProofs!Machine!OnFailsafeLimitWrite(c, w, t)
    /\ \A c, w, t :
         Actor!Machine!OnFailsafeDurationWrite(c, w, t) = ActorProofs!Machine!OnFailsafeDurationWrite(c, w, t)
    /\ \A c, t :
         Actor!Machine!OnInterrupt(c, t) = ActorProofs!Machine!OnInterrupt(c, t)
    /\ \A c :
         Actor!Machine!PollTimeout(c) = ActorProofs!Machine!PollTimeout(c)
    /\ \A c :
         Actor!Machine!EffectiveLimit(c) = ActorProofs!Machine!EffectiveLimit(c)
<1>1. \A c, s, t :
        Actor!Machine!Enter(c, s, t) = ActorProofs!Machine!Enter(c, s, t)
  BY DEF Actor!Machine!Enter, Actor!Machine!None, ActorProofs!Machine!Enter,
         ActorProofs!Machine!None
<1>2. \A c, t :
        Actor!Machine!HandleTimeout(c, t) = ActorProofs!Machine!HandleTimeout(c, t)
  BY <1>1
     DEF Actor!Machine!HandleTimeout, Actor!Machine!HeartbeatLost,
         Actor!Machine!LimitExpired, Actor!Machine!SettleElapsed,
         Actor!Machine!FailsafeElapsed, Actor!Machine!HeardAt,
         Actor!Machine!Controlled, Actor!Machine!None,
         ActorProofs!Machine!HandleTimeout, ActorProofs!Machine!HeartbeatLost,
         ActorProofs!Machine!LimitExpired, ActorProofs!Machine!SettleElapsed,
         ActorProofs!Machine!FailsafeElapsed, ActorProofs!Machine!HeardAt,
         ActorProofs!Machine!Controlled, ActorProofs!Machine!None
<1>3. \A c, t :
        Actor!Machine!Refuse(c, t) = ActorProofs!Machine!Refuse(c, t)
  BY <1>1
     DEF Actor!Machine!Refuse, Actor!Machine!Controlled, Actor!Machine!None,
         ActorProofs!Machine!Refuse, ActorProofs!Machine!Controlled,
         ActorProofs!Machine!None
<1>4. \A c, t :
        Actor!Machine!OnHeartbeat(c, t) = ActorProofs!Machine!OnHeartbeat(c, t)
  BY DEF Actor!Machine!OnHeartbeat, Actor!Machine!None,
         ActorProofs!Machine!OnHeartbeat, ActorProofs!Machine!None
<1>5. \A c, w, b, t :
        Actor!Machine!LimitAnswer(c, w, b, t) = ActorProofs!Machine!LimitAnswer(c, w, b, t)
  BY DEF Actor!Machine!LimitAnswer, Actor!Machine!NeedsRecentHeartbeat,
         Actor!Machine!HeartbeatIsRecent, Actor!Machine!Controlled,
         Actor!Machine!None, ActorProofs!Machine!LimitAnswer,
         ActorProofs!Machine!NeedsRecentHeartbeat,
         ActorProofs!Machine!HeartbeatIsRecent, ActorProofs!Machine!Controlled,
         ActorProofs!Machine!None
<1>6. \A c, w, t :
        Actor!Machine!ApplyLimit(c, w, t) = ActorProofs!Machine!ApplyLimit(c, w, t)
  BY <1>1
     DEF Actor!Machine!ApplyLimit, Actor!Machine!None,
         ActorProofs!Machine!ApplyLimit, ActorProofs!Machine!None
<1>7. \A c, w, b, t :
        Actor!Machine!OnLimitWrite(c, w, b, t) = ActorProofs!Machine!OnLimitWrite(c, w, b, t)
  BY <1>2, <1>3, <1>5, <1>6
     DEF Actor!Machine!OnLimitWrite, ActorProofs!Machine!OnLimitWrite
<1>8. \A c, t :
        Actor!Machine!OnUnreadableLimitWrite(c, t) = ActorProofs!Machine!OnUnreadableLimitWrite(c, t)
  BY <1>2, <1>3
     DEF Actor!Machine!OnUnreadableLimitWrite, Actor!Machine!NeedsRecentHeartbeat,
         Actor!Machine!HeartbeatIsRecent, Actor!Machine!Controlled,
         Actor!Machine!None, ActorProofs!Machine!OnUnreadableLimitWrite,
         ActorProofs!Machine!NeedsRecentHeartbeat,
         ActorProofs!Machine!HeartbeatIsRecent, ActorProofs!Machine!Controlled,
         ActorProofs!Machine!None
<1>9. \A c, t :
        Actor!Machine!OnUnstoredLimitWrite(c, t) = ActorProofs!Machine!OnUnstoredLimitWrite(c, t)
  BY <1>1
     DEF Actor!Machine!OnUnstoredLimitWrite, Actor!Machine!NoWrite,
         Actor!Machine!None, ActorProofs!Machine!OnUnstoredLimitWrite,
         ActorProofs!Machine!NoWrite, ActorProofs!Machine!None
<1>10. \A c, w, t :
        Actor!Machine!OnFailsafeLimitWrite(c, w, t) = ActorProofs!Machine!OnFailsafeLimitWrite(c, w, t)
  BY <1>2
     DEF Actor!Machine!OnFailsafeLimitWrite, Actor!Machine!CheckSecondaryWrite,
         Actor!Machine!NeedsRecentHeartbeat, Actor!Machine!HeartbeatIsRecent,
         Actor!Machine!Controlled, Actor!Machine!None,
         ActorProofs!Machine!OnFailsafeLimitWrite,
         ActorProofs!Machine!CheckSecondaryWrite,
         ActorProofs!Machine!NeedsRecentHeartbeat,
         ActorProofs!Machine!HeartbeatIsRecent, ActorProofs!Machine!Controlled,
         ActorProofs!Machine!None
<1>11. \A c, w, t :
        Actor!Machine!OnFailsafeDurationWrite(c, w, t) = ActorProofs!Machine!OnFailsafeDurationWrite(c, w, t)
  BY <1>2
     DEF Actor!Machine!OnFailsafeDurationWrite, Actor!Machine!CheckSecondaryWrite,
         Actor!Machine!NeedsRecentHeartbeat, Actor!Machine!HeartbeatIsRecent,
         Actor!Machine!Controlled, Actor!Machine!None,
         ActorProofs!Machine!OnFailsafeDurationWrite,
         ActorProofs!Machine!CheckSecondaryWrite,
         ActorProofs!Machine!NeedsRecentHeartbeat,
         ActorProofs!Machine!HeartbeatIsRecent, ActorProofs!Machine!Controlled,
         ActorProofs!Machine!None
<1>12. \A c, t :
        Actor!Machine!OnInterrupt(c, t) = ActorProofs!Machine!OnInterrupt(c, t)
  BY <1>1
     DEF Actor!Machine!OnInterrupt, Actor!Machine!NoWrite, Actor!Machine!None,
         ActorProofs!Machine!OnInterrupt, ActorProofs!Machine!NoWrite,
         ActorProofs!Machine!None
<1>13. \A c :
        Actor!Machine!PollTimeout(c) = ActorProofs!Machine!PollTimeout(c)
  BY DEF Actor!Machine!PollTimeout, Actor!Machine!Deadlines, Actor!Machine!HeardAt,
         Actor!Machine!Controlled, Actor!Machine!None,
         ActorProofs!Machine!PollTimeout, ActorProofs!Machine!Deadlines,
         ActorProofs!Machine!HeardAt, ActorProofs!Machine!Controlled,
         ActorProofs!Machine!None
<1>14. \A c :
        Actor!Machine!EffectiveLimit(c) = ActorProofs!Machine!EffectiveLimit(c)
  BY DEF Actor!Machine!EffectiveLimit, ActorProofs!Machine!EffectiveLimit
<1>15. QED
  BY <1>1, <1>2, <1>3, <1>4, <1>5, <1>6, <1>7, <1>8, <1>9, <1>10, <1>11, <1>12, <1>13, <1>14

LEMMA SameActor ==
    /\ Actor!AInit <=> ActorProofs!AInit
    /\ [Actor!ANext]_actorVars <=> [ActorProofs!ANext]_(ActorProofs!avars)
    /\ Actor!ObeyedIsServed /\ Actor!LimitIsOnRecord <=>
         ActorProofs!ObeyedIsServed /\ ActorProofs!LimitIsOnRecord
<1>0. \A w : Actor!WholeWatts(w) = ActorProofs!WholeWatts(w)
  BY DEF Actor!WholeWatts, ActorProofs!WholeWatts
<1>1. Actor!AInit <=> ActorProofs!AInit
  BY <1>0 DEF Actor!AInit, Actor!Publish, Actor!LimitData, Actor!FailsafeValues,
         Actor!Machine!New, Actor!Machine!NoWrite, Actor!Machine!None,
         Actor!Machine!EffectiveLimit, ActorProofs!AInit, ActorProofs!Publish,
         ActorProofs!LimitData, ActorProofs!FailsafeValues, ActorProofs!Machine!New,
         ActorProofs!Machine!NoWrite, ActorProofs!Machine!None,
         ActorProofs!Machine!EffectiveLimit
<1>2. Actor!ANext <=> ActorProofs!ANext
  <2>1. /\ \A c : Actor!Publish(c) = ActorProofs!Publish(c)
        /\ \A log, entry : Actor!Record(log, entry) = ActorProofs!Record(log, entry)
    BY SameMachine, <1>0
       DEF Actor!Publish, Actor!LimitData, Actor!FailsafeValues, Actor!Record,
           ActorProofs!Publish, ActorProofs!LimitData, ActorProofs!FailsafeValues,
           ActorProofs!Record
  <2>2. Actor!Heartbeat <=> ActorProofs!Heartbeat
    BY SameMachine, <2>1 DEF Actor!Heartbeat, ActorProofs!Heartbeat
  <2>3. Actor!HandleTimeout <=> ActorProofs!HandleTimeout
    BY SameMachine, <2>1 DEF Actor!HandleTimeout, ActorProofs!HandleTimeout
  <2>4. Actor!Pass <=> ActorProofs!Pass
    BY SameMachine, <2>1 DEF Actor!Pass, ActorProofs!Pass
  <2>5. Actor!Drain <=> ActorProofs!Drain
    BY SameMachine, <2>1 DEF Actor!Drain, ActorProofs!Drain
  <2>6. \A w, b : Actor!DecideLimit(w, b) <=> ActorProofs!DecideLimit(w, b)
    BY SameMachine, <2>1 DEF Actor!DecideLimit, ActorProofs!DecideLimit
  <2>7. \A b : Actor!DecideUnreadable(b) <=> ActorProofs!DecideUnreadable(b)
    BY SameMachine, <2>1 DEF Actor!DecideUnreadable, ActorProofs!DecideUnreadable, Actor!Machine!NoWrite, ActorProofs!Machine!NoWrite,
           Actor!Machine!None, ActorProofs!Machine!None
  <2>8. \A w, d, b : Actor!DecideFailsafe(w, d, b) <=> ActorProofs!DecideFailsafe(w, d, b)
    BY SameMachine, <2>1, SMTT(30) DEF Actor!DecideFailsafe, ActorProofs!DecideFailsafe
  <2>9. \A b : Actor!Interrupt(b) <=> ActorProofs!Interrupt(b)
    BY SameMachine, <2>1 DEF Actor!Interrupt, ActorProofs!Interrupt, Actor!Machine!InterruptPermitted, ActorProofs!Machine!InterruptPermitted
  <2>10. QED
    BY <2>2, <2>3, <2>4, <2>5, <2>6, <2>7, <2>8, <2>9 DEF Actor!ANext, ActorProofs!ANext
<1>3. (UNCHANGED actorVars) <=> UNCHANGED ActorProofs!avars
  BY DEF actorVars, ActorProofs!avars
<1>4. Actor!ObeyedIsServed /\ Actor!LimitIsOnRecord <=>
        ActorProofs!ObeyedIsServed /\ ActorProofs!LimitIsOnRecord
  BY <1>0 DEF Actor!ObeyedIsServed, Actor!LimitIsOnRecord, Actor!Accepted,
         Actor!LimitData, Actor!Machine!EffectiveLimit, ActorProofs!ObeyedIsServed,
         ActorProofs!LimitIsOnRecord, ActorProofs!Accepted, ActorProofs!LimitData,
         ActorProofs!Machine!EffectiveLimit
<1>5. QED
  BY <1>1, <1>2, <1>3, <1>4

\* Limitation of power consumption and production: until a connection is lost only the
\* entity that may write the limit is listened to, and one that bound both features after
\* the last release is; and the limit the system obeys is the one it serves and records.
\* (actor.rs on_binding, follow_the_guards_heartbeat, BindingReleased, decide_limit)
THEOREM ObeyedAlwaysServed == PSpec => []ObeyedIsServed
<1> DEFINE I == /\ part = "binding" => ActorProofs!GIInv
                /\ part = "actor" => ActorProofs!AIInv
<1>1. ActorProofs!Nobody \notin {"a", "b"} /\ 1 \in Nat \ {0}
  BY DEF ActorProofs!Nobody
<1>2. PInit => I
  BY <1>1, SameBinding, SameActor, ActorProofs!GInitFound, ActorProofs!AInitServes DEF PInit
<1>3. I /\ [PNext]_pvars => I'
  BY <1>1, OnePartMoves, SameBinding, SameActor, ActorProofs!GNextFound, ActorProofs!ANextServes
<1>4. I => ObeyedIsServed
  BY <1>1, SameBinding, SameActor, ActorProofs!FoundShows, ActorProofs!ServesShows
     DEF ObeyedIsServed
<1>5. QED
  BY <1>2, <1>3, <1>4, PTL DEF PSpec

\* Either instance of the calendar is the same specification.
LEMMA SameCalendar ==
    /\ Calendar!TmInit <=> ActorProofs!Calendar!TmInit
    /\ [Calendar!TmNext]_timesVars
         <=> [ActorProofs!Calendar!TmNext]_(ActorProofs!Calendar!tmvars)
    /\ Calendar!CalendarIsRight <=> ActorProofs!Calendar!CalendarIsRight
    /\ Calendar!TextRoundTrips <=> ActorProofs!Calendar!TextRoundTrips
<1>1. /\ \A a, b : Calendar!Quotient(a, b) = ActorProofs!Calendar!Quotient(a, b)
      /\ \A n : Calendar!Magnitude(n) = ActorProofs!Calendar!Magnitude(n)
      /\ \A n : Calendar!Width(n) = ActorProofs!Calendar!Width(n)
  BY DEF Calendar!Quotient, ActorProofs!Calendar!Quotient, Calendar!Magnitude,
         ActorProofs!Calendar!Magnitude, Calendar!Width, ActorProofs!Calendar!Width
<1>2. /\ Calendar!None = ActorProofs!Calendar!None
      /\ \A v : Calendar!Some(v) = ActorProofs!Calendar!Some(v)
  BY DEF Calendar!None, ActorProofs!Calendar!None, Calendar!Some, ActorProofs!Calendar!Some
<1>3. \A a, b : Calendar!Remainder(a, b) = ActorProofs!Calendar!Remainder(a, b)
  BY <1>1 DEF Calendar!Remainder, ActorProofs!Calendar!Remainder
<1>4. \A y, m : Calendar!DaysInMonth(y, m) = ActorProofs!Calendar!DaysInMonth(y, m)
  BY <1>3 DEF Calendar!DaysInMonth, ActorProofs!Calendar!DaysInMonth,
              Calendar!IsLeapYear, ActorProofs!Calendar!IsLeapYear
<1>5. \A y, m, d : Calendar!DaysFromCivil(y, m, d) = ActorProofs!Calendar!DaysFromCivil(y, m, d)
  BY <1>1 DEF Calendar!DaysFromCivil, ActorProofs!Calendar!DaysFromCivil
<1>6. \A n : Calendar!CivilFromDays(n) = ActorProofs!Calendar!CivilFromDays(n)
  <2>1. /\ \A doe : Calendar!YearOfEra(doe) = ActorProofs!Calendar!YearOfEra(doe)
        /\ \A y, doy : Calendar!FromMarch(y, doy) = ActorProofs!Calendar!FromMarch(y, doy)
    BY DEF Calendar!YearOfEra, ActorProofs!Calendar!YearOfEra, Calendar!FromMarch,
           ActorProofs!Calendar!FromMarch
  <2>2. QED
    BY <1>1, <2>1 DEF Calendar!CivilFromDays, ActorProofs!Calendar!CivilFromDays
<1>7. \A d, s, n, o : Calendar!DateTime(d, s, n, o) = ActorProofs!Calendar!DateTime(d, s, n, o)
  BY DEF Calendar!DateTime, ActorProofs!Calendar!DateTime
<1>8. \A t, o : Calendar!UnixSecondsAt(t, o) = ActorProofs!Calendar!UnixSecondsAt(t, o)
  BY <1>5 DEF Calendar!UnixSecondsAt, ActorProofs!Calendar!UnixSecondsAt
<1>9. \A s : Calendar!FromUnixSeconds(s) = ActorProofs!Calendar!FromUnixSeconds(s)
  BY <1>1, <1>2, <1>3, <1>6, <1>7
     DEF Calendar!FromUnixSeconds, ActorProofs!Calendar!FromUnixSeconds
<1>10. \A t : Calendar!Display(t) = ActorProofs!Calendar!Display(t)
  BY <1>1 DEF Calendar!Display, ActorProofs!Calendar!Display
<1>11. \A x : Calendar!ParseXsDateTime(x) = ActorProofs!Calendar!ParseXsDateTime(x)
  BY <1>1, <1>2, <1>4, <1>5, <1>6
     DEF Calendar!ParseXsDateTime, ActorProofs!Calendar!ParseXsDateTime
<1>12. \A total, nanos : Calendar!Format(total, nanos) = ActorProofs!Calendar!Format(total, nanos)
  BY DEF Calendar!Format, ActorProofs!Calendar!Format, Calendar!Component,
         ActorProofs!Calendar!Component
<1>13. \A parts : Calendar!Sum(parts) = ActorProofs!Calendar!Sum(parts)
  BY DEF Calendar!Sum, ActorProofs!Calendar!Sum, Calendar!Seconds, ActorProofs!Calendar!Seconds
<1>14. \A parts : Calendar!Nanos(parts) = ActorProofs!Calendar!Nanos(parts)
  BY DEF Calendar!Nanos, ActorProofs!Calendar!Nanos
<1>15. \A text : Calendar!Parse(text) = ActorProofs!Calendar!Parse(text)
  BY <1>2, <1>13, <1>14 DEF Calendar!Parse, ActorProofs!Calendar!Parse
<1>16. \A d : Calendar!Tomorrow(d) = ActorProofs!Calendar!Tomorrow(d)
  BY DEF Calendar!Tomorrow, ActorProofs!Calendar!Tomorrow, Calendar!Length,
         ActorProofs!Calendar!Length, Calendar!MonthLength, ActorProofs!Calendar!MonthLength
<1>17. Calendar!TmInit <=> ActorProofs!Calendar!TmInit
  BY DEF Calendar!TmInit, ActorProofs!Calendar!TmInit
<1>18. [Calendar!TmNext]_timesVars
         <=> [ActorProofs!Calendar!TmNext]_(ActorProofs!Calendar!tmvars)
  BY <1>16 DEF Calendar!TmNext, ActorProofs!Calendar!TmNext, timesVars,
               ActorProofs!Calendar!tmvars
<1>19. Calendar!CalendarIsRight <=> ActorProofs!Calendar!CalendarIsRight
  <2>1. Calendar!Near <=> ActorProofs!Calendar!Near
    BY DEF Calendar!Near, ActorProofs!Calendar!Near
  <2>2. QED
    BY <1>2, <1>5, <1>6, <1>7, <1>8, <1>9, <2>1
       DEF Calendar!CalendarIsRight, ActorProofs!Calendar!CalendarIsRight
<1>20. Calendar!TextRoundTrips <=> ActorProofs!Calendar!TextRoundTrips
  BY <1>1, <1>2, <1>7, <1>10, <1>11, <1>12, <1>15, <1>16
     DEF Calendar!TextRoundTrips, ActorProofs!Calendar!TextRoundTrips
<1>21. QED
  BY <1>17, <1>18, <1>19, <1>20

\* The days the run starts from are days with their numbers.
LEMMA StartsAreCounted == ActorProofs!TimesConstants
<1>1. ASSUME NEW s \in MCStarts
      PROVE  /\ s.date \in ActorProofs!Dates /\ s.days = ActorProofs!Number(s.date)
             /\ s.days \in Int /\ 37 * s.days + 37 * MCTurns <= MCMaxSeconds
             /\ -37 * s.days <= MCMaxSeconds
  <2>1. \/ s.date = [year |-> 1970, month |-> 1, day |-> 1] /\ s.days = 0
        \/ s.date = [year |-> -30, month |-> 1, day |-> 1] /\ s.days = -730485
        \/ s.date = [year |-> 1570, month |-> 1, day |-> 1] /\ s.days = -146097
        \/ s.date = [year |-> 2070, month |-> 1, day |-> 1] /\ s.days = 36525
    BY <1>1 DEF MCStarts, MCStart
  <2>2. /\ s.date \in [year : Int, month : 1 .. 12, day : 1 .. 31]
        /\ s.date.month = 1 /\ s.date.day = 1
    BY <2>1
  <2>3. s.date \in ActorProofs!Dates
    BY <2>2 DEF ActorProofs!Dates, ActorProofs!Calendar!Length,
                ActorProofs!Calendar!MonthLength
  <2>4. s.days = ActorProofs!Number(s.date)
    <3> DEFINE New(y) == ActorProofs!Calendar!DaysFromCivil(y, 1, 1)
    <3>1. New(1970) = 0
      BY SMTT(30) DEF ActorProofs!Calendar!DaysFromCivil, ActorProofs!Calendar!Quotient
    <3>2. New(-30) = -730485
      BY SMTT(30) DEF ActorProofs!Calendar!DaysFromCivil, ActorProofs!Calendar!Quotient
    <3>3. New(1570) = -146097
      BY SMTT(30) DEF ActorProofs!Calendar!DaysFromCivil, ActorProofs!Calendar!Quotient
    <3>4. New(2070) = 36525
      BY SMTT(30) DEF ActorProofs!Calendar!DaysFromCivil, ActorProofs!Calendar!Quotient
    <3> HIDE DEF New
    <3>5. ActorProofs!Number(s.date) = New(s.date.year)
      BY <2>2 DEF ActorProofs!Number, New
    <3>6. QED
      BY <2>1, <3>1, <3>2, <3>3, <3>4, <3>5
  <2>5. /\ s.days \in Int /\ 37 * s.days + 37 * MCTurns <= MCMaxSeconds
        /\ -37 * s.days <= MCMaxSeconds
    BY <2>1 DEF MCTurns, MCMaxSeconds
  <2>6. QED
    BY <2>3, <2>4, <2>5
<1>2. MCTurns \in Nat /\ MCMaxSeconds \in Nat /\ MCMaxSeconds >= 120
  BY DEF MCTurns, MCMaxSeconds
<1>3. QED
  BY <1>1, <1>2 DEF ActorProofs!TimesConstants

\* Dates, instants and durations: calendar and count agree wherever the calendar is
\* turned to, and what is written of a date, a time or a duration is read back.
\* (time.rs days_from_civil, civil_from_days, from_unix_seconds, unix_seconds_at,
\* parse_xs_date_time, format_iso8601_duration, parse_iso8601_duration)
THEOREM TimesAlwaysRight == PSpec => []TimesAreRight
<1> DEFINE I == part = "times" => ActorProofs!Turned
<1>1. PInit => I
  BY StartsAreCounted, SameCalendar, ActorProofs!InitTurned DEF PInit
<1>2. I /\ [PNext]_pvars => I'
  BY OnePartMoves, StartsAreCounted, SameCalendar, ActorProofs!NextTurned
<1>3. I => TimesAreRight
  BY StartsAreCounted, SameCalendar, ActorProofs!TurnedIsRight, ActorProofs!TurnedIsRead
     DEF TimesAreRight
<1>4. QED
  BY <1>1, <1>2, <1>3, PTL DEF PSpec

\* The two instances of the car are the same specification.
LEMMA SameCar ==
    /\ Ev!EvInit <=> ActorProofs!Car!EvInit
    /\ [Ev!EvNext]_evVars <=> [ActorProofs!Car!EvNext]_(ActorProofs!Car!evars)
    /\ Ev!EvTypeOK <=> ActorProofs!Car!EvTypeOK
    /\ Ev!AppliedIsHeld <=> ActorProofs!Car!AppliedIsHeld
    /\ Ev!PublishedIsInForce <=> ActorProofs!Car!PublishedIsInForce
<1>1. /\ Ev!NoAmps = ActorProofs!Car!NoAmps
      /\ Ev!None = ActorProofs!Car!None
      /\ Ev!Unset = ActorProofs!Car!Unset
      /\ Ev!Everything = ActorProofs!Car!Everything
      /\ \A a : Ev!Set(a) = ActorProofs!Car!Set(a)
      /\ \A a : Ev!Named(a) = ActorProofs!Car!Named(a)
      /\ \A i : Ev!PhaseOf(i) = ActorProofs!Car!PhaseOf(i)
  BY DEF Ev!NoAmps, ActorProofs!Car!NoAmps, Ev!None, ActorProofs!Car!None, Ev!Unset,
         ActorProofs!Car!Unset, Ev!Everything, ActorProofs!Car!Everything, Ev!Set,
         ActorProofs!Car!Set, Ev!Named, ActorProofs!Car!Named, Ev!PhaseOf,
         ActorProofs!Car!PhaseOf
<1>2. \A a, b : Ev!Clamped(a, b) = ActorProofs!Car!Clamped(a, b)
  BY DEF Ev!Clamped, ActorProofs!Car!Clamped, Ev!Clamp, ActorProofs!Car!Clamp, Ev!Narrowest,
         ActorProofs!Car!Narrowest, Ev!NoAmps, ActorProofs!Car!NoAmps
<1>3. /\ \A k, p : Ev!LimitsFor(k, p) = ActorProofs!Car!LimitsFor(k, p)
      /\ \A k : Ev!ResolveBand(k) = ActorProofs!Car!ResolveBand(k)
      /\ \A k : Ev!ReadPhases(k) = ActorProofs!Car!ReadPhases(k)
  BY DEF Ev!LimitsFor, ActorProofs!Car!LimitsFor, Ev!Learn, ActorProofs!Car!Learn,
         Ev!LimitDescriptions, ActorProofs!Car!LimitDescriptions, Ev!Parameters,
         ActorProofs!Car!Parameters, Ev!ParameterDescriptions,
         ActorProofs!Car!ParameterDescriptions, Ev!ResolveBand, ActorProofs!Car!ResolveBand,
         Ev!PermittedValueSets, ActorProofs!Car!PermittedValueSets, Ev!ReadPhases,
         ActorProofs!Car!ReadPhases
<1>4. /\ \A a, e, k : Ev!LimitData(a, e, k) = ActorProofs!Car!LimitData(a, e, k)
      /\ \A s, k : Ev!Deactivated(s, k) = ActorProofs!Car!Deactivated(s, k)
  BY DEF Ev!LimitData, ActorProofs!Car!LimitData, Ev!Deactivated,
         ActorProofs!Car!Deactivated, Ev!Named, ActorProofs!Car!Named, Ev!NoAmps,
         ActorProofs!Car!NoAmps, Ev!LimitsFor, ActorProofs!Car!LimitsFor, Ev!Learn,
         ActorProofs!Car!Learn, Ev!LimitDescriptions, ActorProofs!Car!LimitDescriptions,
         Ev!Parameters, ActorProofs!Car!Parameters, Ev!ParameterDescriptions,
         ActorProofs!Car!ParameterDescriptions
<1>5. \A k : Ev!IsKnown(k) <=> ActorProofs!Car!IsKnown(k)
  BY <1>3 DEF Ev!IsKnown, ActorProofs!Car!IsKnown
<1>6. \A c : Ev!Source(c) = ActorProofs!Car!Source(c)
  BY DEF Ev!Source, ActorProofs!Car!Source, Ev!None, ActorProofs!Car!None
<1>7. \A c : Ev!Published(c) = ActorProofs!Car!Published(c)
  BY <1>1, <1>4, <1>6 DEF Ev!Published, ActorProofs!Car!Published
<1>8. /\ \A l : Ev!ReadLimitWrite(l) = ActorProofs!Car!ReadLimitWrite(l)
      /\ \A l : Ev!SawOne(l) <=> ActorProofs!Car!SawOne(l)
      /\ \A l : Ev!Resolved(l) = ActorProofs!Car!Resolved(l)
  BY DEF Ev!ReadLimitWrite, ActorProofs!Car!ReadLimitWrite, Ev!NoAmps,
         ActorProofs!Car!NoAmps, Ev!SawOne, ActorProofs!Car!SawOne, Ev!PhaseOf,
         ActorProofs!Car!PhaseOf, Ev!Resolved, ActorProofs!Car!Resolved
<1>9. \A c, a : Ev!OnLimit(c, a) = ActorProofs!Car!OnLimit(c, a)
  BY DEF Ev!OnLimit, ActorProofs!Car!OnLimit, Ev!Set, ActorProofs!Car!Set, Ev!Named,
         ActorProofs!Car!Named, Ev!Clamped, ActorProofs!Car!Clamped, Ev!Clamp,
         ActorProofs!Car!Clamp, Ev!Narrowest, ActorProofs!Car!Narrowest, Ev!NoAmps,
         ActorProofs!Car!NoAmps, Ev!None, ActorProofs!Car!None
<1>10. \A c : Ev!Decided(c) = ActorProofs!Car!Decided(c)
  BY DEF Ev!Decided, ActorProofs!Car!Decided, Ev!OnLimit, ActorProofs!Car!OnLimit, Ev!Set,
         ActorProofs!Car!Set, Ev!Named, ActorProofs!Car!Named, Ev!Clamped,
         ActorProofs!Car!Clamped, Ev!Clamp, ActorProofs!Car!Clamp, Ev!Narrowest,
         ActorProofs!Car!Narrowest, Ev!NoAmps, ActorProofs!Car!NoAmps, Ev!None,
         ActorProofs!Car!None, Ev!SawOne, ActorProofs!Car!SawOne, Ev!PhaseOf,
         ActorProofs!Car!PhaseOf, Ev!ReadLimitWrite, ActorProofs!Car!ReadLimitWrite,
         Ev!Resolved, ActorProofs!Car!Resolved
<1>11. \A c : Ev!Settle(c) <=> ActorProofs!Car!Settle(c)
  BY <1>6, <1>7 DEF Ev!Settle, ActorProofs!Car!Settle, Ev!Settled, ActorProofs!Car!Settled
<1>12. \A s : Ev!Decide(s) <=> ActorProofs!Car!Decide(s)
  BY <1>1, <1>6, <1>7, <1>10 DEF Ev!Decide, ActorProofs!Car!Decide
<1>13. /\ \A g : Ev!Asked(g) = ActorProofs!Car!Asked(g)
       /\ \A g : Ev!Due(g) <=> ActorProofs!Car!Due(g)
  BY <1>2, <1>3, <1>5 DEF Ev!Asked, ActorProofs!Car!Asked, Ev!Due, ActorProofs!Car!Due
<1>14. \A g : Ev!Payload(g) = ActorProofs!Car!Payload(g)
  BY DEF Ev!Payload, ActorProofs!Car!Payload, Ev!Asked, ActorProofs!Car!Asked, Ev!Clamped,
         ActorProofs!Car!Clamped, Ev!Clamp, ActorProofs!Car!Clamp, Ev!Narrowest,
         ActorProofs!Car!Narrowest, Ev!Named, ActorProofs!Car!Named, Ev!NoAmps,
         ActorProofs!Car!NoAmps, Ev!ResolveBand, ActorProofs!Car!ResolveBand,
         Ev!PermittedValueSets, ActorProofs!Car!PermittedValueSets, Ev!ReadPhases,
         ActorProofs!Car!ReadPhases, Ev!LimitData, ActorProofs!Car!LimitData,
         Ev!Deactivated, ActorProofs!Car!Deactivated, Ev!LimitsFor,
         ActorProofs!Car!LimitsFor, Ev!Learn, ActorProofs!Car!Learn, Ev!LimitDescriptions,
         ActorProofs!Car!LimitDescriptions, Ev!Parameters, ActorProofs!Car!Parameters,
         Ev!ParameterDescriptions, ActorProofs!Car!ParameterDescriptions
<1>15. \A g, m : Ev!WriteIfDue(g, m) <=> ActorProofs!Car!WriteIfDue(g, m)
  <2> TAKE g, m
  <2> DEFINE asking == Ev!Set(Ev!Asked(g))
             load == Ev!Payload(g)
  <2>1. ActorProofs!Car!Set(ActorProofs!Car!Asked(g)) = asking
    BY <1>1, <1>13
  <2>2. ActorProofs!Car!Payload(g) = load /\ (Ev!Due(g) <=> ActorProofs!Car!Due(g))
    BY <1>13, <1>14
  <2> HIDE DEF asking, load
  <2>3. Ev!WriteIfDue(g, m) <=>
          IF ~Ev!Due(g) \/ sent = 2
          THEN guard' = g /\ toCar' = toCar \o m /\ UNCHANGED sent
          ELSE /\ sent' = sent + 1
               /\ guard' = [g EXCEPT !.outstanding = sent + 1, !.asking = asking]
               /\ toCar' = toCar \o m
                           \o <<[kind |-> "write", id |-> sent + 1, entries |-> load]>>
    BY DEF Ev!WriteIfDue, asking, load
  <2>4. ActorProofs!Car!WriteIfDue(g, m) <=>
          IF ~Ev!Due(g) \/ sent = 2
          THEN guard' = g /\ toCar' = toCar \o m /\ UNCHANGED sent
          ELSE /\ sent' = sent + 1
               /\ guard' = [g EXCEPT !.outstanding = sent + 1, !.asking = asking]
               /\ toCar' = toCar \o m
                           \o <<[kind |-> "write", id |-> sent + 1, entries |-> load]>>
    BY <2>1, <2>2 DEF ActorProofs!Car!WriteIfDue
  <2> QED BY <2>3, <2>4
<1>16. \A g : Ev!ReportReady(g) <=> ActorProofs!Car!ReportReady(g)
  BY <1>3, <1>5, <1>15 DEF Ev!ReportReady, ActorProofs!Car!ReportReady
<1>17. Ev!NewGuard = ActorProofs!Car!NewGuard
  BY <1>1 DEF Ev!NewGuard, ActorProofs!Car!NewGuard
<1>18. /\ Ev!CarTimeout <=> ActorProofs!Car!CarTimeout
       /\ Ev!HearBeat <=> ActorProofs!Car!HearBeat
       /\ Ev!HearState <=> ActorProofs!Car!HearState
       /\ Ev!HearWrite <=> ActorProofs!Car!HearWrite
  BY <1>1, <1>11, <1>12 DEF Ev!CarTimeout, ActorProofs!Car!CarTimeout, Ev!HearBeat,
                            ActorProofs!Car!HearBeat, Ev!HearState,
                            ActorProofs!Car!HearState, Ev!HearWrite,
                            ActorProofs!Car!HearWrite
<1>19. /\ Ev!Reattach <=> ActorProofs!Car!Reattach
       /\ Ev!GuardTimeout <=> ActorProofs!Car!GuardTimeout
       /\ Ev!GiveUp <=> ActorProofs!Car!GiveUp
       /\ Ev!EvTick <=> ActorProofs!Car!EvTick
  BY <1>1, <1>15, <1>17 DEF Ev!Reattach, ActorProofs!Car!Reattach, Ev!Attach,
                            ActorProofs!Car!Attach, Ev!GuardTimeout,
                            ActorProofs!Car!GuardTimeout, Ev!GiveUp, ActorProofs!Car!GiveUp,
                            Ev!EvTick, ActorProofs!Car!EvTick
<1>20. /\ Ev!Resolve <=> ActorProofs!Car!Resolve
       /\ \A b : Ev!SetFailed(b) <=> ActorProofs!Car!SetFailed(b)
       /\ \A a : Ev!Require(a) <=> ActorProofs!Car!Require(a)
       /\ \A d : Ev!OpeningUnanswered(d) <=> ActorProofs!Car!OpeningUnanswered(d)
  BY <1>1 DEF Ev!Resolve, ActorProofs!Car!Resolve, Ev!SetFailed, ActorProofs!Car!SetFailed,
              Ev!Require, ActorProofs!Car!Require, Ev!OpeningUnanswered,
              ActorProofs!Car!OpeningUnanswered
<1>21. /\ \A b : Ev!BindingAnswered(b) <=> ActorProofs!Car!BindingAnswered(b)
       /\ \A d : Ev!DescriptionLearned(d) <=> ActorProofs!Car!DescriptionLearned(d)
  BY <1>16 DEF Ev!BindingAnswered, ActorProofs!Car!BindingAnswered, Ev!DescriptionLearned,
               ActorProofs!Car!DescriptionLearned
<1>22. Ev!EvInit <=> ActorProofs!Car!EvInit
  BY <1>1, <1>4, <1>17 DEF Ev!EvInit, ActorProofs!Car!EvInit
<1>23. Ev!EvNext <=> ActorProofs!Car!EvNext
  BY <1>1, <1>18, <1>19, <1>20, <1>21 DEF Ev!EvNext, ActorProofs!Car!EvNext
<1>24. (UNCHANGED evVars) <=> UNCHANGED ActorProofs!Car!evars
  BY DEF evVars, ActorProofs!Car!evars
<1>25. Ev!EvTypeOK <=> ActorProofs!Car!EvTypeOK
  BY <1>1 DEF Ev!EvTypeOK, ActorProofs!Car!EvTypeOK, Ev!Currents, ActorProofs!Car!Currents
<1>26. /\ Ev!AppliedIsHeld <=> ActorProofs!Car!AppliedIsHeld
       /\ Ev!PublishedIsInForce <=> ActorProofs!Car!PublishedIsInForce
  BY <1>1, <1>6 DEF Ev!AppliedIsHeld, ActorProofs!Car!AppliedIsHeld, Ev!InStep,
                    ActorProofs!Car!InStep, Ev!Clamp, ActorProofs!Car!Clamp,
                    Ev!PublishedIsInForce, ActorProofs!Car!PublishedIsInForce,
                    Ev!InForceIsPublished, ActorProofs!Car!InForceIsPublished
<1>27. QED
  BY <1>22, <1>23, <1>24, <1>25, <1>26

\* The car of the run: two phases, numbered apart, and a band of two currents.
LEMMA CarIsOrdinary == ActorProofs!CarConstants
BY DEF ActorProofs!CarConstants, MCAmperes

\* The limit a guard takes as applied is the one the car has, unless the car could not
\* store it or the guard gave a write up; what the car publishes as active is in force, and
\* what is in force is published as active unless a write met a silence that nobody had
\* noticed. (charging.rs resolve, decide, settle, publish)
THEOREM ChargingAlwaysAgreed == PSpec => []ChargingIsAgreed
<1> DEFINE I == part = "ev" => ActorProofs!EvIInv
<1>1. PInit => I
  BY CarIsOrdinary, SameCar, ActorProofs!EvInitAgrees DEF PInit
<1>2. I /\ [PNext]_pvars => I'
  BY OnePartMoves, CarIsOrdinary, SameCar, ActorProofs!EvNextAgrees
<1>3. I => ChargingIsAgreed
  BY CarIsOrdinary, SameCar, ActorProofs!AgreedIsHeld DEF ChargingIsAgreed
<1>4. QED
  BY <1>1, <1>2, <1>3, PTL DEF PSpec

\* The two instances of the device are the same specification.
LEMMA SameDevice ==
    /\ Device!DInit <=> ActorProofs!Mirror!DInit
    /\ [Device!DNext]_deviceVars <=> [ActorProofs!Mirror!DNext]_(ActorProofs!Mirror!dvars)
    /\ Device!TreeIsMirrored <=> ActorProofs!Mirror!TreeIsMirrored
<1>1. /\ \A q, p : Device!Under(q, p) <=> ActorProofs!Mirror!Under(q, p)
      /\ \A t, P : Device!Entries(t, P) = ActorProofs!Mirror!Entries(t, P)
      /\ Device!EmptyDocument = ActorProofs!Mirror!EmptyDocument
      /\ \A d : Device!RemoteOf(d) = ActorProofs!Mirror!RemoteOf(d)
  BY DEF Device!Under, ActorProofs!Mirror!Under, Device!IsPrefix,
         ActorProofs!Mirror!IsPrefix, Device!Entries, ActorProofs!Mirror!Entries,
         Device!EmptyDocument, ActorProofs!Mirror!EmptyDocument, Device!RemoteOf,
         ActorProofs!Mirror!RemoteOf
<1>2. \A a, b : Device!Joined(a, b) = ActorProofs!Mirror!Joined(a, b)
  BY DEF Device!Joined, ActorProofs!Mirror!Joined, Device!Cardinality,
         ActorProofs!Mirror!Cardinality
<1>3. /\ \A t : Device!DetailedDiscovery(t) = ActorProofs!Mirror!DetailedDiscovery(t)
      /\ \A t, P : Device!EntitiesAdded(t, P) = ActorProofs!Mirror!EntitiesAdded(t, P)
      /\ \A t, P : Device!EntitiesModified(t, P) = ActorProofs!Mirror!EntitiesModified(t, P)
      /\ \A P : Device!EntitiesRemoved(P) = ActorProofs!Mirror!EntitiesRemoved(P)
  BY <1>1 DEF Device!DetailedDiscovery, ActorProofs!Mirror!DetailedDiscovery,
              Device!EntitiesAdded, ActorProofs!Mirror!EntitiesAdded,
              Device!EntitiesModified, ActorProofs!Mirror!EntitiesModified,
              Device!EntitiesRemoved, ActorProofs!Mirror!EntitiesRemoved
<1>4. \A d, u : Device!Absorbed(d, u) = ActorProofs!Mirror!Absorbed(d, u)
  BY DEF Device!Absorbed, ActorProofs!Mirror!Absorbed, Device!MergeDetailedDiscovery,
         ActorProofs!Mirror!MergeDetailedDiscovery, Device!Joined,
         ActorProofs!Mirror!Joined, Device!Cardinality, ActorProofs!Mirror!Cardinality,
         Device!Under, ActorProofs!Mirror!Under, Device!IsPrefix,
         ActorProofs!Mirror!IsPrefix
<1>5. /\ \A f : Device!Replied(f) <=> ActorProofs!Mirror!Replied(f)
      /\ \A f : Device!Answered(f) = ActorProofs!Mirror!Answered(f)
      /\ Device!Change <=> ActorProofs!Mirror!Change
  BY DEF Device!Replied, ActorProofs!Mirror!Replied, Device!Answered,
         ActorProofs!Mirror!Answered, Device!Change, ActorProofs!Mirror!Change
<1>6. \A u : Device!NotifyDiscoveryChange(u) <=> ActorProofs!Mirror!NotifyDiscoveryChange(u)
  BY <1>5 DEF Device!NotifyDiscoveryChange, ActorProofs!Mirror!NotifyDiscoveryChange
<1>7. /\ \A p, fs : Device!AddEntity(p, fs) <=> ActorProofs!Mirror!AddEntity(p, fs)
      /\ \A p, fs : Device!ModifyEntity(p, fs) <=> ActorProofs!Mirror!ModifyEntity(p, fs)
  BY <1>3, <1>5, <1>6 DEF Device!AddEntity, ActorProofs!Mirror!AddEntity,
                          Device!ModifyEntity, ActorProofs!Mirror!ModifyEntity
<1>8. \A p : Device!RemoveEntity(p) <=> ActorProofs!Mirror!RemoveEntity(p)
  BY <1>5 DEF Device!RemoveEntity, ActorProofs!Mirror!RemoveEntity, Device!EntitiesRemoved,
              ActorProofs!Mirror!EntitiesRemoved, Device!EmptyDocument,
              ActorProofs!Mirror!EmptyDocument, Device!Under, ActorProofs!Mirror!Under,
              Device!IsPrefix, ActorProofs!Mirror!IsPrefix
<1>9. /\ \A f : Device!AnswerOpeningRead(f) <=> ActorProofs!Mirror!AnswerOpeningRead(f)
      /\ Device!GrantSubscription <=> ActorProofs!Mirror!GrantSubscription
  BY <1>3 DEF Device!AnswerOpeningRead, ActorProofs!Mirror!AnswerOpeningRead,
              Device!GrantSubscription, ActorProofs!Mirror!GrantSubscription
<1>10. /\ Device!ReceiveDiscovery <=> ActorProofs!Mirror!ReceiveDiscovery
       /\ Device!ReceiveUseCases <=> ActorProofs!Mirror!ReceiveUseCases
  BY <1>4, <1>5 DEF Device!ReceiveDiscovery, ActorProofs!Mirror!ReceiveDiscovery,
                    Device!ReceiveUseCases, ActorProofs!Mirror!ReceiveUseCases,
                    Device!RemoteOf, ActorProofs!Mirror!RemoteOf
<1>11. Device!Reconnect <=> ActorProofs!Mirror!Reconnect
  BY <1>1, <1>5 DEF Device!Reconnect, ActorProofs!Mirror!Reconnect
<1>12. Device!DInit <=> ActorProofs!Mirror!DInit
  BY <1>1 DEF Device!DInit, ActorProofs!Mirror!DInit
<1>13. Device!DNext <=> ActorProofs!Mirror!DNext
  BY <1>7, <1>8, <1>9, <1>10, <1>11 DEF Device!DNext, ActorProofs!Mirror!DNext
<1>14. (UNCHANGED deviceVars) <=> UNCHANGED ActorProofs!Mirror!dvars
  BY DEF deviceVars, ActorProofs!Mirror!dvars
<1>15. Device!TreeIsMirrored <=> ActorProofs!Mirror!TreeIsMirrored
  BY DEF Device!TreeIsMirrored, ActorProofs!Mirror!TreeIsMirrored, Device!Settled,
         ActorProofs!Mirror!Settled
<1>16. QED
  BY <1>12, <1>13, <1>14, <1>15

\* The device of the run: three paths of two features, and room for all of them.
LEMMA DeviceFits == ActorProofs!DeviceConstants
<1> DEFINE P == {<<1>>, <<1, 1>>, <<2>>}
           F == {1, 2}
<1>1. P \subseteq Seq(Nat) /\ <<1>> \in P /\ F \subseteq Nat
  OBVIOUS
<1>2. /\ ActorProofs!IsFiniteSet(P) /\ ActorProofs!Cardinality(P) <= 3
      /\ ActorProofs!Cardinality(P) \in Nat
  <2> DEFINE a == <<1>>
             b == <<1, 1>>
             c == <<2>>
  <2>1. P = ({a} \cup {b}) \cup {c}
    OBVIOUS
  <2> HIDE DEF a, b, c
  <2>2. ActorProofs!IsFiniteSet({a}) /\ ActorProofs!Cardinality({a}) = 1
    BY ActorProofs!FS_Singleton
  <2>3. /\ ActorProofs!IsFiniteSet({a} \cup {b})
        /\ ActorProofs!Cardinality({a} \cup {b}) =
             IF b \in {a} THEN ActorProofs!Cardinality({a}) ELSE ActorProofs!Cardinality({a}) + 1
    BY ONLY <2>2, ActorProofs!FS_AddElement
  <2> DEFINE S == {a} \cup {b}
  <2>4. ActorProofs!IsFiniteSet(S) /\ ActorProofs!Cardinality(S) \in {1, 2}
    BY ONLY <2>2, <2>3
  <2> HIDE DEF S
  <2>5. /\ ActorProofs!IsFiniteSet(S \cup {c})
        /\ ActorProofs!Cardinality(S \cup {c}) =
             IF c \in S THEN ActorProofs!Cardinality(S) ELSE ActorProofs!Cardinality(S) + 1
    BY ONLY <2>4, ActorProofs!FS_AddElement
  <2>6. ActorProofs!IsFiniteSet(S \cup {c}) /\ ActorProofs!Cardinality(S \cup {c}) \in {1, 2, 3}
    BY ONLY <2>4, <2>5
  <2>7. P = S \cup {c}
    BY <2>1 DEF S
  <2>8. QED
    BY <2>6, <2>7
<1>3. /\ ActorProofs!IsFiniteSet(F) /\ ActorProofs!Cardinality(F) <= 2
      /\ ActorProofs!Cardinality(F) \in Nat
  <2>1. F = {1} \cup {2}
    OBVIOUS
  <2>2. ActorProofs!IsFiniteSet({1}) /\ ActorProofs!Cardinality({1}) = 1
    BY ActorProofs!FS_Singleton
  <2>3. /\ ActorProofs!IsFiniteSet({1} \cup {2})
        /\ ActorProofs!Cardinality({1} \cup {2}) =
             IF 2 \in {1} THEN ActorProofs!Cardinality({1}) ELSE ActorProofs!Cardinality({1}) + 1
    BY ONLY <2>2, ActorProofs!FS_AddElement
  <2>4. QED
    BY <2>1, <2>2, <2>3
<1>4. ActorProofs!Cardinality(P \X F) <= 6
  <2> HIDE DEF P, F
  <2>1. ActorProofs!Cardinality(P \X F) = ActorProofs!Cardinality(P) * ActorProofs!Cardinality(F)
    BY <1>2, <1>3, ActorProofs!FS_Product
  <2>2. \A m, n \in Nat : m <= 3 /\ n <= 2 => m * n <= 6
    <3>1. \A m \in Nat : m <= 3 => m = 0 \/ m = 1 \/ m = 2 \/ m = 3
      OBVIOUS
    <3>2. QED
      BY <3>1
  <2>3. QED
    BY <1>2, <1>3, <2>1, <2>2
<1>5. QED
  BY <1>1, <1>2, <1>3, <1>4 DEF ActorProofs!DeviceConstants

\* The client's picture of the device is the device. (discovery.rs
\* merge_detailed_discovery; Engine::add_entity, modify_entity, remove_entity)
THEOREM TreeAlwaysMirrored == PSpec => []TreeIsMirrored
<1> DEFINE I == part = "device" => ActorProofs!Mirrored
<1>1. PInit => I
  BY DeviceFits, SameDevice, ActorProofs!DInitMirrors DEF PInit
<1>2. I /\ [PNext]_pvars => I'
  BY OnePartMoves, DeviceFits, SameDevice, ActorProofs!DNextMirrors
<1>3. I => TreeIsMirrored
  BY SameDevice, ActorProofs!MirroredIsSeen DEF TreeIsMirrored
<1>4. QED
  BY <1>1, <1>2, <1>3, PTL DEF PSpec

\* The two instances of the vocabularies are the same specification.
LEMMA SameWords ==
    /\ Words!UInit <=> ActorProofs!Words!UInit
    /\ [Words!UNext]_wordsVars <=> [ActorProofs!Words!UNext]_(ActorProofs!Words!unitVars)
    /\ Words!MeaningIsKept <=> ActorProofs!Words!MeaningIsKept
<1>1. Words!Measurable = ActorProofs!Words!Measurable
  <2>1. /\ \A q : Words!total(q) = ActorProofs!Words!total(q)
        /\ \A q : Words!unphased(q) = ActorProofs!Words!unphased(q)
        /\ \A q, p : Words!on(q, p) = ActorProofs!Words!on(q, p)
    BY Zenon DEF Words!total, ActorProofs!Words!total, Words!on, ActorProofs!Words!on,
                 Words!unphased, ActorProofs!Words!unphased, Words!Measurand,
                 ActorProofs!Words!Measurand, Words!Abc, ActorProofs!Words!Abc,
                 Words!NoPhases, ActorProofs!Words!NoPhases
<2>2. /\ Words!WholeConnection = ActorProofs!Words!WholeConnection
        /\ Words!ByPhase = ActorProofs!Words!ByPhase
        /\ Words!Phaseless = ActorProofs!Words!Phaseless
    BY Zenon DEF Words!WholeConnection, ActorProofs!Words!WholeConnection, Words!ByPhase,
                 ActorProofs!Words!ByPhase, Words!Phaseless, ActorProofs!Words!Phaseless
<2>3. QED
    BY <2>1, <2>2 DEF Words!Measurable, ActorProofs!Words!Measurable
<1>2. ASSUME NEW n, NEW m
      PROVE  Words!scope_of(n, m) = ActorProofs!Words!scope_of(n, m)
  BY Zenon DEF Words!scope_of, ActorProofs!Words!scope_of, Words!grid_scope_type,
               ActorProofs!Words!grid_scope_type, Words!scope_type,
               ActorProofs!Words!scope_type, Words!is_total, ActorProofs!Words!is_total,
               Words!PowerScope, ActorProofs!Words!PowerScope, Words!TotalScope,
               ActorProofs!Words!TotalScope, Words!OtherScope, ActorProofs!Words!OtherScope,
               Words!Abc, ActorProofs!Words!Abc, Words!NoPhases, ActorProofs!Words!NoPhases
<1>3. ASSUME NEW scope
      PROVE  /\ Words!quantity_of(scope) = ActorProofs!Words!quantity_of(scope)
             /\ Words!phasing_of(scope) = ActorProofs!Words!phasing_of(scope)
  BY Zenon DEF Words!quantity_of, ActorProofs!Words!quantity_of, Words!QuantityNamed,
               ActorProofs!Words!QuantityNamed, Words!phasing_of,
               ActorProofs!Words!phasing_of, Words!ScopesByPhase,
               ActorProofs!Words!ScopesByPhase, Words!PhaselessScopes,
               ActorProofs!Words!PhaselessScopes, Words!Abc, ActorProofs!Words!Abc,
               Words!NoPhases, ActorProofs!Words!NoPhases, Words!Unknown,
               ActorProofs!Words!Unknown
<1>4. ASSUME NEW i, NEW q, NEW p
      PROVE  Words!learn(i, q, p) = ActorProofs!Words!learn(i, q, p)
  BY Zenon DEF Words!learn, ActorProofs!Words!learn, Words!Unknown,
               ActorProofs!Words!Unknown
<1>5. /\ Words!NothingKnown = ActorProofs!Words!NothingKnown
      /\ \A k : Words!measurand_of(k) = ActorProofs!Words!measurand_of(k)
  BY Zenon DEF Words!NothingKnown, ActorProofs!Words!NothingKnown, Words!measurand_of,
               ActorProofs!Words!measurand_of, Words!Measurand, ActorProofs!Words!Measurand,
               Words!Unknown, ActorProofs!Words!Unknown
<1>6. ASSUME NEW m PROVE Words!Add(m) <=> ActorProofs!Words!Add(m)
  BY Zenon, <1>5 DEF Words!Add, ActorProofs!Words!Add
<1>7. ASSUME NEW function
      PROVE  Words!Describe(function) <=> ActorProofs!Words!Describe(function)
  <2> DEFINE Learnt(i, scope) ==
               Words!learn(i, Words!quantity_of(scope),
                           IF function = "descriptions" THEN Words!phasing_of(scope)
                           ELSE slots[i].phases)
             Theirs(i, scope) ==
               ActorProofs!Words!learn(i, ActorProofs!Words!quantity_of(scope),
                           IF function = "descriptions"
                           THEN ActorProofs!Words!phasing_of(scope)
                           ELSE slots[i].phases)
  <2>1. ASSUME NEW i, NEW scope PROVE Learnt(i, scope) = Theirs(i, scope)
    BY <1>3, <1>4
  <2>2. [i \in DOMAIN slots |-> Learnt(i, Words!scope_of(naming, slots[i]))]
          = [i \in DOMAIN slots |-> Theirs(i, ActorProofs!Words!scope_of(naming, slots[i]))]
    <3> HIDE DEF Learnt, Theirs
    <3> QED BY <1>2, <2>1
  <2>3. QED
    BY Zenon, <2>2 DEF Words!Describe, ActorProofs!Words!Describe
<1>8. Words!Apply <=> ActorProofs!Words!Apply
  BY Zenon DEF Words!Apply, ActorProofs!Words!Apply, Words!Unknown,
               ActorProofs!Words!Unknown, Words!NothingKnown,
               ActorProofs!Words!NothingKnown, Words!measurand_of,
               ActorProofs!Words!measurand_of, Words!Measurand, ActorProofs!Words!Measurand
<1>9. Words!UInit <=> ActorProofs!Words!UInit
  BY Zenon DEF Words!UInit, ActorProofs!Words!UInit, Words!Namings,
               ActorProofs!Words!Namings
<1>10. Words!UNext <=> ActorProofs!Words!UNext
  BY Zenon, <1>1, <1>6, <1>7, <1>8 DEF Words!UNext, ActorProofs!Words!UNext
<1>11. (UNCHANGED wordsVars) <=> UNCHANGED ActorProofs!Words!unitVars
  BY DEF wordsVars, ActorProofs!Words!unitVars
<1>12. Words!MeaningIsKept <=> ActorProofs!Words!MeaningIsKept
  BY Zenon, <1>5 DEF Words!MeaningIsKept, ActorProofs!Words!MeaningIsKept
<1>13. QED
  BY <1>9, <1>10, <1>11, <1>12

\* The two instances of the HVAC unit are the same specification.
LEMMA SameUnit ==
    /\ Hvac!HInit <=> ActorProofs!Unit!HInit
    /\ [Hvac!HNext]_hvacVars <=> [ActorProofs!Unit!HNext]_(ActorProofs!Unit!hvars)
    /\ Hvac!UnitIsSeen <=> ActorProofs!Unit!UnitIsSeen
<1>1. Hvac!HInit <=> ActorProofs!Unit!HInit
  BY Zenon DEF Hvac!None, ActorProofs!Unit!None, Hvac!AllSetpoints,
               ActorProofs!Unit!AllSetpoints, Hvac!ModeReads, ActorProofs!Unit!ModeReads,
               Hvac!OverrunReads, ActorProofs!Unit!OverrunReads, Hvac!TemperatureReads,
               ActorProofs!Unit!TemperatureReads, Hvac!NewReader,
               ActorProofs!Unit!NewReader, Hvac!NewPoints, ActorProofs!Unit!NewPoints,
               Hvac!Subscribe, ActorProofs!Unit!Subscribe, Hvac!Read, ActorProofs!Unit!Read,
               Hvac!ReadAll, ActorProofs!Unit!ReadAll, Hvac!Follow, ActorProofs!Unit!Follow,
               Hvac!HInit, ActorProofs!Unit!HInit, Hvac!Cardinality,
               ActorProofs!Unit!Cardinality
<1>2. Hvac!HNext <=> ActorProofs!Unit!HNext
  <2>1. ASSUME NEW f, NEW m PROVE Hvac!SetMode(f, m) <=> ActorProofs!Unit!SetMode(f, m)
    BY Zenon DEF Hvac!StateKnown, ActorProofs!Unit!StateKnown, Hvac!Send,
                 ActorProofs!Unit!Send, Hvac!ModeAllowed, ActorProofs!Unit!ModeAllowed,
                 Hvac!SetMode, ActorProofs!Unit!SetMode
  <2>2. ASSUME NEW f, NEW start PROVE Hvac!Overrun(f, start) <=> ActorProofs!Unit!Overrun(f, start)
    BY Zenon DEF Hvac!Send, ActorProofs!Unit!Send, Hvac!OverrunAllowed,
                 ActorProofs!Unit!OverrunAllowed, Hvac!Overrun, ActorProofs!Unit!Overrun
  <2>3. ASSUME NEW f, NEW s, NEW d PROVE Hvac!SetSetpoint(f, s, d) <=> ActorProofs!Unit!SetSetpoint(f, s, d)
    BY Zenon DEF Hvac!None, ActorProofs!Unit!None, Hvac!Permits, ActorProofs!Unit!Permits,
                 Hvac!StateKnown, ActorProofs!Unit!StateKnown, Hvac!ModeId,
                 ActorProofs!Unit!ModeId, Hvac!CurrentSetpoints,
                 ActorProofs!Unit!CurrentSetpoints, Hvac!Send, ActorProofs!Unit!Send,
                 Hvac!WriteAllowed, ActorProofs!Unit!WriteAllowed, Hvac!SetSetpoint,
                 ActorProofs!Unit!SetSetpoint
  <2>4. ASSUME NEW s, NEW d PROVE Hvac!PreloadSetpoint(s, d) <=> ActorProofs!Unit!PreloadSetpoint(s, d)
    BY Zenon DEF Hvac!Permits, ActorProofs!Unit!Permits, Hvac!Send, ActorProofs!Unit!Send,
                 Hvac!WriteAllowed, ActorProofs!Unit!WriteAllowed, Hvac!PreloadSetpoint,
                 ActorProofs!Unit!PreloadSetpoint
  <2>5. Hvac!Hear <=> ActorProofs!Unit!Hear
    BY Zenon DEF Hvac!None, ActorProofs!Unit!None, Hvac!AllSetpoints,
                 ActorProofs!Unit!AllSetpoints, Hvac!StateKnown, ActorProofs!Unit!StateKnown,
                 Hvac!ModeId, ActorProofs!Unit!ModeId, Hvac!Report, ActorProofs!Unit!Report,
                 Hvac!IsComplete, ActorProofs!Unit!IsComplete, Hvac!Heeds,
                 ActorProofs!Unit!Heeds, Hvac!Learned, ActorProofs!Unit!Learned, Hvac!Tracked,
                 ActorProofs!Unit!Tracked, Hvac!ToldMode, ActorProofs!Unit!ToldMode,
                 Hvac!ToldReport, ActorProofs!Unit!ToldReport, Hvac!HeedsPoints,
                 ActorProofs!Unit!HeedsPoints, Hvac!LearnedPoints,
                 ActorProofs!Unit!LearnedPoints, Hvac!TrackedPoints,
                 ActorProofs!Unit!TrackedPoints, Hvac!Hear, ActorProofs!Unit!Hear,
                 Hvac!Cardinality, ActorProofs!Unit!Cardinality
  <2>6. Hvac!Serve <=> ActorProofs!Unit!Serve
    BY Zenon DEF Hvac!FeatureOf, ActorProofs!Unit!FeatureOf, Hvac!Payload,
                 ActorProofs!Unit!Payload, Hvac!Publish, ActorProofs!Unit!Publish,
                 Hvac!Permits, ActorProofs!Unit!Permits, Hvac!Permitted,
                 ActorProofs!Unit!Permitted, Hvac!Written, ActorProofs!Unit!Written,
                 Hvac!FunctionOf, ActorProofs!Unit!FunctionOf, Hvac!Serve,
                 ActorProofs!Unit!Serve
  <2>7. Hvac!Moves <=> ActorProofs!Unit!Moves
    BY Zenon DEF Hvac!AllSetpoints, ActorProofs!Unit!AllSetpoints, Hvac!FeatureOf,
                 ActorProofs!Unit!FeatureOf, Hvac!Payload, ActorProofs!Unit!Payload,
                 Hvac!Publish, ActorProofs!Unit!Publish, Hvac!Permits,
                 ActorProofs!Unit!Permits, Hvac!Move, ActorProofs!Unit!Move,
                 Hvac!OverrunMoves, ActorProofs!Unit!OverrunMoves, Hvac!Moves,
                 ActorProofs!Unit!Moves
  <2>8. Hvac!Reattach <=> ActorProofs!Unit!Reattach
    BY Zenon DEF Hvac!ModeReads, ActorProofs!Unit!ModeReads, Hvac!OverrunReads,
                 ActorProofs!Unit!OverrunReads, Hvac!TemperatureReads,
                 ActorProofs!Unit!TemperatureReads, Hvac!Subscribe,
                 ActorProofs!Unit!Subscribe, Hvac!Read, ActorProofs!Unit!Read, Hvac!ReadAll,
                 ActorProofs!Unit!ReadAll, Hvac!Follow, ActorProofs!Unit!Follow,
                 Hvac!Reattach, ActorProofs!Unit!Reattach
  <2>9. QED
    BY Zenon, <2>1, <2>2, <2>3, <2>4, <2>5, <2>6, <2>7, <2>8 DEF Hvac!AllSetpoints,
                 ActorProofs!Unit!AllSetpoints, Hvac!HNext, ActorProofs!Unit!HNext
<1>3. (UNCHANGED hvacVars) <=> UNCHANGED ActorProofs!Unit!hvars
  BY DEF hvacVars, ActorProofs!Unit!hvars
<1>4. Hvac!UnitIsSeen <=> ActorProofs!Unit!UnitIsSeen
  BY Zenon DEF Hvac!None, ActorProofs!Unit!None, Hvac!StateKnown,
               ActorProofs!Unit!StateKnown, Hvac!ModeId, ActorProofs!Unit!ModeId,
               Hvac!CurrentSetpoints, ActorProofs!Unit!CurrentSetpoints, Hvac!UnitIsSeen,
               ActorProofs!Unit!UnitIsSeen, Hvac!Cardinality, ActorProofs!Unit!Cardinality
<1>5. QED
  BY <1>1, <1>2, <1>3, <1>4

\* The two instances of the measured unit are the same specification.
LEMMA SameMeter ==
    /\ Meter!MInit <=> ActorProofs!Meter!MInit
    /\ [Meter!MNext]_meterVars <=> [ActorProofs!Meter!MNext]_(ActorProofs!Meter!mvars)
    /\ Meter!ReadingsAreTrue <=> ActorProofs!Meter!ReadingsAreTrue
<1>1. Meter!MInit <=> ActorProofs!Meter!MInit
  BY Zenon DEF Meter!None, ActorProofs!Meter!None, Meter!NoReading,
               ActorProofs!Meter!NoReading, Meter!NewReadings,
               ActorProofs!Meter!NewReadings, Meter!NothingTold,
               ActorProofs!Meter!NothingTold, Meter!Read, ActorProofs!Meter!Read,
               Meter!Subscribe, ActorProofs!Meter!Subscribe, Meter!Attach,
               ActorProofs!Meter!Attach, Meter!MInit, ActorProofs!Meter!MInit
<1>2. Meter!MNext <=> ActorProofs!Meter!MNext
  <2>1. ASSUME NEW i, NEW v PROVE Meter!Measure(i, v) <=> ActorProofs!Meter!Measure(i, v)
    BY Zenon DEF Meter!None, ActorProofs!Meter!None, Meter!FeatureOf,
                 ActorProofs!Meter!FeatureOf, Meter!Listed, ActorProofs!Meter!Listed,
                 Meter!Payload, ActorProofs!Meter!Payload, Meter!Record,
                 ActorProofs!Meter!Record, Meter!Publish, ActorProofs!Meter!Publish,
                 Meter!StillRelabelled, ActorProofs!Meter!StillRelabelled, Meter!Measure,
                 ActorProofs!Meter!Measure
  <2>2. ASSUME NEW i PROVE Meter!Fail(i) <=> ActorProofs!Meter!Fail(i)
    BY Zenon DEF Meter!None, ActorProofs!Meter!None, Meter!FeatureOf,
                 ActorProofs!Meter!FeatureOf, Meter!Listed, ActorProofs!Meter!Listed,
                 Meter!Payload, ActorProofs!Meter!Payload, Meter!Publish,
                 ActorProofs!Meter!Publish, Meter!StillRelabelled,
                 ActorProofs!Meter!StillRelabelled, Meter!Fail, ActorProofs!Meter!Fail
  <2>3. ASSUME NEW i, NEW p PROVE Meter!Relabel(i, p) <=> ActorProofs!Meter!Relabel(i, p)
    BY Zenon DEF Meter!None, ActorProofs!Meter!None, Meter!FeatureOf,
                 ActorProofs!Meter!FeatureOf, Meter!Listed, ActorProofs!Meter!Listed,
                 Meter!Payload, ActorProofs!Meter!Payload, Meter!Publish,
                 ActorProofs!Meter!Publish, Meter!Relabel, ActorProofs!Meter!Relabel
  <2>4. ASSUME NEW f PROVE Meter!Curtail(f) <=> ActorProofs!Meter!Curtail(f)
    BY Zenon DEF Meter!None, ActorProofs!Meter!None, Meter!FeatureOf,
                 ActorProofs!Meter!FeatureOf, Meter!Listed, ActorProofs!Meter!Listed,
                 Meter!Payload, ActorProofs!Meter!Payload, Meter!Publish,
                 ActorProofs!Meter!Publish, Meter!Curtail, ActorProofs!Meter!Curtail
  <2>5. Meter!Serve <=> ActorProofs!Meter!Serve
    BY Zenon DEF Meter!None, ActorProofs!Meter!None, Meter!Listed, ActorProofs!Meter!Listed,
                 Meter!Payload, ActorProofs!Meter!Payload, Meter!StillRelabelled,
                 ActorProofs!Meter!StillRelabelled, Meter!Serve, ActorProofs!Meter!Serve
  <2>6. Meter!Hear <=> ActorProofs!Meter!Hear
    <3>1. /\ \A r, p : Meter!Curtailed(r, p) = ActorProofs!Meter!Curtailed(r, p)
          /\ \A r : Meter!FactorPercent(r) = ActorProofs!Meter!FactorPercent(r)
          /\ \A r, i : Meter!Resolves(r, i) = ActorProofs!Meter!Resolves(r, i)
          /\ \A g : Meter!FeatureOf(g) = ActorProofs!Meter!FeatureOf(g)
      BY Zenon DEF Meter!Curtailed, ActorProofs!Meter!Curtailed, Meter!FactorPercent,
                   ActorProofs!Meter!FactorPercent, Meter!Clamp, ActorProofs!Meter!Clamp,
                   Meter!None, ActorProofs!Meter!None, Meter!Resolves,
                   ActorProofs!Meter!Resolves, Meter!FeatureOf, ActorProofs!Meter!FeatureOf
    <3>2. ASSUME NEW r, NEW p
          PROVE  Meter!LearnReadings(r, p) = ActorProofs!Meter!LearnReadings(r, p)
      BY Zenon DEF Meter!LearnReadings, ActorProofs!Meter!LearnReadings, Meter!Described,
                   ActorProofs!Meter!Described, Meter!Applied, ActorProofs!Meter!Applied,
                   Meter!Resolves, ActorProofs!Meter!Resolves, Meter!None,
                   ActorProofs!Meter!None
    <3>3. QED
      BY <3>1, <3>2 DEF Meter!Hear, ActorProofs!Meter!Hear
  <2>7. ASSUME NEW lost PROVE Meter!Reattach(lost) <=> ActorProofs!Meter!Reattach(lost)
    BY Zenon DEF Meter!None, ActorProofs!Meter!None, Meter!NoReading,
                 ActorProofs!Meter!NoReading, Meter!NewReadings,
                 ActorProofs!Meter!NewReadings, Meter!Read, ActorProofs!Meter!Read,
                 Meter!Subscribe, ActorProofs!Meter!Subscribe, Meter!Attach,
                 ActorProofs!Meter!Attach, Meter!Reattach, ActorProofs!Meter!Reattach
  <2>8. QED
    BY Zenon, <2>1, <2>2, <2>3, <2>4, <2>5, <2>6, <2>7 DEF Meter!MNext,
                 ActorProofs!Meter!MNext
<1>3. (UNCHANGED meterVars) <=> UNCHANGED ActorProofs!Meter!mvars
  BY DEF meterVars, ActorProofs!Meter!mvars
<1>4. Meter!ReadingsAreTrue <=> ActorProofs!Meter!ReadingsAreTrue
  BY Zenon DEF Meter!None, ActorProofs!Meter!None, Meter!Listed, ActorProofs!Meter!Listed,
               Meter!Clamp, ActorProofs!Meter!Clamp, Meter!FactorPercent,
               ActorProofs!Meter!FactorPercent, Meter!ReadingsAreTrue,
               ActorProofs!Meter!ReadingsAreTrue
<1>5. QED
  BY <1>1, <1>2, <1>3, <1>4

\* The two instances of the compressor are the same specification.
LEMMA SameCompressor ==
    /\ Compressor!OInit <=> ActorProofs!Pump!OInit
    /\ [Compressor!ONext]_compressorVars <=> [ActorProofs!Pump!ONext]_(ActorProofs!Pump!ovars)
    /\ Compressor!OfferIsSeen <=> ActorProofs!Pump!OfferIsSeen
<1>1. Compressor!OInit <=> ActorProofs!Pump!OInit
  BY Zenon DEF Compressor!NoTime, ActorProofs!Pump!NoTime, Compressor!Absent,
               ActorProofs!Pump!Absent, Compressor!Unread, ActorProofs!Pump!Unread,
               Compressor!Alternative, ActorProofs!Pump!Alternative, Compressor!Data,
               ActorProofs!Pump!Data, Compressor!Requests, ActorProofs!Pump!Requests,
               Compressor!Follow, ActorProofs!Pump!Follow, Compressor!OInit,
               ActorProofs!Pump!OInit
<1>2. Compressor!ONext <=> ActorProofs!Pump!ONext
  <2>1. Compressor!OwnChange <=> ActorProofs!Pump!OwnChange
    BY Zenon DEF Compressor!NoTime, ActorProofs!Pump!NoTime, Compressor!Ended,
                 ActorProofs!Pump!Ended, Compressor!Absent, ActorProofs!Pump!Absent,
                 Compressor!Alternative, ActorProofs!Pump!Alternative, Compressor!Data,
                 ActorProofs!Pump!Data, Compressor!Inform, ActorProofs!Pump!Inform,
                 Compressor!Notify, ActorProofs!Pump!Notify, Compressor!Withdraw,
                 ActorProofs!Pump!Withdraw, Compressor!OfferAgain,
                 ActorProofs!Pump!OfferAgain, Compressor!Start, ActorProofs!Pump!Start,
                 Compressor!Complete, ActorProofs!Pump!Complete, Compressor!Abort,
                 ActorProofs!Pump!Abort, Compressor!OwnChange, ActorProofs!Pump!OwnChange
  <2>2. Compressor!TakeBinding <=> ActorProofs!Pump!TakeBinding
    BY Zenon DEF Compressor!Hears, ActorProofs!Pump!Hears, Compressor!TakeBinding,
                 ActorProofs!Pump!TakeBinding
  <2>3. Compressor!TakeSubscription <=> ActorProofs!Pump!TakeSubscription
    BY Zenon DEF Compressor!Hears, ActorProofs!Pump!Hears, Compressor!TakeSubscription,
                 ActorProofs!Pump!TakeSubscription
  <2>4. Compressor!AnswerRead <=> ActorProofs!Pump!AnswerRead
    BY Zenon DEF Compressor!Hears, ActorProofs!Pump!Hears, Compressor!AnswerRead,
                 ActorProofs!Pump!AnswerRead
  <2>5. Compressor!TakeWrite <=> ActorProofs!Pump!TakeWrite
    BY Zenon DEF Compressor!NoTime, ActorProofs!Pump!NoTime, Compressor!Ended,
                 ActorProofs!Pump!Ended, Compressor!Absent, ActorProofs!Pump!Absent,
                 Compressor!Alternative, ActorProofs!Pump!Alternative, Compressor!Data,
                 ActorProofs!Pump!Data, Compressor!Ok, ActorProofs!Pump!Ok,
                 Compressor!Refused, ActorProofs!Pump!Refused, Compressor!Schedule,
                 ActorProofs!Pump!Schedule, Compressor!ChangeState,
                 ActorProofs!Pump!ChangeState, Compressor!Apply, ActorProofs!Pump!Apply,
                 Compressor!Inform, ActorProofs!Pump!Inform, Compressor!Hears,
                 ActorProofs!Pump!Hears, Compressor!Stored, ActorProofs!Pump!Stored,
                 Compressor!TakeWrite, ActorProofs!Pump!TakeWrite
  <2>6. Compressor!Reconnect <=> ActorProofs!Pump!Reconnect
    BY Zenon DEF Compressor!Requests, ActorProofs!Pump!Requests, Compressor!Follow,
                 ActorProofs!Pump!Follow, Compressor!Reconnect, ActorProofs!Pump!Reconnect
  <2>7. Compressor!HearOffer <=> ActorProofs!Pump!HearOffer
    BY Zenon DEF Compressor!Read, ActorProofs!Pump!Read, Compressor!HearOffer,
                 ActorProofs!Pump!HearOffer
  <2>8. Compressor!Command <=> ActorProofs!Pump!Command
    BY Zenon DEF Compressor!NoTime, ActorProofs!Pump!NoTime, Compressor!IsAvailable,
                 ActorProofs!Pump!IsAvailable, Compressor!IsActive, ActorProofs!Pump!IsActive,
                 Compressor!Activate, ActorProofs!Pump!Activate, Compressor!StateWrite,
                 ActorProofs!Pump!StateWrite, Compressor!StopWrite,
                 ActorProofs!Pump!StopWrite, Compressor!PauseWrite,
                 ActorProofs!Pump!PauseWrite, Compressor!ResumeWrite,
                 ActorProofs!Pump!ResumeWrite, Compressor!Commands, ActorProofs!Pump!Commands,
                 Compressor!Command, ActorProofs!Pump!Command
  <2>9. QED
    BY Zenon, <2>1, <2>2, <2>3, <2>4, <2>5, <2>6, <2>7, <2>8 DEF Compressor!ONext,
                 ActorProofs!Pump!ONext
<1>3. (UNCHANGED compressorVars) <=> UNCHANGED ActorProofs!Pump!ovars
  BY DEF compressorVars, ActorProofs!Pump!ovars
<1>4. Compressor!OfferIsSeen <=> ActorProofs!Pump!OfferIsSeen
  BY Zenon DEF Compressor!NoTime, ActorProofs!Pump!NoTime, Compressor!Absent,
               ActorProofs!Pump!Absent, Compressor!Alternative,
               ActorProofs!Pump!Alternative, Compressor!Data, ActorProofs!Pump!Data,
               Compressor!IsAbsent, ActorProofs!Pump!IsAbsent, Compressor!OfferIsSeen,
               ActorProofs!Pump!OfferIsSeen
<1>5. QED
  BY <1>1, <1>2, <1>3, <1>4

\* What the measurands of the run's vocabularies are called is not what phases are.
LEMMA WordsAreNamed == ActorProofs!WordsConstants
BY DEF ActorProofs!WordsConstants, ActorProofs!Words!Abc, ActorProofs!Words!NoPhases,
       ActorProofs!Words!Unknown

\* The unit of the run has three modes, and every function two of them.
LEMMA UnitIsOrdinary == ActorProofs!HvacConstants
<1>1. ActorProofs!IsFiniteSet(1..3) /\ ActorProofs!Cardinality(1..3) = 3
  <2>1. 1 \in Int /\ 3 \in Int
    OBVIOUS
  <2>2. /\ ActorProofs!IsFiniteSet(1..3)
        /\ ActorProofs!Cardinality(1..3) = IF 1 > 3 THEN 0 ELSE 3 - 1 + 1
    BY ONLY <2>1, ActorProofs!FS_Interval
  <2>3. QED
    BY <2>2
<1>2. QED
  BY <1>1 DEF ActorProofs!HvacConstants, ActorProofs!Unit!None

\* The meter of the run measures two phases in hundredths.
LEMMA MeterIsOrdinary == ActorProofs!MeterConstants
BY DEF ActorProofs!MeterConstants, ActorProofs!Meter!None

\* Whoever has heard everything of an appliance has what it holds: the compressor's
\* offer, the HVAC unit's modes and setpoints, a meter's readings; and a value is taken
\* for what it measures. (ohpcf.rs follow, notify; TrackedUnit::apply, attach;
\* Readings::describe and apply; Measurand::scope_type)
THEOREM AppliancesAlwaysSee == PSpec => []AppliancesSee
<1> DEFINE P == part = "compressor" => ActorProofs!PumpInv
           H == part = "hvac" => ActorProofs!UnitInv
           M == part = "meter" => ActorProofs!MeterInv
           W == part = "words" => ActorProofs!Meant
           I == P /\ H /\ M /\ W
<1>1. PInit => I
  <2>1. PInit => P
    BY SameCompressor, ActorProofs!OInitFollowed DEF PInit
  <2>2. PInit => H
    BY UnitIsOrdinary, SameUnit, ActorProofs!HInitKeeps DEF PInit
  <2>3. PInit => M
    BY MeterIsOrdinary, SameMeter, ActorProofs!MInitKeeps DEF PInit
  <2>4. PInit => W
    BY SameWords, ActorProofs!UInitMeant DEF PInit
  <2>5. QED
    BY <2>1, <2>2, <2>3, <2>4
<1>2. I /\ [PNext]_pvars => I'
  <2>1. P /\ [PNext]_pvars => P'
    BY OnePartMoves, SameCompressor, ActorProofs!ONextFollowed
  <2>2. H /\ [PNext]_pvars => H'
    BY OnePartMoves, UnitIsOrdinary, SameUnit, ActorProofs!HNextKeeps
  <2>3. M /\ [PNext]_pvars => M'
    BY OnePartMoves, MeterIsOrdinary, SameMeter, ActorProofs!MNextKeeps
  <2>4. W /\ [PNext]_pvars => W'
    BY OnePartMoves, WordsAreNamed, SameWords, ActorProofs!UNextMeant
  <2>5. QED
    BY <2>1, <2>2, <2>3, <2>4
<1>3. I => AppliancesSee
  <2>1. P => (part = "compressor" => Compressor!OfferIsSeen)
    BY SameCompressor, ActorProofs!FollowedIsSeen
  <2>2. H => (part = "hvac" => Hvac!UnitIsSeen)
    BY UnitIsOrdinary, SameUnit, ActorProofs!UnitKeptIsSeen
  <2>3. M => (part = "meter" => Meter!ReadingsAreTrue)
    BY MeterIsOrdinary, SameMeter, ActorProofs!ReadingsSeen
  <2>4. W => (part = "words" => Words!MeaningIsKept)
    BY WordsAreNamed, SameWords, ActorProofs!MeantIsKept
  <2>5. QED
    BY <2>1, <2>2, <2>3, <2>4 DEF AppliancesSee
<1>4. QED
  BY <1>1, <1>2, <1>3, PTL DEF PSpec

=============================================================================
