---------------------- MODULE ControllableSystem_proofs ----------------------
(***************************************************************************)
(* The limitation machine's invariants, for every value of the timers, the *)
(* configuration, the lateness of the event loop and the writes.           *)
(***************************************************************************)
EXTENDS ControllableSystem, TLAPS

(* The inductive invariant, in parts, of a machine c at the instant t *)

\* No recorded instant lies in the future.
NothingFromTheFuture(c, t) ==
    c.entered_state_at <= t /\ c.last_heartbeat <= t /\ c.awaiting_write_since <= t

\* Only `failsafe` waits for a write to follow a heartbeat.
AwaitingOnlyInFailsafe(c) == c.awaiting_write_since # None => c.state = "FailsafeState"

\* In `init`, what was heard was heard since the start, and the settle timer is running.
InitBounded(c, t) ==
    c.state = "Init" =>
        /\ c.entered_state_at <= HeardAt(c)
        /\ t - c.entered_state_at <= SETTLE_TIMEOUT + MaxLag

\* `failsafe` was entered soon after the last heartbeat before it, and is left in time.
FailsafeBounded(c, t) ==
    c.state = "FailsafeState" =>
        /\ c.entered_state_at - HeardAt(c) <= HEARTBEAT_TIMEOUT + MaxLag
        /\ t - c.entered_state_at <= c.failsafe_duration + MaxLag

\* The guard was heard recently enough for a controlled state.
ControlBounded(c, t) ==
    c.state \in Controlled =>
        c.last_heartbeat # None /\ t - c.last_heartbeat <= HEARTBEAT_TIMEOUT + MaxLag

\* A limited machine holds an active, finite, unexpired limit.
LimitBounded(c, t) ==
    c.state = "Limited" =>
        /\ c.limit.is_active
        /\ c.limit.watts \in Nat
        /\ c.limit_expiry # None => t <= c.limit_expiry + MaxLag

SequenceIsControl(c) == c.sequence_complete <=> c.state \in Controlled

Sound(c, t) ==
    /\ NothingFromTheFuture(c, t)
    /\ AwaitingOnlyInFailsafe(c)
    /\ InitBounded(c, t)
    /\ FailsafeBounded(c, t)
    /\ ControlBounded(c, t)
    /\ LimitBounded(c, t)
    /\ SequenceIsControl(c)

IInv == TypeOK /\ Sound(cs, now)

-----------------------------------------------------------------------------
(* poll_timeout *)

\* What poll_timeout reports is one of the pending deadlines and none of them is earlier.
LEMMA PollTimeoutIsEarliest ==
    ASSUME NEW c \in Machines
    PROVE  /\ Deadlines(c) \subseteq Nat
           /\ Deadlines(c) = {} <=> c.state = "UnlimitedAutonomous"
           /\ Deadlines(c) # {} =>
                /\ PollTimeout(c) \in Deadlines(c)
                /\ \A e \in Deadlines(c) : PollTimeout(c) <= e
<1>1. /\ Deadlines(c) \subseteq Nat
      /\ Deadlines(c) = {} <=> c.state = "UnlimitedAutonomous"
  BY TimerAssumption DEF Deadlines, Machines, LimitationStates, Controlled, Instants, None, HeardAt
<1>2. ASSUME Deadlines(c) # {}
      PROVE  \E d \in Deadlines(c) : \A e \in Deadlines(c) : d <= e
  BY <1>2, TimerAssumption DEF Deadlines, Machines, LimitationStates, Controlled, Instants, None, HeardAt
<1>3. QED
  BY <1>1, <1>2 DEF PollTimeout

\* handle_timeout acts at an instant exactly if some pending deadline has been reached.
LEMMA TimeoutActsAtDeadlines ==
    ASSUME NEW c \in Machines, NEW t \in Nat
    PROVE  IF \E d \in Deadlines(c) : d <= t
           THEN HandleTimeout(c, t).state # c.state
           ELSE HandleTimeout(c, t) = c
<1> USE TimerAssumption DEF Machines, LimitationStates, Instants, None, Controlled
<1> DEFINE Due == HeartbeatLost(c, t) \/ LimitExpired(c, t) \/ SettleElapsed(c, t) \/ FailsafeElapsed(c, t)
<1>1. Due <=> \E d \in Deadlines(c) : d <= t
  <2>1. CASE c.state = "Init"
    BY <2>1 DEF Deadlines, HeartbeatLost, LimitExpired, SettleElapsed, FailsafeElapsed, HeardAt
  <2>2. CASE c.state = "Limited"
    BY <2>2 DEF Deadlines, HeartbeatLost, LimitExpired, SettleElapsed, FailsafeElapsed, HeardAt
  <2>3. CASE c.state = "UnlimitedControlled"
    BY <2>3 DEF Deadlines, HeartbeatLost, LimitExpired, SettleElapsed, FailsafeElapsed, HeardAt
  <2>4. CASE c.state = "FailsafeState"
    BY <2>4 DEF Deadlines, HeartbeatLost, LimitExpired, SettleElapsed, FailsafeElapsed, HeardAt
  <2>5. CASE c.state = "UnlimitedAutonomous"
    BY <2>5 DEF Deadlines, HeartbeatLost, LimitExpired, SettleElapsed, FailsafeElapsed, HeardAt
  <2>6. QED
    BY <2>1, <2>2, <2>3, <2>4, <2>5
<1>2. Due => HandleTimeout(c, t).state # c.state
  BY DEF HandleTimeout, Enter, HeartbeatLost, LimitExpired, SettleElapsed, FailsafeElapsed
<1>3. ~Due => HandleTimeout(c, t) = c
  BY DEF HandleTimeout
<1>4. QED
  BY <1>1, <1>2, <1>3

-----------------------------------------------------------------------------
(* Each method keeps a sound machine sound *)

\* What `enter` does to each field when the state changes.
LEMMA EnterFields ==
    ASSUME NEW c \in Machines, NEW t \in Nat, NEW s \in LimitationStates, c.state # s
    PROVE  LET e == Enter(c, s, t) IN
           /\ e \in Machines
           /\ e.state = s
           /\ e.limit = c.limit /\ e.limit_expiry = c.limit_expiry
           /\ e.last_heartbeat = c.last_heartbeat
           /\ e.entered_state_at = t
           /\ e.awaiting_write_since = None
           /\ s \in {"FailsafeState", "UnlimitedAutonomous"} => e.sequence_complete = FALSE
           /\ s \notin {"FailsafeState", "UnlimitedAutonomous"} =>
                e.sequence_complete = c.sequence_complete
           /\ e.failsafe_watts = c.failsafe_watts /\ e.failsafe_duration = c.failsafe_duration
BY DEF Enter, Machines, Instants, None

\* The same on the way to a controlled state, which may be the current one.
LEMMA EnterControlled ==
    ASSUME NEW c \in Machines, NEW t \in Nat, NEW s \in Controlled
    PROVE  LET e == Enter(c, s, t) IN
           /\ e \in Machines
           /\ e.state = s
           /\ e.limit = c.limit /\ e.limit_expiry = c.limit_expiry
           /\ e.last_heartbeat = c.last_heartbeat
           /\ e.entered_state_at \in {c.entered_state_at, t}
           /\ e.awaiting_write_since \in {c.awaiting_write_since, None}
           /\ e.sequence_complete = c.sequence_complete
BY DEF Enter, Machines, Instants, None, LimitationStates, Controlled

\* The timers move a sound machine to a sound one.
LEMMA HandleTimeoutSound ==
    ASSUME NEW c \in Machines, NEW t \in Nat, Sound(c, t)
    PROVE  HandleTimeout(c, t) \in Machines /\ Sound(HandleTimeout(c, t), t)
<1>1. CASE HeartbeatLost(c, t)
  <2> DEFINE e == Enter(c, "FailsafeState", t)
  <2>1. HandleTimeout(c, t) = e
    BY <1>1 DEF HandleTimeout
  <2>2. /\ e \in Machines /\ e.state = "FailsafeState" /\ e.entered_state_at = t
        /\ e.awaiting_write_since = None /\ e.sequence_complete = FALSE
        /\ e.last_heartbeat = c.last_heartbeat
    <3>1. c.state # "FailsafeState" /\ "FailsafeState" \in LimitationStates
      BY <1>1 DEF HeartbeatLost, Controlled, LimitationStates
    <3>2. QED
      BY <3>1, EnterFields
  <2>3. c.last_heartbeat # None /\ t - c.last_heartbeat <= HEARTBEAT_TIMEOUT + MaxLag
    BY <1>1 DEF HeartbeatLost, Sound, ControlBounded
  <2>4. c.last_heartbeat <= t
    BY DEF Sound, NothingFromTheFuture
  <2> HIDE DEF e
  <2>5. Sound(e, t)
    BY <2>2, <2>3, <2>4, TimerAssumption
       DEF Machines, Instants, None, Controlled, Sound, NothingFromTheFuture,
           AwaitingOnlyInFailsafe, InitBounded, FailsafeBounded, ControlBounded, LimitBounded,
           SequenceIsControl, HeardAt
  <2>6. QED
    BY <2>1, <2>2, <2>5
<1>2. CASE ~HeartbeatLost(c, t) /\ LimitExpired(c, t)
  <2> DEFINE e == Enter(c, "UnlimitedControlled", t)
  <2>1. HandleTimeout(c, t) = e
    BY <1>2 DEF HandleTimeout
  <2>2. /\ e \in Machines /\ e.state = "UnlimitedControlled" /\ e.entered_state_at = t
        /\ e.awaiting_write_since = None /\ e.sequence_complete = c.sequence_complete
        /\ e.last_heartbeat = c.last_heartbeat
    <3>1. c.state # "UnlimitedControlled" /\ "UnlimitedControlled" \in LimitationStates
      BY <1>2 DEF LimitExpired, LimitationStates
    <3>2. QED
      BY <3>1, EnterFields
  <2> HIDE DEF e
  <2>3. Sound(e, t)
    BY <1>2, <2>2, TimerAssumption
       DEF LimitExpired, Machines, Instants, None, Controlled, Sound, NothingFromTheFuture,
           AwaitingOnlyInFailsafe, InitBounded, FailsafeBounded, ControlBounded, LimitBounded,
           SequenceIsControl
  <2>4. QED
    BY <2>1, <2>2, <2>3
<1>3. CASE /\ ~HeartbeatLost(c, t) /\ ~LimitExpired(c, t)
           /\ SettleElapsed(c, t) \/ FailsafeElapsed(c, t)
  <2> DEFINE e == Enter(c, "UnlimitedAutonomous", t)
  <2>1. HandleTimeout(c, t) = e
    BY <1>3 DEF HandleTimeout
  <2>2. /\ e \in Machines /\ e.state = "UnlimitedAutonomous" /\ e.entered_state_at = t
        /\ e.awaiting_write_since = None /\ e.sequence_complete = FALSE
        /\ e.last_heartbeat = c.last_heartbeat
    <3>1. c.state # "UnlimitedAutonomous" /\ "UnlimitedAutonomous" \in LimitationStates
      BY <1>3 DEF SettleElapsed, FailsafeElapsed, LimitationStates
    <3>2. QED
      BY <3>1, EnterFields
  <2> HIDE DEF e
  <2>3. Sound(e, t)
    BY <2>2, TimerAssumption
       DEF Machines, Instants, None, Controlled, Sound, NothingFromTheFuture,
           AwaitingOnlyInFailsafe, InitBounded, FailsafeBounded, ControlBounded, LimitBounded,
           SequenceIsControl
  <2>4. QED
    BY <2>1, <2>2, <2>3
<1>4. CASE /\ ~HeartbeatLost(c, t) /\ ~LimitExpired(c, t)
           /\ ~(SettleElapsed(c, t) \/ FailsafeElapsed(c, t))
  BY <1>4 DEF HandleTimeout
<1>5. QED
  BY <1>1, <1>2, <1>3, <1>4

\* A heartbeat renews what silence is measured from and starts the LPC-921 window.
LEMMA HeartbeatSound ==
    ASSUME NEW c \in Machines, NEW t \in Nat, Sound(c, t)
    PROVE  OnHeartbeat(c, t) \in Machines /\ Sound(OnHeartbeat(c, t), t)
<1> DEFINE e == OnHeartbeat(c, t)
<1>1. /\ e \in Machines /\ e.state = c.state /\ e.last_heartbeat = t
      /\ e.limit = c.limit /\ e.limit_expiry = c.limit_expiry
      /\ e.entered_state_at = c.entered_state_at
      /\ e.awaiting_write_since \in {c.awaiting_write_since, t}
      /\ e.awaiting_write_since # c.awaiting_write_since => c.state = "FailsafeState"
      /\ e.sequence_complete = c.sequence_complete
      /\ e.failsafe_duration = c.failsafe_duration
  BY DEF OnHeartbeat, Machines, Instants, None
<1> HIDE DEF e
<1>2. NothingFromTheFuture(e, t) /\ AwaitingOnlyInFailsafe(e)
  BY <1>1 DEF Sound, NothingFromTheFuture, AwaitingOnlyInFailsafe, Machines, Instants
<1>3. InitBounded(e, t) /\ FailsafeBounded(e, t) /\ ControlBounded(e, t)
  BY <1>1, TimerAssumption
     DEF Sound, NothingFromTheFuture, InitBounded, FailsafeBounded, ControlBounded, HeardAt,
         Machines, Instants, None
<1>4. LimitBounded(e, t) /\ SequenceIsControl(e)
  BY <1>1 DEF Sound, LimitBounded, SequenceIsControl
<1>5. QED
  BY <1>1, <1>2, <1>3, <1>4 DEF Sound, e

\* The guard is heard: the machine is controlled, or its heartbeat is within the window.
Heard(c, t) == c.state \in Controlled \/ HeartbeatIsRecent(c, t)

\* A controlled machine is sound if its guard is heard and its limit is.
LEMMA ControlledSound ==
    ASSUME NEW c \in Machines, NEW t \in Nat,
           c.state \in Controlled, c.sequence_complete, c.awaiting_write_since = None,
           c.entered_state_at <= t, c.last_heartbeat <= t, ControlBounded(c, t), LimitBounded(c, t)
    PROVE  Sound(c, t)
BY DEF Machines, LimitationStates, Instants, None, Controlled, Sound, NothingFromTheFuture,
       AwaitingOnlyInFailsafe, InitBounded, FailsafeBounded, SequenceIsControl

\* A heard machine satisfies the bound of a controlled one.
LEMMA HeardIsBounded ==
    ASSUME NEW c \in Machines, NEW t \in Nat, Sound(c, t), Heard(c, t)
    PROVE  c.last_heartbeat # None /\ t - c.last_heartbeat <= HEARTBEAT_TIMEOUT + MaxLag
BY TimerAssumption DEF Machines, Instants, None, Sound, ControlBounded, Heard, HeartbeatIsRecent

\* A refusal leaves a heard machine controlled.
LEMMA RefuseSound ==
    ASSUME NEW c \in Machines, NEW t \in Nat, Sound(c, t), Heard(c, t)
    PROVE  Refuse(c, t) \in Machines /\ Sound(Refuse(c, t), t)
<1> DEFINE e == IF c.state \in Controlled THEN c ELSE Enter(c, "UnlimitedControlled", t)
           r == Refuse(c, t)
<1>1. /\ e \in Machines /\ e.state \in Controlled
      /\ e.limit = c.limit /\ e.limit_expiry = c.limit_expiry
      /\ e.last_heartbeat = c.last_heartbeat
      /\ e.entered_state_at \in {c.entered_state_at, t}
      /\ e.state = "Limited" => c.state = "Limited"
  BY EnterControlled DEF Controlled
<1> HIDE DEF e
<1>2. r = [e EXCEPT !.sequence_complete = TRUE, !.awaiting_write_since = None]
  BY DEF Refuse, e
<1>3. /\ r \in Machines /\ r.state = e.state
      /\ r.limit = c.limit /\ r.limit_expiry = c.limit_expiry
      /\ r.last_heartbeat = c.last_heartbeat
      /\ r.entered_state_at = e.entered_state_at
      /\ r.sequence_complete = TRUE /\ r.awaiting_write_since = None
  BY <1>1, <1>2 DEF Machines, Instants, None
<1> HIDE DEF r
<1>4. r.entered_state_at <= t /\ r.last_heartbeat <= t
  BY <1>1, <1>3 DEF Sound, NothingFromTheFuture, Machines
<1>5. ControlBounded(r, t) /\ LimitBounded(r, t)
  BY <1>1, <1>3, HeardIsBounded DEF ControlBounded, LimitBounded, Sound
<1>6. QED
  BY <1>1, <1>3, <1>4, <1>5, ControlledSound DEF r

\* An accepted write leaves a heard machine controlled, limited only by a usable limit.
LEMMA ApplyLimitSound ==
    ASSUME NEW c \in Machines, NEW t \in Nat, Sound(c, t), Heard(c, t),
           NEW w \in Writes, w.watts \in Nat
    PROVE  /\ ApplyLimit(c, w, t) \in Machines
           /\ Sound(ApplyLimit(c, w, t), t)
           /\ ApplyLimit(c, w, t).state \in Controlled
<1> DEFINE s == IF w.is_active /\ w.duration # 0 THEN "Limited" ELSE "UnlimitedControlled"
           x == IF w.duration = None THEN None ELSE t + w.duration
           e == [c EXCEPT !.sequence_complete = TRUE, !.awaiting_write_since = None,
                          !.limit = w, !.limit_expiry = x]
           r == ApplyLimit(c, w, t)
<1>1. s \in Controlled /\ (s = "Limited" => w.is_active)
  BY DEF Controlled
<1>2. x \in Instants /\ (x # None => t <= x)
  BY InputAssumption DEF Instants, None
<1>3. /\ e \in Machines /\ e.sequence_complete = TRUE /\ e.awaiting_write_since = None
      /\ e.limit = w /\ e.limit_expiry = x
      /\ e.last_heartbeat = c.last_heartbeat /\ e.entered_state_at = c.entered_state_at
  BY <1>2 DEF Machines, Instants, None
<1>4. r = Enter(e, s, t)
  BY DEF ApplyLimit
<1> HIDE DEF s, x, e, r
<1>5. /\ r \in Machines /\ r.state = s /\ r.sequence_complete = TRUE
      /\ r.awaiting_write_since = None /\ r.limit = w /\ r.limit_expiry = x
      /\ r.last_heartbeat = c.last_heartbeat
      /\ r.entered_state_at \in {c.entered_state_at, t}
  BY <1>1, <1>3, <1>4, EnterControlled
<1>6. r.entered_state_at <= t /\ r.last_heartbeat <= t
  BY <1>5 DEF Sound, NothingFromTheFuture, Machines
<1>7. ControlBounded(r, t) /\ LimitBounded(r, t)
  BY <1>1, <1>2, <1>5, HeardIsBounded, TimerAssumption
     DEF ControlBounded, LimitBounded, Instants, None
<1>8. QED
  BY <1>1, <1>5, <1>6, <1>7, ControlledSound DEF r

\* Letting the limit go keeps a controlled machine controlled (an interruption, or an
\* acceptance taken back).
LEMMA LetGoSound ==
    ASSUME NEW c \in Machines, NEW t \in Nat, Sound(c, t), c.state \in Controlled
    PROVE  OnInterrupt(c, t) \in Machines /\ Sound(OnInterrupt(c, t), t)
<1> DEFINE e == [c EXCEPT !.limit = NoWrite, !.limit_expiry = None]
           r == OnInterrupt(c, t)
<1>1. /\ e \in Machines
      /\ e.sequence_complete = c.sequence_complete
      /\ e.awaiting_write_since = c.awaiting_write_since
      /\ e.last_heartbeat = c.last_heartbeat /\ e.entered_state_at = c.entered_state_at
  BY DEF Machines, Instants, None
<1>2. r = Enter(e, "UnlimitedControlled", t)
  BY DEF OnInterrupt
<1>3. c.sequence_complete = TRUE /\ c.awaiting_write_since = None
  BY DEF Sound, SequenceIsControl, AwaitingOnlyInFailsafe, Controlled, Machines
<1> HIDE DEF e, r
<1>4. /\ r \in Machines /\ r.state = "UnlimitedControlled" /\ r.sequence_complete = TRUE
      /\ r.awaiting_write_since = None
      /\ r.last_heartbeat = c.last_heartbeat
      /\ r.entered_state_at \in {c.entered_state_at, t}
  BY <1>1, <1>2, <1>3, EnterControlled DEF Controlled
<1>5. r.entered_state_at <= t /\ r.last_heartbeat <= t
  BY <1>4 DEF Sound, NothingFromTheFuture, Machines
<1>6. ControlBounded(r, t) /\ LimitBounded(r, t)
  BY <1>4 DEF ControlBounded, LimitBounded, Sound
<1>7. QED
  BY <1>4, <1>5, <1>6, ControlledSound DEF Controlled, r

\* on_limit_write as a whole: the timers first, then the gate, the checks and the state.
LEMMA LimitWriteSound ==
    ASSUME NEW c \in Machines, NEW t \in Nat, Sound(c, t),
           NEW w \in Writes, NEW decision \in BOOLEAN
    PROVE  LET r == OnLimitWrite(c, w, decision, t) IN
           /\ r.cs \in Machines /\ Sound(r.cs, t)
           /\ r.answer \in Answers
           /\ r.answer = "Accepted" => r.cs.state \in Controlled
<1> DEFINE d == HandleTimeout(c, t)
           a == LimitAnswer(d, w, decision, t)
           r == OnLimitWrite(c, w, decision, t)
<1>1. d \in Machines /\ Sound(d, t)
  BY HandleTimeoutSound
<1>2. r.answer = a
  BY DEF OnLimitWrite
<1>3. r.cs = IF a = "NoRecentHeartbeat" THEN d
             ELSE IF a = "Accepted" THEN ApplyLimit(d, w, t) ELSE Refuse(d, t)
  BY DEF OnLimitWrite
<1>4. /\ a \in Answers
      /\ a # "NoRecentHeartbeat" => Heard(d, t)
      /\ a = "Accepted" => w.watts \in Nat
  BY InputAssumption
     DEF LimitAnswer, Answers, Heard, NeedsRecentHeartbeat
<1> HIDE DEF d, a, r
<1>5. CASE a = "NoRecentHeartbeat"
  BY <1>1, <1>2, <1>3, <1>4, <1>5 DEF r
<1>6. CASE a = "Accepted"
  BY <1>1, <1>2, <1>3, <1>4, <1>6, ApplyLimitSound DEF r
<1>7. CASE a \notin {"NoRecentHeartbeat", "Accepted"}
  BY <1>1, <1>2, <1>3, <1>4, <1>7, RefuseSound DEF r
<1>8. QED
  BY <1>5, <1>6, <1>7

\* A limit write that cannot be read is refused under the same gate.
LEMMA UnreadableSound ==
    ASSUME NEW c \in Machines, NEW t \in Nat, Sound(c, t)
    PROVE  LET r == OnUnreadableLimitWrite(c, t) IN
           r.cs \in Machines /\ Sound(r.cs, t) /\ r.answer \in Answers
<1> DEFINE d == HandleTimeout(c, t)
           r == OnUnreadableLimitWrite(c, t)
<1>1. d \in Machines /\ Sound(d, t)
  BY HandleTimeoutSound
<1>2. CASE NeedsRecentHeartbeat(d) /\ ~HeartbeatIsRecent(d, t)
  <2>1. r.cs = d /\ r.answer = "NoRecentHeartbeat"
    BY <1>2 DEF OnUnreadableLimitWrite
  <2>2. QED
    BY <1>1, <2>1 DEF Answers
<1>3. CASE ~(NeedsRecentHeartbeat(d) /\ ~HeartbeatIsRecent(d, t))
  <2>1. r.cs = Refuse(d, t) /\ r.answer = "Unreadable"
    BY <1>3 DEF OnUnreadableLimitWrite
  <2>2. Heard(d, t)
    BY <1>3 DEF Heard, NeedsRecentHeartbeat
  <2>3. QED
    BY <1>1, <2>1, <2>2, RefuseSound DEF Answers
<1>4. QED
  BY <1>2, <1>3

\* The gates on a failsafe write are passed only under control.
LEMMA GatesMeanControl ==
    ASSUME NEW d \in Machines, NEW t \in Nat, Sound(d, t)
    PROVE  /\ CheckSecondaryWrite(d, t) \in Answers
           /\ CheckSecondaryWrite(d, t) = "Accepted" => d.state \in Controlled
BY DEF CheckSecondaryWrite, Answers, Sound, SequenceIsControl

\* So replacing the failsafe limit disturbs no timer.
LEMMA FailsafeLimitSound ==
    ASSUME NEW c \in Machines, NEW t \in Nat, Sound(c, t), NEW watts \in FailsafeWrites
    PROVE  LET r == OnFailsafeLimitWrite(c, watts, t) IN
           r.cs \in Machines /\ Sound(r.cs, t) /\ r.answer \in Answers
<1> DEFINE d == HandleTimeout(c, t)
           r == OnFailsafeLimitWrite(c, watts, t)
<1>1. d \in Machines /\ Sound(d, t)
  BY HandleTimeoutSound
<1>2. /\ r.answer \in Answers
      /\ r.answer # "Accepted" => r.cs = d
      /\ r.answer = "Accepted" =>
           r.cs = [d EXCEPT !.failsafe_watts = watts] /\ d.state \in Controlled /\ watts \in Nat
  BY <1>1, GatesMeanControl, InputAssumption DEF OnFailsafeLimitWrite, Answers
<1> HIDE DEF d, r
<1>3. ASSUME d.state \in Controlled, NEW x \in Nat
      PROVE  /\ [d EXCEPT !.failsafe_watts = x] \in Machines
             /\ Sound([d EXCEPT !.failsafe_watts = x], t)
  BY <1>1, <1>3
     DEF Machines, Controlled, Sound, NothingFromTheFuture, AwaitingOnlyInFailsafe, InitBounded,
         FailsafeBounded, ControlBounded, LimitBounded, SequenceIsControl
<1>4. QED
  BY <1>1, <1>2, <1>3 DEF r

\* Nor does replacing the Failsafe Duration Minimum.
LEMMA FailsafeDurationSound ==
    ASSUME NEW c \in Machines, NEW t \in Nat, Sound(c, t), NEW duration \in DurationWrites
    PROVE  LET r == OnFailsafeDurationWrite(c, duration, t) IN
           r.cs \in Machines /\ Sound(r.cs, t) /\ r.answer \in Answers
<1> DEFINE d == HandleTimeout(c, t)
           r == OnFailsafeDurationWrite(c, duration, t)
<1>1. d \in Machines /\ Sound(d, t)
  BY HandleTimeoutSound
<1>2. /\ r.answer \in Answers
      /\ r.answer # "Accepted" => r.cs = d
      /\ r.answer = "Accepted" =>
           /\ r.cs = [d EXCEPT !.failsafe_duration = duration]
           /\ d.state \in Controlled /\ duration \in Nat \ {0}
  BY <1>1, GatesMeanControl, ConfigAssumption DEF OnFailsafeDurationWrite, Answers
<1> HIDE DEF d, r
<1>3. ASSUME d.state \in Controlled, NEW x \in Nat \ {0}
      PROVE  /\ [d EXCEPT !.failsafe_duration = x] \in Machines
             /\ Sound([d EXCEPT !.failsafe_duration = x], t)
  BY <1>1, <1>3
     DEF Machines, Controlled, Sound, NothingFromTheFuture, AwaitingOnlyInFailsafe, InitBounded,
         FailsafeBounded, ControlBounded, LimitBounded, SequenceIsControl
<1>4. QED
  BY <1>1, <1>2, <1>3 DEF r

\* A sleeping caller that wakes at most MaxLag after poll_timeout lets no timer overrun.
LEMMA TickSound ==
    ASSUME TypeOK, Sound(cs, now),
           PollTimeout(cs) = None \/ now < PollTimeout(cs) + MaxLag
    PROVE  Sound(cs, now + 1)
<1>1. cs \in Machines /\ now \in Nat
  BY DEF TypeOK
<1>2. \A e \in Deadlines(cs) : e \in Nat /\ now < e + MaxLag
  BY <1>1, PollTimeoutIsEarliest, TimerAssumption DEF None
<1>3. NothingFromTheFuture(cs, now + 1) /\ AwaitingOnlyInFailsafe(cs) /\ SequenceIsControl(cs)
  BY <1>1 DEF Sound, NothingFromTheFuture, Machines, Instants, None
<1>4. InitBounded(cs, now + 1)
  BY <1>1, <1>2, TimerAssumption
     DEF Sound, InitBounded, Deadlines, Machines, HeardAt, Instants, None
<1>5. FailsafeBounded(cs, now + 1)
  BY <1>1, <1>2, TimerAssumption
     DEF Sound, FailsafeBounded, Deadlines, Machines, HeardAt, Instants, None
<1>6. ControlBounded(cs, now + 1)
  BY <1>1, <1>2, TimerAssumption
     DEF Sound, ControlBounded, Deadlines, Machines, HeardAt, Instants, None
<1>7. LimitBounded(cs, now + 1)
  BY <1>1, <1>2, TimerAssumption
     DEF Sound, LimitBounded, Deadlines, Machines, Instants, None
<1>8. QED
  BY <1>3, <1>4, <1>5, <1>6, <1>7 DEF Sound

-----------------------------------------------------------------------------
(* The specification *)

\* The start-up state is sound.
LEMMA InitSound == Init => IInv
<1> SUFFICES ASSUME Init PROVE IInv
  OBVIOUS
<1>1. New(0) \in Machines
  BY ConfigAssumption DEF New, Machines, LimitationStates, Instants, None, NoWrite
<1>2. Sound(New(0), 0)
  BY TimerAssumption
     DEF New, Sound, NothingFromTheFuture, AwaitingOnlyInFailsafe, InitBounded, FailsafeBounded,
         ControlBounded, LimitBounded, SequenceIsControl, HeardAt, Controlled, None
<1>3. QED
  BY <1>1, <1>2 DEF Init, IInv, TypeOK, Answers

\* Every call the event loop makes keeps the machine sound.
LEMMA NextSound == IInv /\ [Next]_vars => IInv'
<1> SUFFICES ASSUME IInv, [Next]_vars PROVE IInv'
  OBVIOUS
<1>1. cs \in Machines /\ now \in Nat /\ answer \in Answers /\ Sound(cs, now)
  BY DEF IInv, TypeOK
<1>2. SUFFICES /\ cs' \in Machines /\ now' \in Nat /\ answer' \in Answers
               /\ Sound(cs', now')
  BY DEF IInv, TypeOK, Sound, NothingFromTheFuture, AwaitingOnlyInFailsafe, InitBounded,
         FailsafeBounded, ControlBounded, LimitBounded, SequenceIsControl, HeardAt
<1>3. CASE Heartbeat
  BY <1>1, <1>3, HeartbeatSound DEF Heartbeat, Answers
<1>4. ASSUME NEW w \in Writes, NEW decision \in BOOLEAN, NEW stored \in BOOLEAN,
             LimitWrite(w, decision, stored)
      PROVE  /\ cs' \in Machines /\ now' \in Nat /\ answer' \in Answers
             /\ Sound(cs', now')
  <2> DEFINE r == OnLimitWrite(cs, w, decision, now)
  <2>1. /\ r.cs \in Machines /\ Sound(r.cs, now) /\ r.answer \in Answers
        /\ r.answer = "Accepted" => r.cs.state \in Controlled
    BY <1>1, LimitWriteSound
  <2> HIDE DEF r
  <2>2. /\ cs' = IF r.answer = "Accepted" /\ ~stored
                 THEN OnUnstoredLimitWrite(r.cs, now) ELSE r.cs
        /\ answer' = IF r.answer = "Accepted" /\ ~stored THEN "NotStored" ELSE r.answer
        /\ now' = now
    BY <1>4 DEF LimitWrite, r
  <2>3. CASE r.answer = "Accepted" /\ ~stored
    <3>1. /\ OnUnstoredLimitWrite(r.cs, now) \in Machines
          /\ Sound(OnUnstoredLimitWrite(r.cs, now), now)
      BY <1>1, <2>1, <2>3, LetGoSound DEF OnUnstoredLimitWrite, OnInterrupt
    <3>2. QED
      BY <1>1, <2>2, <2>3, <3>1 DEF Answers
  <2>4. CASE ~(r.answer = "Accepted" /\ ~stored)
    BY <1>1, <2>1, <2>2, <2>4
  <2>5. QED
    BY <2>3, <2>4
<1>5. CASE UnreadableLimitWrite
  BY <1>1, <1>5, UnreadableSound DEF UnreadableLimitWrite
<1>6. ASSUME NEW watts \in FailsafeWrites, FailsafeLimitWrite(watts)
      PROVE  /\ cs' \in Machines /\ now' \in Nat /\ answer' \in Answers
             /\ Sound(cs', now')
  BY <1>1, <1>6, FailsafeLimitSound DEF FailsafeLimitWrite
<1>7. ASSUME NEW duration \in DurationWrites, FailsafeDurationWrite(duration)
      PROVE  /\ cs' \in Machines /\ now' \in Nat /\ answer' \in Answers
             /\ Sound(cs', now')
  BY <1>1, <1>7, FailsafeDurationSound DEF FailsafeDurationWrite
<1>8. ASSUME NEW u \in BOOLEAN, Interrupt(u)
      PROVE  /\ cs' \in Machines /\ now' \in Nat /\ answer' \in Answers
             /\ Sound(cs', now')
  BY <1>1, <1>8, LetGoSound DEF Interrupt, InterruptPermitted, Controlled, Answers
<1>9. CASE Timeout
  BY <1>1, <1>9, HandleTimeoutSound DEF Timeout, Answers
<1>10. CASE Tick
  BY <1>1, <1>10, TickSound DEF Tick, TypeOK, Answers
<1>11. CASE UNCHANGED vars
  BY <1>1, <1>11 DEF vars
<1>12. QED
  BY <1>3, <1>4, <1>5, <1>6, <1>7, <1>8, <1>9, <1>10, <1>11 DEF Next

\* Type correctness: in particular, no negative or non-finite failsafe limit is ever stored.
THEOREM TypeCorrect == Spec => []TypeOK
<1>1. IInv => TypeOK
  BY DEF IInv
<1>2. QED
  BY InitSound, NextSound, <1>1, PTL DEF Spec

\* A controlled state never outlives the guard's last heartbeat by more than the timeout
\* and the lateness of the event loop.
THEOREM ControlEndsInSilence == Spec => []SilenceEndsControl
<1>1. IInv => SilenceEndsControl
  BY DEF IInv, Sound, ControlBounded, SilenceEndsControl
<1>2. QED
  BY InitSound, NextSound, <1>1, PTL DEF Spec

\* A silent guard releases the appliance within the timeout and the failsafe duration.
THEOREM SilenceReleasesAppliance == Spec => []SilenceReleases
<1>1. IInv => SilenceReleases
  <2> SUFFICES ASSUME IInv, cs.state # "UnlimitedAutonomous"
               PROVE  now - HeardAt(cs) <= HEARTBEAT_TIMEOUT + cs.failsafe_duration + 2 * MaxLag
    BY TimerAssumption DEF SilenceReleases, IInv, TypeOK, Machines, Instants, None, HeardAt
  <2>1. CASE cs.state = "Init"
    BY <2>1, TimerAssumption DEF IInv, TypeOK, Machines, Instants, None, HeardAt, Sound, InitBounded
  <2>2. CASE cs.state \in Controlled
    BY <2>2, TimerAssumption DEF IInv, TypeOK, Machines, Instants, None, HeardAt, Sound, ControlBounded
  <2>3. CASE cs.state = "FailsafeState"
    BY <2>3, TimerAssumption DEF IInv, TypeOK, Machines, Instants, None, HeardAt, Sound, FailsafeBounded
  <2>4. QED
    BY <2>1, <2>2, <2>3 DEF IInv, TypeOK, Machines, LimitationStates, Controlled
<1>2. QED
  BY InitSound, NextSound, <1>1, PTL DEF Spec

\* A limited machine obeys an active, usable limit, and only for its duration.
THEOREM LimitedMeansLimit == Spec => []LimitedHasLimit
<1>1. IInv => LimitedHasLimit
  BY DEF IInv, Sound, LimitBounded, LimitedHasLimit
<1>2. QED
  BY InitSound, NextSound, <1>1, PTL DEF Spec

\* The opening sequence is complete exactly while the guard is in control.
THEOREM SequenceIsPerState == Spec => []SequenceMeansControl
<1>1. IInv => SequenceMeansControl
  BY DEF IInv, Sound, SequenceIsControl, SequenceMeansControl
<1>2. QED
  BY InitSound, NextSound, <1>1, PTL DEF Spec

\* Waiting until exactly poll_timeout is enough, and never too early.
THEOREM PollTimeoutContract == Spec => []PollTimeoutExact
<1>1. IInv => PollTimeoutExact
  <2> SUFFICES ASSUME IInv PROVE PollTimeoutExact
    OBVIOUS
  <2> DEFINE deadline == PollTimeout(cs)
  <2>1. cs \in Machines /\ now \in Nat
    BY DEF IInv, TypeOK
  <2>2. deadline = None <=> cs.state = "UnlimitedAutonomous"
    BY <2>1, PollTimeoutIsEarliest DEF PollTimeout, None
  <2>3. ASSUME deadline # None
        PROVE  HandleTimeout(cs, deadline).state # cs.state
    BY <2>1, <2>3, PollTimeoutIsEarliest, TimeoutActsAtDeadlines DEF PollTimeout
  <2>4. ASSUME deadline # None, NEW t \in now .. deadline - 1
        PROVE  HandleTimeout(cs, t) = cs
    <3>1. t \in Nat /\ deadline \in Nat /\ t < deadline
      BY <2>1, <2>4, PollTimeoutIsEarliest DEF PollTimeout
    <3>2. ~\E d \in Deadlines(cs) : d <= t
      BY <2>1, <2>4, <3>1, PollTimeoutIsEarliest DEF PollTimeout
    <3>3. QED
      BY <2>1, <3>1, <3>2, TimeoutActsAtDeadlines
  <2>5. QED
    BY <2>2, <2>3, <2>4 DEF PollTimeoutExact
<1>2. QED
  BY InitSound, NextSound, <1>1, PTL DEF Spec

-----------------------------------------------------------------------------
(* Action properties *)

\* Running the timers first makes "controlled" mean "heard within the timeout".
LEMMA HeardAfterTimers ==
    ASSUME NEW c \in Machines, NEW t \in Nat, Sound(c, t), Heard(HandleTimeout(c, t), t)
    PROVE  /\ c.last_heartbeat # None
           /\ t - c.last_heartbeat <
                (IF c.state \in Controlled THEN HEARTBEAT_TIMEOUT ELSE WRITE_WINDOW)
<1> DEFINE d == HandleTimeout(c, t)
<1>1. CASE HeartbeatLost(c, t)
  <2>1. d = Enter(c, "FailsafeState", t) /\ c.state # "FailsafeState"
    BY <1>1 DEF HandleTimeout, HeartbeatLost, Controlled
  <2>2. d.state = "FailsafeState" /\ d.last_heartbeat = c.last_heartbeat
    <3>1. "FailsafeState" \in LimitationStates
      BY DEF LimitationStates
    <3>2. LET e == Enter(c, "FailsafeState", t)
          IN  e.state = "FailsafeState" /\ e.last_heartbeat = c.last_heartbeat
      BY <2>1, <3>1, EnterFields
    <3>3. QED
      BY <2>1, <3>2
  <2>3. QED
    BY <1>1, <2>2, TimerAssumption
       DEF Heard, HeartbeatIsRecent, HeartbeatLost, HeardAt, Controlled, Machines, Instants, None,
           Sound, ControlBounded
<1>2. CASE ~HeartbeatLost(c, t) /\ c.state \in Controlled
  <2>1. c.last_heartbeat # None /\ HeardAt(c) = c.last_heartbeat
    BY <1>2 DEF HeardAt, Sound, ControlBounded
  <2>2. ~(t - c.last_heartbeat >= HEARTBEAT_TIMEOUT)
    BY <1>2, <2>1 DEF HeartbeatLost
  <2>3. QED
    BY <1>2, <2>1, <2>2, TimerAssumption DEF Machines, Instants, None
<1>3. CASE c.state \notin Controlled
  <2>1. d = c \/ (d = Enter(c, "UnlimitedAutonomous", t) /\ c.state # "UnlimitedAutonomous")
    BY <1>3 DEF HandleTimeout, HeartbeatLost, LimitExpired, SettleElapsed, FailsafeElapsed,
                Controlled
  <2>2. d.state \notin Controlled /\ d.last_heartbeat = c.last_heartbeat
    <3>1. "UnlimitedAutonomous" \in LimitationStates \ Controlled
      BY DEF LimitationStates, Controlled
    <3>2. CASE d = c
      BY <1>3, <3>2
    <3>3. CASE d = Enter(c, "UnlimitedAutonomous", t) /\ c.state # "UnlimitedAutonomous"
      <4>1. LET e == Enter(c, "UnlimitedAutonomous", t)
            IN  e.state = "UnlimitedAutonomous" /\ e.last_heartbeat = c.last_heartbeat
        BY <3>1, <3>3, EnterFields
      <4>2. QED
        BY <3>1, <3>3, <4>1
    <3>4. QED
      BY <2>1, <3>2, <3>3
  <2>3. QED
    BY <1>3, <2>2 DEF Heard, HeartbeatIsRecent
<1>4. QED
  BY <1>1, <1>2, <1>3

\* A write is evaluated only while the guard is being heard, however late the timers ran.
THEOREM WritesNeedAudibleGuard == Spec => EvaluatedOnlyWhileHeard
<1> DEFINE Quiet == {"none", "Interrupted", "NoRecentHeartbeat", "SequenceIncomplete"}
           A == answer' \notin Quiet =>
                  /\ cs.last_heartbeat # None
                  /\ now - cs.last_heartbeat <
                       (IF cs.state \in Controlled THEN HEARTBEAT_TIMEOUT ELSE WRITE_WINDOW)
<1>1. IInv /\ [Next]_vars => [A]_vars
  <2> SUFFICES ASSUME IInv, Next, answer' \notin Quiet
               PROVE  Heard(HandleTimeout(cs, now), now)
    BY HeardAfterTimers DEF IInv, TypeOK
  <2> DEFINE d == HandleTimeout(cs, now)
  <2>1. cs \in Machines /\ now \in Nat /\ d \in Machines /\ Sound(d, now)
    BY HandleTimeoutSound DEF IInv, TypeOK
  <2>2. ASSUME NEW w \in Writes, NEW decision \in BOOLEAN, NEW stored \in BOOLEAN,
               LimitWrite(w, decision, stored)
        PROVE  Heard(d, now)
    <3>1. LimitAnswer(d, w, decision, now) # "NoRecentHeartbeat"
      BY <2>2 DEF LimitWrite, OnLimitWrite
    <3>2. QED
      BY <3>1 DEF LimitAnswer, Heard, NeedsRecentHeartbeat
  <2>3. CASE UnreadableLimitWrite
    <3>1. ~(NeedsRecentHeartbeat(d) /\ ~HeartbeatIsRecent(d, now))
      BY <2>3 DEF UnreadableLimitWrite, OnUnreadableLimitWrite
    <3>2. QED
      BY <3>1 DEF Heard, NeedsRecentHeartbeat
  <2>4. ASSUME NEW watts \in FailsafeWrites, FailsafeLimitWrite(watts)
        PROVE  Heard(d, now)
    <3>1. CheckSecondaryWrite(d, now) = "Accepted"
      BY <2>4 DEF FailsafeLimitWrite, OnFailsafeLimitWrite, CheckSecondaryWrite
    <3>2. QED
      BY <2>1, <3>1, GatesMeanControl DEF Heard
  <2>5. ASSUME NEW duration \in DurationWrites, FailsafeDurationWrite(duration)
        PROVE  Heard(d, now)
    <3>1. CheckSecondaryWrite(d, now) = "Accepted"
      BY <2>5 DEF FailsafeDurationWrite, OnFailsafeDurationWrite, CheckSecondaryWrite
    <3>2. QED
      BY <2>1, <3>1, GatesMeanControl DEF Heard
  <2>6. QED
    BY <2>2, <2>3, <2>4, <2>5 DEF Next, Heartbeat, Interrupt, Timeout, Tick
<1>2. QED
  BY InitSound, NextSound, <1>1, PTL DEF Spec, EvaluatedOnlyWhileHeard

\* The limit being obeyed changes only by an accepted write, an interruption, its expiry
\* or the guard's silence.
THEOREM ActiveLimitIsHeld == Spec => ActiveLimitHolds
<1> DEFINE A == EffectiveLimit(cs)[1] = "Active" /\ EffectiveLimit(cs') # EffectiveLimit(cs) =>
                  \/ answer' \in {"Accepted", "Interrupted", "NotStored"}
                  \/ LimitExpired(cs, now)
                  \/ HeartbeatLost(cs, now)
<1>1. IInv /\ [Next]_vars => [A]_vars
  <2> SUFFICES ASSUME IInv, Next, EffectiveLimit(cs)[1] = "Active",
                      answer' \notin {"Accepted", "Interrupted", "NotStored"},
                      ~LimitExpired(cs, now), ~HeartbeatLost(cs, now)
               PROVE  EffectiveLimit(cs') = EffectiveLimit(cs)
    OBVIOUS
  <2>1. cs \in Machines /\ now \in Nat /\ cs.state = "Limited" /\ cs.limit.is_active
    BY DEF EffectiveLimit, IInv, TypeOK
  <2>2. HandleTimeout(cs, now) = cs
    BY <2>1 DEF HandleTimeout, SettleElapsed, FailsafeElapsed
  <2>3. SUFFICES cs'.state = "Limited" /\ cs'.limit = cs.limit
    BY <2>1 DEF EffectiveLimit
  <2>4. Refuse(cs, now).state = "Limited" /\ Refuse(cs, now).limit = cs.limit
    BY <2>1 DEF Refuse, Controlled, Machines
  <2>5. CASE Heartbeat
    BY <2>1, <2>5 DEF Heartbeat, OnHeartbeat, Machines
  <2>6. ASSUME NEW w \in Writes, NEW decision \in BOOLEAN, NEW stored \in BOOLEAN,
               LimitWrite(w, decision, stored)
        PROVE  cs'.state = "Limited" /\ cs'.limit = cs.limit
    <3> DEFINE r == OnLimitWrite(cs, w, decision, now)
    <3>1. r.answer # "Accepted" /\ cs' = r.cs
      BY <2>6 DEF LimitWrite
    <3>2. r.cs = cs \/ r.cs = Refuse(cs, now)
      BY <2>2, <3>1 DEF OnLimitWrite
    <3>3. QED
      BY <2>1, <2>4, <3>1, <3>2
  <2>7. CASE UnreadableLimitWrite
    BY <2>1, <2>2, <2>4, <2>7 DEF UnreadableLimitWrite, OnUnreadableLimitWrite
  <2>8. ASSUME NEW watts \in FailsafeWrites, FailsafeLimitWrite(watts)
        PROVE  cs'.state = "Limited" /\ cs'.limit = cs.limit
    BY <2>1, <2>2, <2>8 DEF FailsafeLimitWrite, OnFailsafeLimitWrite
  <2>9. ASSUME NEW duration \in DurationWrites, FailsafeDurationWrite(duration)
        PROVE  cs'.state = "Limited" /\ cs'.limit = cs.limit
    BY <2>1, <2>2, <2>9 DEF FailsafeDurationWrite, OnFailsafeDurationWrite
  <2>10. CASE Timeout
    BY <2>1, <2>2, <2>10 DEF Timeout
  <2>11. CASE Tick
    BY <2>1, <2>11 DEF Tick
  <2>12. QED
    BY <2>5, <2>6, <2>7, <2>8, <2>9, <2>10, <2>11 DEF Next, Interrupt
<1>2. QED
  BY InitSound, NextSound, <1>1, PTL DEF Spec, ActiveLimitHolds

=============================================================================
