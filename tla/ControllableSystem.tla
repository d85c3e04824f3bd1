------------------------- MODULE ControllableSystem -------------------------
(***************************************************************************)
(* The Controllable System's limitation state machine (LPC and LPP), which *)
(* decides what power an appliance may draw or feed in: five states, one   *)
(* limit, three timers and the ordering gates on what an Energy Guard may  *)
(* write.  Each method of the Rust type is an operator from the machine's  *)
(* record to its next value; the actions of the specification call them    *)
(* the way an event loop does, at any instant of a discrete clock.         *)
(***************************************************************************)
EXTENDS Integers, FiniteSets

CONSTANTS
    HEARTBEAT_TIMEOUT,      \* silence that ends control
    WRITE_WINDOW,           \* how long a heartbeat vouches for a write
    SETTLE_TIMEOUT,         \* how long a silent or idle guard is waited for
    FAILSAFE_DURATION_RANGE,\* the durations a guard may write
    FailsafeDurationMax,    \* config.failsafe_duration_max of this device
    FailsafeWatts,          \* the failsafe limit configured at start
    FailsafeDuration,       \* the failsafe duration configured at start
    OnCem,                  \* config.on_cem
    NotFinite,              \* a value that is not a number
    Writes,                 \* the limit writes a guard may send
    FailsafeWrites,         \* the failsafe limits a guard may write
    DurationWrites,         \* the failsafe durations a guard may write
    MaxLag,                 \* how late the event loop may call handle_timeout
    MaxTime                 \* bound on the clock

\* An absent Option<Duration>.  Instants are natural numbers.
None == -1

ASSUME TimerAssumption ==
    /\ {HEARTBEAT_TIMEOUT, WRITE_WINDOW, SETTLE_TIMEOUT} \subseteq Nat \ {0}
    /\ WRITE_WINDOW <= HEARTBEAT_TIMEOUT /\ SETTLE_TIMEOUT <= HEARTBEAT_TIMEOUT
    /\ {MaxLag, MaxTime} \subseteq Nat

ASSUME ConfigAssumption ==
    /\ FAILSAFE_DURATION_RANGE \subseteq Nat \ {0}
    /\ FailsafeDuration \in Nat \ {0}
    /\ FailsafeDurationMax \in Nat
    /\ FailsafeWatts \in Nat
    /\ OnCem \in BOOLEAN

ASSUME InputAssumption ==
    /\ NotFinite \notin Int
    /\ Writes \subseteq [ watts     : Int \cup {NotFinite},
                          is_active : BOOLEAN,
                          duration  : Nat \cup {None} ]
    /\ FailsafeWrites \subseteq Int \cup {NotFinite}
    /\ DurationWrites \subseteq Nat

VARIABLES
    now,    \* the monotonic clock
    cs,     \* the machine
    answer  \* what the last call returned, "none" if it returns nothing

vars == <<now, cs, answer>>

-----------------------------------------------------------------------------
(* The machine's values *)

LimitationStates == {"Init", "Limited", "UnlimitedControlled",
                     "FailsafeState", "UnlimitedAutonomous"}
Controlled == {"Limited", "UnlimitedControlled"}

\* No limit held: `limit` is only ever asked whether it is active.
NoWrite == [watts |-> 0, is_active |-> FALSE, duration |-> None]

Answers == {"none", "Accepted", "NoRecentHeartbeat", "NotFinite", "NegativeValue",
            "CannotApply", "Unreadable", "SequenceIncomplete", "DurationOutOfRange",
            "NotStored", "Interrupted"}

\* ControllableSystem::new: `init`, limited by the failsafe value.
New(t) ==
    [ state                |-> "Init",
      limit                |-> NoWrite,
      limit_expiry         |-> None,
      last_heartbeat       |-> None,
      entered_state_at     |-> t,
      awaiting_write_since |-> None,
      sequence_complete    |-> FALSE,
      failsafe_watts       |-> FailsafeWatts,
      failsafe_duration    |-> FailsafeDuration ]

-----------------------------------------------------------------------------
(* Private methods *)

Enter(c, s, t) ==
    IF c.state = s THEN c
    ELSE [c EXCEPT !.state = s,
                   !.entered_state_at = t,
                   !.awaiting_write_since = None,
                   !.sequence_complete = @ /\ s \notin {"FailsafeState", "UnlimitedAutonomous"}]

NeedsRecentHeartbeat(c) == c.state \notin Controlled

HeartbeatIsRecent(c, t) == c.last_heartbeat # None /\ t - c.last_heartbeat < WRITE_WINDOW

\* The instant silence is measured from.
HeardAt(c) == IF c.last_heartbeat = None THEN c.entered_state_at ELSE c.last_heartbeat

HeartbeatLost(c, t) == c.state \in Controlled /\ t - HeardAt(c) >= HEARTBEAT_TIMEOUT

LimitExpired(c, t) == c.state = "Limited" /\ c.limit_expiry # None /\ t >= c.limit_expiry

SettleElapsed(c, t) == c.state = "Init" /\ t - c.entered_state_at >= SETTLE_TIMEOUT

FailsafeElapsed(c, t) ==
    /\ c.state = "FailsafeState"
    /\ \/ t - c.entered_state_at >= c.failsafe_duration
       \/ c.awaiting_write_since # None /\ t - c.awaiting_write_since >= SETTLE_TIMEOUT

\* One transition per call: every branch returns after it.
HandleTimeout(c, t) ==
    IF HeartbeatLost(c, t) THEN Enter(c, "FailsafeState", t)
    ELSE IF LimitExpired(c, t) THEN Enter(c, "UnlimitedControlled", t)
    ELSE IF SettleElapsed(c, t) \/ FailsafeElapsed(c, t)
         THEN Enter(c, "UnlimitedAutonomous", t)
    ELSE c

\* Mutant: poll_timeout does not report when the limit runs out.
DeadlinesWithoutExpiry(c) ==
    (IF c.state \in Controlled THEN {HeardAt(c) + HEARTBEAT_TIMEOUT} ELSE {})
    \cup (IF c.state = "Init" THEN {c.entered_state_at + SETTLE_TIMEOUT} ELSE {})
    \cup (IF c.state = "FailsafeState" THEN {c.entered_state_at + c.failsafe_duration} ELSE {})

\* Mutant: `failsafe` waits only for a guard that is heard again.
DeadlinesWithoutMinimum(c) ==
    (IF c.state \in Controlled THEN {HeardAt(c) + HEARTBEAT_TIMEOUT} ELSE {})
    \cup (IF c.state = "Limited" /\ c.limit_expiry # None THEN {c.limit_expiry} ELSE {})
    \cup (IF c.state = "Init" THEN {c.entered_state_at + SETTLE_TIMEOUT} ELSE {})

\* The deadlines pending in the current state; poll_timeout is the earliest.
Deadlines(c) ==
    (IF c.state \in Controlled THEN {HeardAt(c) + HEARTBEAT_TIMEOUT} ELSE {})
    \cup (IF c.state = "Limited" /\ c.limit_expiry # None THEN {c.limit_expiry} ELSE {})
    \cup (IF c.state = "Init" THEN {c.entered_state_at + SETTLE_TIMEOUT} ELSE {})
    \cup (IF c.state = "FailsafeState" THEN {c.entered_state_at + c.failsafe_duration} ELSE {})
    \cup (IF c.state = "FailsafeState" /\ c.awaiting_write_since # None
          THEN {c.awaiting_write_since + SETTLE_TIMEOUT} ELSE {})

PollTimeout(c) ==
    IF Deadlines(c) = {} THEN None
    ELSE CHOOSE d \in Deadlines(c) : \A e \in Deadlines(c) : d <= e

\* What the device is limited to: a kind and, where it has one, a value.
EffectiveLimit(c) ==
    IF c.state \in {"Init", "FailsafeState"} THEN <<"Failsafe", c.failsafe_watts>>
    ELSE IF c.state = "Limited" /\ c.limit.is_active THEN <<"Active", c.limit.watts>>
    ELSE <<"None", 0>>

-----------------------------------------------------------------------------
(* Public methods: the next machine, and the answer the write is given *)

OnHeartbeat(c, t) ==
    [c EXCEPT !.last_heartbeat = t,
              !.awaiting_write_since =
                  IF c.state = "FailsafeState" /\ @ = None THEN t ELSE @]

\* Mutant: a refusal moves a limited system as well.
RefuseAlwaysMoves(c, t) ==
    [ Enter(c, "UnlimitedControlled", t)
      EXCEPT !.sequence_complete = TRUE, !.awaiting_write_since = None ]

\* Every refused limit write completes the sequence, and takes control if nobody has it.
Refuse(c, t) ==
    [ (IF c.state \in Controlled THEN c ELSE Enter(c, "UnlimitedControlled", t))
      EXCEPT !.sequence_complete = TRUE, !.awaiting_write_since = None ]

\* `decision` is the device's own: TRUE if it can follow the limit.
LimitAnswer(c, w, decision, t) ==
    IF NeedsRecentHeartbeat(c) /\ ~HeartbeatIsRecent(c, t) THEN "NoRecentHeartbeat"
    ELSE IF w.watts = NotFinite THEN "NotFinite"
    ELSE IF w.watts < 0 THEN "NegativeValue"
    ELSE IF ~decision THEN "CannotApply"
    ELSE "Accepted"

ApplyLimit(c, w, t) ==
    Enter([c EXCEPT !.sequence_complete = TRUE,
                    !.awaiting_write_since = None,
                    !.limit = w,
                    !.limit_expiry = IF w.duration = None THEN None ELSE t + w.duration],
          IF w.is_active /\ w.duration # 0 THEN "Limited" ELSE "UnlimitedControlled", t)

\* Mutant: the timers are not brought up to date before the write is judged.
OnLimitWriteStale(c, w, decision, t) ==
    LET a == LimitAnswer(c, w, decision, t)
    IN  [ answer |-> a,
          cs |-> IF a = "NoRecentHeartbeat" THEN c
                 ELSE IF a = "Accepted" THEN ApplyLimit(c, w, t)
                 ELSE Refuse(c, t) ]

OnLimitWrite(c, w, decision, t) ==
    LET d == HandleTimeout(c, t)
        a == LimitAnswer(d, w, decision, t)
    IN  [ answer |-> a,
          cs |-> IF a = "NoRecentHeartbeat" THEN d
                 ELSE IF a = "Accepted" THEN ApplyLimit(d, w, t)
                 ELSE Refuse(d, t) ]

OnUnreadableLimitWrite(c, t) ==
    LET d == HandleTimeout(c, t)
    IN  IF NeedsRecentHeartbeat(d) /\ ~HeartbeatIsRecent(d, t)
        THEN [answer |-> "NoRecentHeartbeat", cs |-> d]
        ELSE [answer |-> "Unreadable", cs |-> Refuse(d, t)]

\* An acceptance the engine could not store is taken back.
OnUnstoredLimitWrite(c, t) ==
    Enter([c EXCEPT !.limit = NoWrite, !.limit_expiry = None], "UnlimitedControlled", t)

\* The gates a write on anything other than the limit has to pass first.
CheckSecondaryWrite(c, t) ==
    IF ~c.sequence_complete THEN "SequenceIncomplete"
    ELSE IF NeedsRecentHeartbeat(c) /\ ~HeartbeatIsRecent(c, t) THEN "NoRecentHeartbeat"
    ELSE "Accepted"

\* Mutant: the sign of a failsafe limit is not checked.
OnFailsafeLimitWriteUnchecked(c, watts, t) ==
    LET d == HandleTimeout(c, t)
        a == IF CheckSecondaryWrite(d, t) # "Accepted" THEN CheckSecondaryWrite(d, t)
             ELSE IF watts = NotFinite THEN "NotFinite"
             ELSE "Accepted"
    IN  [ answer |-> a,
          cs |-> IF a = "Accepted" THEN [d EXCEPT !.failsafe_watts = watts] ELSE d ]

OnFailsafeLimitWrite(c, watts, t) ==
    LET d == HandleTimeout(c, t)
        a == IF CheckSecondaryWrite(d, t) # "Accepted" THEN CheckSecondaryWrite(d, t)
             ELSE IF watts = NotFinite THEN "NotFinite"
             ELSE IF watts < 0 THEN "NegativeValue"
             ELSE "Accepted"
    IN  [ answer |-> a,
          cs |-> IF a = "Accepted" THEN [d EXCEPT !.failsafe_watts = watts] ELSE d ]

OnFailsafeDurationWrite(c, duration, t) ==
    LET d == HandleTimeout(c, t)
        a == IF CheckSecondaryWrite(d, t) # "Accepted" THEN CheckSecondaryWrite(d, t)
             ELSE IF duration \in FAILSAFE_DURATION_RANGE /\ duration <= FailsafeDurationMax
             THEN "Accepted"
             ELSE "DurationOutOfRange"
    IN  [ answer |-> a,
          cs |-> IF a = "Accepted" THEN [d EXCEPT !.failsafe_duration = duration] ELSE d ]

\* The device itself ends the limitation, for a reason it is entitled to.
InterruptPermitted(c, uncontrolledLoads) ==
    c.state = "Limited" /\ (uncontrolledLoads => OnCem)

OnInterrupt(c, t) ==
    Enter([c EXCEPT !.limit = NoWrite, !.limit_expiry = None], "UnlimitedControlled", t)

-----------------------------------------------------------------------------
(* The event loop *)

Init ==
    /\ now = 0
    /\ cs = New(0)
    /\ answer = "none"

Heartbeat ==
    /\ cs' = OnHeartbeat(cs, now)
    /\ answer' = "none"
    /\ UNCHANGED now

\* The actor answers the peer once the engine has stored an accepted limit, and takes
\* the acceptance back in the same breath if it could not.
LimitWrite(w, decision, stored) ==
    LET r == OnLimitWrite(cs, w, decision, now)
        lost == r.answer = "Accepted" /\ ~stored
    IN  /\ cs' = IF lost THEN OnUnstoredLimitWrite(r.cs, now) ELSE r.cs
        /\ answer' = IF lost THEN "NotStored" ELSE r.answer
        /\ UNCHANGED now

UnreadableLimitWrite ==
    LET r == OnUnreadableLimitWrite(cs, now)
    IN  cs' = r.cs /\ answer' = r.answer /\ UNCHANGED now

FailsafeLimitWrite(watts) ==
    LET r == OnFailsafeLimitWrite(cs, watts, now)
    IN  cs' = r.cs /\ answer' = r.answer /\ UNCHANGED now

FailsafeDurationWrite(duration) ==
    LET r == OnFailsafeDurationWrite(cs, duration, now)
    IN  cs' = r.cs /\ answer' = r.answer /\ UNCHANGED now

Interrupt(uncontrolledLoads) ==
    /\ InterruptPermitted(cs, uncontrolledLoads)
    /\ cs' = OnInterrupt(cs, now)
    /\ answer' = "Interrupted"
    /\ UNCHANGED now

\* handle_timeout may be called at any instant, due or not.
Timeout ==
    /\ cs' = HandleTimeout(cs, now)
    /\ answer' = "none"
    /\ UNCHANGED now

\* The caller sleeps until poll_timeout and wakes at most MaxLag late.
Tick ==
    /\ now < MaxTime
    /\ PollTimeout(cs) = None \/ now < PollTimeout(cs) + MaxLag
    /\ now' = now + 1
    /\ answer' = "none"
    /\ UNCHANGED cs

Next ==
    \/ Heartbeat
    \/ \E w \in Writes, decision, stored \in BOOLEAN : LimitWrite(w, decision, stored)
    \/ UnreadableLimitWrite
    \/ \E watts \in FailsafeWrites : FailsafeLimitWrite(watts)
    \/ \E duration \in DurationWrites : FailsafeDurationWrite(duration)
    \/ \E uncontrolledLoads \in BOOLEAN : Interrupt(uncontrolledLoads)
    \/ Timeout
    \/ Tick

Spec == Init /\ [][Next]_vars

-----------------------------------------------------------------------------
(* Properties *)

Instants == Nat \cup {None}

Machines ==
    [ state                : LimitationStates,
      limit                : Writes \cup {NoWrite},
      limit_expiry         : Instants,
      last_heartbeat       : Instants,
      entered_state_at     : Nat,
      awaiting_write_since : Instants,
      sequence_complete    : BOOLEAN,
      failsafe_watts       : Nat,
      failsafe_duration    : Nat \ {0} ]

\* Type correctness of the machine and its clock, with the values a refusal must keep
\* out: a stored failsafe limit is a finite power, never a negative one.
TypeOK ==
    /\ now \in Nat
    /\ cs \in Machines
    /\ answer \in Answers

\* poll_timeout's contract: None in exactly one state, `unlimited/autonomous`; anywhere
\* else, calling handle_timeout at the reported instant moves the machine, and calling it
\* any earlier does not.  A caller that only sleeps on this value neither stalls nor spins.
PollTimeoutExact ==
    LET deadline == PollTimeout(cs) IN
    /\ deadline = None <=> cs.state = "UnlimitedAutonomous"
    /\ deadline # None =>
         /\ HandleTimeout(cs, deadline).state # cs.state
         /\ \A t \in now .. deadline - 1 : HandleTimeout(cs, t) = cs

\* LPC-911/912: a controlled state never outlives the Energy Guard's last heartbeat by
\* more than the heartbeat timeout and the lateness of the event loop, whatever writes,
\* refusals, interruptions and expiries happened in between.
SilenceEndsControl ==
    cs.state \in Controlled =>
        /\ cs.last_heartbeat # None
        /\ now - cs.last_heartbeat <= HEARTBEAT_TIMEOUT + MaxLag

\* LPC-922: an appliance whose Energy Guard went silent is not held at its failsafe value
\* for ever.  Once the silence exceeds the heartbeat timeout and the Failsafe Duration
\* Minimum in force, the machine has come to rest in `unlimited/autonomous`.
SilenceReleases ==
    now - HeardAt(cs) > HEARTBEAT_TIMEOUT + cs.failsafe_duration + 2 * MaxLag
        => cs.state = "UnlimitedAutonomous"

\* A limited system holds a usable, active limit, and holds it no longer than its duration
\* (LPC-908).
LimitedHasLimit ==
    cs.state = "Limited" =>
        /\ cs.limit.is_active
        /\ cs.limit.watts \in Nat
        /\ cs.limit_expiry # None => now <= cs.limit_expiry + MaxLag

\* LPC-TS-037: the opening sequence is complete exactly while the Energy Guard is in
\* control, so a guard that was lost has to run it again before it may change the
\* failsafe values.
SequenceMeansControl == cs.sequence_complete <=> cs.state \in Controlled

\* LPC-914 and guide 2.11/2.14: a write is evaluated only while the guard is being heard:
\* within the write window from an uncontrolled state, within the heartbeat timeout from a
\* controlled one, however late the timers were run.
EvaluatedOnlyWhileHeard ==
    [][answer' \notin {"none", "Interrupted", "NoRecentHeartbeat", "SequenceIncomplete"} =>
         /\ cs.last_heartbeat # None
         /\ now - cs.last_heartbeat <
                (IF cs.state \in Controlled THEN HEARTBEAT_TIMEOUT ELSE WRITE_WINDOW)]_vars

\* The limit an appliance is obeying changes only because the guard's own write was
\* accepted (or taken back), the device interrupted it, its duration ran out or the guard
\* fell silent: no refused write, failsafe write or heartbeat disturbs it.
ActiveLimitHolds ==
    [][EffectiveLimit(cs)[1] = "Active" /\ EffectiveLimit(cs') # EffectiveLimit(cs) =>
         \/ answer' \in {"Accepted", "Interrupted", "NotStored"}
         \/ LimitExpired(cs, now)
         \/ HeartbeatLost(cs, now)]_vars

\* What the comments on `refuse` and `on_unstored_limit_write` say of a write that is
\* answered with an error: "a limited system stays limited", under "the previous limit".
RefusedWriteKeepsLimit ==
    [][EffectiveLimit(cs)[1] = "Active" /\ EffectiveLimit(cs') # EffectiveLimit(cs) =>
         \/ answer' \in {"Accepted", "Interrupted"}
         \/ LimitExpired(cs, now)
         \/ HeartbeatLost(cs, now)]_vars

=============================================================================
