------------------------------ MODULE CsActor ------------------------------
(* The Controllable System's actor (limitation/actor.rs): the state machine *)
(* of ControllableSystem behind the features an Energy Guard writes to and  *)
(* reads from, with the record it keeps of every limit (limitation/audit.rs)*)
EXTENDS Integers, Sequences, FiniteSets

CONSTANTS
    HEARTBEAT_TIMEOUT, WRITE_WINDOW, SETTLE_TIMEOUT, FAILSAFE_DURATION_RANGE,
    FailsafeDurationMax, FailsafeWatts, FailsafeDuration, OnCem, NotFinite,
    Writes, FailsafeWrites, DurationWrites, MaxLag, MaxTime,
    AuditCapacity, \* records the log keeps
    MAX_DROPPED    \* where the count of displaced records stops

VARIABLES
    clock, system, reply,  \* the machine, its clock and its last answer
    served,                \* what the features serve: the limit, the failsafe values
    audit                  \* AuditLog

avars == <<clock, system, reply, served, audit>>

Machine == INSTANCE ControllableSystem WITH now <- clock, cs <- system, answer <- reply

-----------------------------------------------------------------------------
\* ScaledNumber::from_f64(w, 0): whole watts, a half away from zero. The machine holds
\* half watts here, so that there is something to round.
WholeWatts(w) == IF w % 2 = 0 THEN w ELSE w + 1

\* loadControlLimitListData: the effective limit, active only in `limited`.
LimitData(c) ==
    LET effective == Machine!EffectiveLimit(c)
    IN  [active |-> effective[1] = "Active", value |-> WholeWatts(effective[2])]

\* deviceConfigurationKeyValueListData.
FailsafeValues(c) ==
    [limit |-> WholeWatts(c.failsafe_watts), duration |-> c.failsafe_duration]

Publish(c) == [limit |-> LimitData(c), failsafe |-> FailsafeValues(c)]

(* A full log lets the oldest record go, and counts it.                     *)
Record(log, entry) ==
    IF Len(log.records) >= AuditCapacity
    THEN [records |-> Append(Tail(log.records), entry),
          dropped |-> IF log.dropped < MAX_DROPPED THEN log.dropped + 1 ELSE log.dropped]
    ELSE [log EXCEPT !.records = Append(@, entry)]

-----------------------------------------------------------------------------
AInit ==
    /\ clock = 0 /\ system = Machine!New(0) /\ reply = "none"
    /\ served = Publish(system)
    /\ audit = [records |-> <<>>, dropped |-> 0]

Heartbeat ==
    /\ system' = Machine!OnHeartbeat(system, clock)
    /\ reply' = "none"
    /\ UNCHANGED <<clock, served, audit>>

\* Mutant: a limit that follows a limit is not published.
DecideLimitQuietly(write, stored) ==
    LET r == Machine!OnLimitWrite(system, write, TRUE, clock)
        lost == r.answer = "Accepted" /\ ~stored
    IN  /\ system' = IF lost THEN Machine!OnUnstoredLimitWrite(r.cs, clock) ELSE r.cs
        /\ reply' = IF lost THEN "NotStored" ELSE r.answer
        /\ served' = IF system'.state # system.state THEN Publish(system') ELSE served
        /\ audit' = Record(audit, [write |-> write, outcome |-> reply'])
        /\ UNCHANGED clock

(* decide_limit: published whenever it was accepted, stored or not.         *)
DecideLimit(write, stored) ==
    LET r == Machine!OnLimitWrite(system, write, TRUE, clock)
        lost == r.answer = "Accepted" /\ ~stored
    IN  /\ system' = IF lost THEN Machine!OnUnstoredLimitWrite(r.cs, clock) ELSE r.cs
        /\ reply' = IF lost THEN "NotStored" ELSE r.answer
        /\ served' = IF r.answer = "Accepted" THEN Publish(system') ELSE served
        /\ audit' = Record(audit, [write |-> write, outcome |-> reply'])
        /\ UNCHANGED clock

\* A write that names the limit and cannot be read, or names another.
DecideUnreadable(addressed) ==
    LET r == Machine!OnUnreadableLimitWrite(system, clock)
    IN  /\ system' = IF addressed THEN r.cs ELSE system
        /\ reply' = IF addressed THEN r.answer ELSE "Unreadable"
        /\ audit' = Record(audit, [write |-> Machine!NoWrite, outcome |-> reply'])
        /\ UNCHANGED <<clock, served>>

(* decide_failsafe: each value is judged and taken on its own; the write as *)
(* a whole is answered with the last refusal, and then nothing is published.*)
DecideFailsafe(watts, durations, stored) ==
    LET first == IF watts = {} THEN [answer |-> "Accepted", cs |-> system]
                 ELSE Machine!OnFailsafeLimitWrite(system, CHOOSE w \in watts : TRUE, clock)
        second == IF durations = {} THEN [answer |-> "Accepted", cs |-> first.cs]
                  ELSE Machine!OnFailsafeDurationWrite(first.cs, CHOOSE d \in durations : TRUE, clock)
        outcome == IF second.answer # "Accepted" THEN second.answer ELSE first.answer
    IN  /\ system' = second.cs
        /\ reply' = IF outcome = "Accepted" /\ ~stored THEN "NotStored" ELSE outcome
        /\ served' = IF outcome = "Accepted" THEN Publish(system') ELSE served
        /\ UNCHANGED <<clock, audit>>

Interrupt(uncontrolledLoads) ==
    /\ Machine!InterruptPermitted(system, uncontrolledLoads)
    /\ system' = Machine!OnInterrupt(system, clock)
    /\ served' = Publish(system')
    /\ reply' = "Interrupted"
    /\ UNCHANGED <<clock, audit>>

HandleTimeout ==
    /\ system' = Machine!HandleTimeout(system, clock)
    /\ served' = IF system'.state = system.state THEN served ELSE Publish(system')
    /\ reply' = "none"
    /\ UNCHANGED <<clock, audit>>

\* The caller sleeps until poll_timeout and wakes at most MaxLag late.
Pass ==
    /\ clock < MaxTime
    /\ LET due == Machine!PollTimeout(system) IN due = -1 \/ clock < due + MaxLag
    /\ clock' = clock + 1
    /\ reply' = "none"
    /\ UNCHANGED <<system, served, audit>>

\* Kept records are handed over for storage.
Drain ==
    /\ audit.records # <<>>
    /\ audit' = [audit EXCEPT !.records = <<>>]
    /\ reply' = "none"
    /\ UNCHANGED <<clock, system, served>>

ANext ==
    \/ Heartbeat \/ HandleTimeout \/ Pass \/ Drain
    \/ \E w \in Writes, stored \in BOOLEAN : DecideLimit(w, stored)
    \/ \E addressed \in BOOLEAN : DecideUnreadable(addressed)
    \/ \E watts \in {{}} \cup {{w} : w \in FailsafeWrites},
          durations \in {{}} \cup {{d} : d \in DurationWrites}, stored \in BOOLEAN :
         /\ watts # {} \/ durations # {}
         /\ DecideFailsafe(watts, durations, stored)
    \/ \E uncontrolledLoads \in BOOLEAN : Interrupt(uncontrolledLoads)

ASpec == AInit /\ [][ANext]_avars

-----------------------------------------------------------------------------
(* A system that obeys a limit says so, with its value in whole watts, to   *)
(* everyone who reads its LoadControl feature, whatever was written,        *)
(* refused, could not be stored, ran out or was interrupted before.         *)
(* (publish, decide_limit, handle_timeout, interrupt)                       *)
ObeyedIsServed ==
    Machine!EffectiveLimit(system)[1] = "Active" => served.limit = LimitData(system)

(* The record knows the limit in force: the last write of a limited system  *)
(* that was accepted, if it has not been handed over or displaced, is the   *)
(* one it obeys. (log, record)                                              *)
Accepted == {i \in DOMAIN audit.records : audit.records[i].outcome = "Accepted"}
LimitIsOnRecord ==
    Machine!EffectiveLimit(system)[1] = "Active" /\ Accepted # {} =>
      LET last == CHOOSE i \in Accepted : \A j \in Accepted : j <= i
      IN  audit.records[last].write = system.limit
=============================================================================
