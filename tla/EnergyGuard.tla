----------------------------- MODULE EnergyGuard -----------------------------
(***************************************************************************)
(* The Energy Guard of src/src/usecases/limitation/guard.rs: the actor     *)
(* that writes power limits onto Controllable Systems and beats the        *)
(* heartbeat they are evaluated against.                                   *)
(*                                                                         *)
(* One Tracked record per attached peer carries how far the pre-scenario   *)
(* communication has got (bindings, description reads), what the grid      *)
(* requires, the write that is outstanding, what the peer acknowledged and *)
(* the instants that hold a write back.  The peer and the engine are what  *)
(* the actor sees of them: results, replies, notifications, subscription   *)
(* grants and requests that time out, in any order.                        *)
(*                                                                         *)
(* Time.  The code compares instants with now and nothing else, so every   *)
(* instant is kept as the time left until it (0: reached or past) and      *)
(* every "since" as the time left until it no longer counts.               *)
(***************************************************************************)
EXTENDS Integers, FiniteSets

CONSTANTS
    Peers,              \* the Controllable Systems
    Limits,             \* the limits an application may require
    Notices,            \* the limits a peer may report of its own accord
    HeartbeatPeriod,    \* DEFAULT_HEARTBEAT_PERIOD
    HeartbeatFreshness, \* HEARTBEAT_FRESHNESS
    SubscriptionGrace,  \* SUBSCRIPTION_GRACE
    MinWriteInterval,   \* MIN_WRITE_INTERVAL
    RetryBackoffStep,   \* RETRY_BACKOFF_STEP
    MaxRequires,        \* bound: decisions of the grid
    MaxTrouble          \* bound: refusals, silences, reports and reconnections

None == -1

\* LimitWrite.  A duration of None is open-ended.
Deactivated == [active |-> FALSE, watts |-> 0, duration |-> None]
NoLimit == [active |-> FALSE, watts |-> None, duration |-> None]

ASSUME LimitsAssumption ==
    /\ Limits \cup Notices
         \subseteq [active : BOOLEAN, watts : Int, duration : Nat \cup {None}]
    /\ NoLimit \notin Limits \cup Notices

ASSUME TimesAssumption ==
    /\ {HeartbeatPeriod, HeartbeatFreshness, SubscriptionGrace,
        MinWriteInterval, RetryBackoffStep} \subseteq Nat \ {0}
    /\ {MaxRequires, MaxTrouble} \subseteq Nat

Features == {"LoadControl", "DeviceConfiguration"}

VARIABLES
    next,       \* time left to the producer's next heartbeat
    peers,      \* [Peers -> Tracked]
    deferred,   \* [Peers -> set of at most one requirement]
    subscribed, \* [Peers -> BOOLEAN]: the peer's standing subscription
    received,   \* [Peers -> Nat]: how long its last received beat is fresh
    grid,       \* [Peers -> limit]: what the application last asked of it
    requires,   \* decisions taken so far
    trouble     \* adversities so far

vars == <<next, peers, deferred, subscribed, received, grid, requires, trouble>>

(***************************************************************************)
(* Tracked.  attached = FALSE is a device the guard holds no record of.    *)
(***************************************************************************)
New ==
    [attached |-> TRUE, bound |-> {}, pending_bindings |-> Features,
     pending_reads |-> Features, limit_id |-> FALSE,
     reported_no_limit |-> FALSE, ready_reported |-> FALSE,
     required |-> NoLimit, outstanding |-> NoLimit, applied |-> NoLimit,
     rate |-> 0, write_due_at |-> None, retry_at |-> None, refusals |-> 0,
     grace |-> SubscriptionGrace, watches_heartbeat |-> FALSE,
     fresh |-> 0, opening_write_sent |-> FALSE]

Absent == [New EXCEPT !.attached = FALSE]

\* is_ready: both bindings, and the peer's own limitId.
IsReady(t) == t.bound = Features /\ t.limit_id

\* can_be_heard: it listens, or it has had the time to.
CanBeHeard(t) == t.watches_heartbeat \/ t.grace = 0

\* Mutant: the value of a limit is left out of the comparison.
SameLimitByActivity(a, b) ==
    /\ a.active = b.active
    /\ a.duration = b.duration

\* same_limit: what means the same to a Controllable System.
SameLimit(a, b) ==
    /\ a.active = b.active
    /\ a.duration = b.duration
    /\ a.active => a.watts = b.watts

\* Mutant: an activated limit may carry a duration of zero.
NormaliseSignOnly(l) == [l EXCEPT !.watts = IF @ < 0 THEN 0 ELSE @]

\* normalise: no negative power, and no zero duration on an active limit.
Normalise(l) ==
    [l EXCEPT !.watts = IF @ < 0 THEN 0 ELSE @,
              !.duration = IF l.active /\ @ = 0 THEN None ELSE @]

\* set_required: a new decision supersedes the old one's backoff.
SetRequired(t, l) ==
    [t EXCEPT !.required = IF l = NoLimit THEN NoLimit ELSE Normalise(l),
              !.retry_at = None, !.refusals = 0, !.write_due_at = 0]

\* Mutant: nothing is owed to a peer the grid asks nothing of.
WantsWriteOnRequest(t) ==
    t.required # NoLimit /\ ~SameLimit(t.required, t.applied)

\* wants_write: the opening write, or a difference between what is required
\* (an explicit deactivation once something is applied) and what is applied.
WantsWrite(t) ==
    \/ ~t.opening_write_sent
    \/ IF t.applied = NoLimit THEN t.required # NoLimit
       ELSE ~SameLimit(IF t.required = NoLimit THEN Deactivated ELSE t.required,
                       t.applied)

(***************************************************************************)
(* Heartbeats.  A beat is a notification: it reaches the subscribers, and  *)
(* the guard counts it for the peers it knows to be watching.              *)
(***************************************************************************)
RecordBeat(ps) ==
    [p \in Peers |->
        IF ps[p].attached /\ ps[p].watches_heartbeat
        THEN [ps[p] EXCEPT !.fresh = HeartbeatFreshness] ELSE ps[p]]

Beaten(subs, heard) ==
    [p \in Peers |-> IF subs[p] THEN HeartbeatFreshness ELSE heard[p]]

(***************************************************************************)
(* write_limit_if_due.  It works on the guard as a whole, with what the    *)
(* engine does for it, because a write may be preceded by a beat and a     *)
(* beat is for everybody.                                                  *)
(***************************************************************************)
Guard(n, ps, subs, heard) ==
    [next |-> n, peers |-> ps, subscribed |-> subs, received |-> heard]

\* beat_now and record_beat.
Beat(g) ==
    Guard(HeartbeatPeriod, RecordBeat(g.peers), g.subscribed,
          Beaten(g.subscribed, g.received))

\* There is something to write and nothing in flight.
Sendable(t) == IsReady(t) /\ t.outstanding = NoLimit /\ WantsWrite(t)

\* What holds a sendable write back, as the time left: a peer that is not
\* listening yet, a refusal's backoff, the rate limit (retries excepted).
HeldUntil(t) ==
    IF ~CanBeHeard(t) THEN t.grace
    ELSE IF t.retry_at = None THEN t.rate
    ELSE t.retry_at

Written(t) ==
    [t EXCEPT !.outstanding = IF t.required = NoLimit THEN Deactivated
                              ELSE t.required,
              !.rate = IF t.opening_write_sent THEN MinWriteInterval ELSE 0,
              !.retry_at = None, !.write_due_at = None,
              !.opening_write_sent = TRUE]

\* Mutant: with nothing to send the old deadline is left standing.
TurnStanding(t) ==
    IF ~Sendable(t) THEN t
    ELSE IF HeldUntil(t) > 0 THEN [t EXCEPT !.write_due_at = HeldUntil(t)]
    ELSE Written(t)

\* One peer's record after write_limit_if_due has looked at it.
Turn(t) ==
    IF ~Sendable(t) THEN [t EXCEPT !.write_due_at = None]
    ELSE IF HeldUntil(t) > 0 THEN [t EXCEPT !.write_due_at = HeldUntil(t)]
    ELSE Written(t)

\* Mutant: any beat this guard has sent counts, whoever was listening then.
StaleByOwnClock(g, p) == g.next + HeartbeatFreshness <= HeartbeatPeriod

\* The peer has not been sent a heartbeat it could receive recently enough.
Stale(g, p) == g.peers[p].fresh = 0

\* write_limit_if_due for the peers in S one after the other.  A beat changes
\* nothing the later ones depend on but their freshness, so one does for all.
WriteLimitIfDue(g, S) ==
    LET writes(p) == Sendable(g.peers[p]) /\ HeldUntil(g.peers[p]) = 0
        h == IF \E p \in S : writes(p) /\ Stale(g, p) THEN Beat(g) ELSE g
    IN  [h EXCEPT !.peers = [p \in Peers |-> IF p \in S THEN Turn(@[p])
                                             ELSE @[p]]]

\* become_ready: the first time everything is in place, and only then.
BecomeReady(g, p) ==
    LET t == g.peers[p]
    IN  IF ~IsReady(t) \/ t.ready_reported THEN g
        ELSE WriteLimitIfDue([g EXCEPT !.peers[p].ready_reported = TRUE], {p})

-----------------------------------------------------------------------------
Init ==
    /\ next = 0
    /\ peers = [p \in Peers |-> Absent]
    /\ deferred = [p \in Peers |-> {}]
    /\ subscribed = [p \in Peers |-> FALSE]
    /\ received = [p \in Peers |-> 0]
    /\ grid = [p \in Peers |-> NoLimit]
    /\ requires = 0
    /\ trouble = 0

\* The guard after an operation.
Becomes(g) ==
    /\ next' = g.next
    /\ peers' = g.peers
    /\ subscribed' = g.subscribed
    /\ received' = g.received

Current == Guard(next, peers, subscribed, received)

Change(p, t) == [Current EXCEPT !.peers[p] = t]

Trouble == trouble < MaxTrouble /\ trouble' = trouble + 1

(***************************************************************************)
(* The application.                                                        *)
(***************************************************************************)
\* require, for an attached peer or one still to come.
Require(p, l) ==
    /\ requires < MaxRequires
    /\ requires' = requires + 1
    /\ grid' = [grid EXCEPT ![p] = l]
    /\ IF peers[p].attached
       THEN /\ Becomes(Change(p, SetRequired(peers[p], l)))
            /\ UNCHANGED deferred
       ELSE /\ deferred' = [deferred EXCEPT ![p] = {l}]
            /\ Becomes(Current)
    /\ UNCHANGED trouble

RequireAll(l) ==
    /\ requires < MaxRequires
    /\ requires' = requires + 1
    /\ grid' = [p \in Peers |-> IF peers[p].attached THEN l ELSE grid[p]]
    /\ Becomes([Current EXCEPT !.peers =
                  [p \in Peers |-> IF @[p].attached THEN SetRequired(@[p], l)
                                   ELSE @[p]]])
    /\ UNCHANGED <<deferred, trouble>>

\* attach: a fresh record, with what was required while there was none.
Attached(p) ==
    IF deferred[p] = {} THEN New
    ELSE SetRequired(New, CHOOSE l \in deferred[p] : TRUE)

Attach(p) ==
    /\ ~peers[p].attached
    /\ Becomes(Change(p, Attached(p)))
    /\ deferred' = [deferred EXCEPT ![p] = {}]
    /\ UNCHANGED <<grid, requires, trouble>>

\* attach again, which is what a reconnection does to a peer still tracked.
Reattach(p) ==
    /\ peers[p].attached
    /\ \E kept \in BOOLEAN :
         Becomes([Change(p, Attached(p)) EXCEPT !.subscribed[p] = @ /\ kept])
    /\ deferred' = [deferred EXCEPT ![p] = {}]
    /\ Trouble
    /\ UNCHANGED <<grid, requires>>

\* detach, on disconnection or removal.
Detach(p) ==
    /\ peers[p].attached
    /\ \E kept \in BOOLEAN :
         Becomes([Change(p, Absent) EXCEPT !.subscribed[p] = @ /\ kept])
    /\ Trouble
    /\ UNCHANGED <<deferred, grid, requires>>

(***************************************************************************)
(* What comes back from the peer.                                          *)
(***************************************************************************)
\* resolve, of a binding request.
BindingAnswered(p, f, granted) ==
    /\ peers[p].attached /\ f \in peers[p].pending_bindings
    /\ IF granted THEN UNCHANGED trouble ELSE Trouble
    /\ Becomes(BecomeReady(
         Change(p, [peers[p] EXCEPT
                      !.pending_bindings = @ \ {f},
                      !.bound = IF granted THEN @ \cup {f} ELSE @]), p))
    /\ UNCHANGED <<deferred, grid, requires>>

\* learn_ids, from a description that names the limit or does not: the reply
\* to the read, or one that comes after the read was given up.
DescriptionLearned(p, f, usable) ==
    /\ peers[p].attached
    /\ f \in peers[p].pending_reads \/ (f = "LoadControl" /\ ~peers[p].limit_id)
    /\ IF usable
       THEN /\ Becomes(BecomeReady(
                 Change(p, [peers[p] EXCEPT
                              !.pending_reads = @ \ {f},
                              !.limit_id = @ \/ f = "LoadControl"]), p))
            /\ UNCHANGED trouble
       ELSE /\ f = "LoadControl" /\ ~peers[p].limit_id
            /\ Becomes(Change(p, [peers[p] EXCEPT !.reported_no_limit = TRUE]))
            /\ Trouble
    /\ UNCHANGED <<deferred, grid, requires>>

\* SubscriptionGranted on the guard's own heartbeat.
Subscribe(p) ==
    /\ ~subscribed[p] \/ ~peers[p].watches_heartbeat
    /\ LET g == [Current EXCEPT !.subscribed[p] = TRUE]
       IN  Becomes(IF peers[p].attached
                   THEN WriteLimitIfDue(
                          [g EXCEPT !.peers[p].watches_heartbeat = TRUE], {p})
                   ELSE g)
    /\ UNCHANGED <<deferred, grid, requires, trouble>>

\* resolve, of a limit write that was accepted.
LimitAccepted(p) ==
    /\ peers[p].outstanding # NoLimit
    /\ Becomes(Change(p, [peers[p] EXCEPT
                 !.applied = peers[p].outstanding, !.outstanding = NoLimit,
                 !.refusals = 0, !.retry_at = None]))
    /\ UNCHANGED <<deferred, grid, requires, trouble>>

\* resolve, of a refused write: keep the device, back off a step further.
Refused(t) ==
    LET backoff == RetryBackoffStep * (t.refusals + 1)
    IN  [t EXCEPT !.outstanding = NoLimit, !.refusals = @ + 1,
                  !.retry_at = backoff, !.write_due_at = backoff]

LimitRefused(p) ==
    /\ peers[p].outstanding # NoLimit
    /\ Trouble
    /\ Becomes(Change(p, Refused(peers[p])))
    /\ UNCHANGED <<deferred, grid, requires>>

\* give_up: the engine's escalation path is exhausted.
LimitUnanswered(p) ==
    /\ peers[p].outstanding # NoLimit
    /\ Trouble
    /\ Becomes(Change(p, [peers[p] EXCEPT !.outstanding = NoLimit,
                                          !.write_due_at = 0]))
    /\ UNCHANGED <<deferred, grid, requires>>

RequestUnanswered(p, f) ==
    /\ peers[p].attached
    /\ Trouble
    /\ \/ /\ f \in peers[p].pending_reads
          /\ Becomes(Change(p, [peers[p] EXCEPT !.pending_reads = @ \ {f}]))
       \/ /\ f \in peers[p].pending_bindings
          /\ Becomes(Change(p, [peers[p] EXCEPT !.pending_bindings = @ \ {f}]))
    /\ UNCHANGED <<deferred, grid, requires>>

\* observe_applied: the peer reports what it is limited to.
LimitNotified(p, l) ==
    LET t == peers[p]
        noted == [t EXCEPT !.applied = l]
    IN  /\ t.attached /\ t.limit_id
        /\ Trouble
        /\ IF \/ t.outstanding # NoLimit
              \/ t.applied # NoLimit /\ SameLimit(t.applied, l)
           THEN Becomes(Current)
           ELSE Becomes(IF WantsWrite(noted)
                        THEN WriteLimitIfDue(
                               Change(p, [noted EXCEPT !.write_due_at = 0]), {p})
                        ELSE Change(p, noted))
        /\ UNCHANGED <<deferred, grid, requires>>

(***************************************************************************)
(* Time.                                                                   *)
(***************************************************************************)
\* poll_timeout: the instants the guard wants to be woken at; 0 is now or past.
Deadlines ==
    {next} \cup {peers[p].write_due_at : p \in Peers}
           \cup {peers[p].retry_at : p \in Peers}

\* handle_timeout, whenever the driver wakes: the heartbeat first, if it is
\* due, then every peer in turn.
HandleTimeout ==
    /\ Becomes(WriteLimitIfDue(IF next = 0 THEN Beat(Current) ELSE Current,
                               {p \in Peers : peers[p].attached}))
    /\ UNCHANGED <<deferred, grid, requires, trouble>>

Less(d) == IF d > 0 THEN d - 1 ELSE d

\* Time passes once the driver has served what was due.  An old retry_at alone
\* does not stop it: there is nothing to serve.
Tick ==
    /\ next > 0
    /\ \A p \in Peers : peers[p].write_due_at # 0
    /\ next' = next - 1
    /\ peers' = [p \in Peers |-> IF ~peers[p].attached THEN peers[p] ELSE
                   [peers[p] EXCEPT !.rate = Less(@), !.grace = Less(@),
                                    !.fresh = Less(@), !.retry_at = Less(@),
                                    !.write_due_at = Less(@)]]
    /\ received' = [p \in Peers |-> Less(received[p])]
    /\ UNCHANGED <<subscribed, deferred, grid, requires, trouble>>

Answered(p) ==
    \/ LimitAccepted(p) \/ LimitRefused(p) \/ LimitUnanswered(p)

Next ==
    \/ \E p \in Peers :
         \/ \E l \in Limits \cup {NoLimit} : Require(p, l)
         \/ Attach(p) \/ Reattach(p) \/ Detach(p) \/ Subscribe(p)
         \/ \E f \in Features :
              \/ \E b \in BOOLEAN : \/ BindingAnswered(p, f, b)
                                    \/ DescriptionLearned(p, f, b)
              \/ RequestUnanswered(p, f)
         \/ Answered(p)
         \/ \E l \in Notices : LimitNotified(p, l)
    \/ \E l \in Limits \cup {NoLimit} : RequireAll(l)
    \/ HandleTimeout
    \/ Tick

Spec == Init /\ [][Next]_vars

\* The driver serves what is due, time passes, and every write is answered or
\* given up: the engine's own response deadline ends the wait for an answer.
Fairness ==
    /\ WF_vars(HandleTimeout)
    /\ WF_vars(Tick)
    /\ \A p \in Peers : WF_vars(Answered(p))

FairSpec == Spec /\ Fairness

-----------------------------------------------------------------------------
(***************************************************************************)
(* Properties.                                                             *)
(***************************************************************************)
Limit == [active : BOOLEAN, watts : Int, duration : Nat \cup {None}]

Writable == {l \in Limit : l.watts >= 0 /\ ~(l.active /\ l.duration = 0)}

Tracked ==
    [attached : BOOLEAN, bound : SUBSET Features,
     pending_bindings : SUBSET Features, pending_reads : SUBSET Features,
     limit_id : BOOLEAN, reported_no_limit : BOOLEAN, ready_reported : BOOLEAN,
     required : Writable \cup {NoLimit}, outstanding : Writable \cup {NoLimit},
     applied : Limit, rate : 0 .. MinWriteInterval,
     write_due_at : Nat \cup {None}, retry_at : Nat \cup {None},
     refusals : Nat, grace : 0 .. SubscriptionGrace,
     watches_heartbeat : BOOLEAN, fresh : 0 .. HeartbeatFreshness,
     opening_write_sent : BOOLEAN]

\* The state has the types of Tracked, and no limit that is required of a peer
\* or on its way to one carries what implementation guide §2.2 forbids: a
\* negative power, or a duration of zero while active.
TypeOK ==
    /\ next \in 0 .. HeartbeatPeriod
    /\ peers \in [Peers -> Tracked]
    /\ deferred \in [Peers -> SUBSET (Limits \cup {NoLimit})]
    /\ subscribed \in [Peers -> BOOLEAN]
    /\ received \in [Peers -> 0 .. HeartbeatFreshness]

\* A limit goes out to p in this step.
Sends(p) ==
    peers[p].outstanding = NoLimit /\ peers'[p].outstanding # NoLimit

\* A limit never goes out to a subscribed peer that has not received a
\* heartbeat within the freshness window (guide §2.11): whichever peer the
\* last beat was for, and whether the guard knows of the subscription or the
\* peer kept one across a reconnection (beat_seen_at, record_beat).
LimitIsHeard ==
    [][\A p \in Peers : (Sends(p) /\ subscribed'[p]) => received'[p] > 0]_vars

\* When handle_timeout returns, every instant poll_timeout reports is in the
\* future, but for the retry of a refused write that is no longer wanted
\* (write_due_at is cleared or pushed back on every path).
DeadlinesAdvance ==
    [][HandleTimeout =>
         \A d \in {next'} \cup {peers'[p].write_due_at : p \in Peers} : d # 0
       ]_vars

\* A peer that becomes ready is sent the opening write whether or not the grid
\* asks anything of it (guide §2.11, wants_write).
OpeningWriteIsSent ==
    \A p \in Peers :
        IsReady(peers[p]) ~>
            (peers[p].opening_write_sent \/ ~IsReady(peers[p]))

\* An active limit the grid requires of a ready peer is what the peer has
\* acknowledged in the end, through refusals, silences and limits the peer
\* changes by itself, unless the grid changes its mind or the connection is
\* lost (resolve, give_up, observe_applied).
RequirementReaches ==
    \A p \in Peers : \A l \in {x \in Limits : x.active} :
        (IsReady(peers[p]) /\ peers[p].required = Normalise(l)) ~>
            \/ ~IsReady(peers[p])
            \/ peers[p].required # Normalise(l)
            \/ peers[p].applied = Normalise(l)

\* Stated at guard.rs:667, "Every deadline reported here advances": when
\* handle_timeout returns, poll_timeout reports an instant in the future.
EveryDeadlineAdvances == [][HandleTimeout => 0 \notin Deadlines']_vars

\* Stated at guard.rs:11, "Never deactivate on reconnection (§2.13). The first
\* limit after a connection is restored is the one the grid currently needs,
\* activated."
NeverDeactivatesWhileRequired ==
    [][\A p \in Peers :
         (Sends(p) /\ grid[p].active) => peers'[p].outstanding.active]_vars
=============================================================================
