------------------------- MODULE EnergyGuard_proofs -------------------------
(***************************************************************************)
(* Theorems of EnergyGuard, for every set of peers, every set of limits    *)
(* and every length of the timers.                                         *)
(*                                                                         *)
(* The inductive invariant is TypeOK with Coherence: what the guard believes a *)
(* peer has received (fresh) is never more than what the peer did receive  *)
(* (received), because the guard only counts beats for peers it knows to   *)
(* be subscribed; and a device that is not attached has no record.         *)
(***************************************************************************)
EXTENDS EnergyGuard, TLAPS

\* The guard as write_limit_if_due takes it.
GuardType ==
    [next : 0 .. HeartbeatPeriod, peers : [Peers -> Tracked],
     subscribed : [Peers -> BOOLEAN],
     received : [Peers -> 0 .. HeartbeatFreshness]]

CoherentWith(t, sub, got) ==
    /\ t.watches_heartbeat => sub /\ t.fresh <= got
    /\ t.fresh > 0 => t.watches_heartbeat
    /\ t.attached \/ t = Absent

CoherentIn(g) ==
    \A p \in Peers : CoherentWith(g.peers[p], g.subscribed[p], g.received[p])

Coherence == CoherentIn(Current)

\* From g to h a limit goes only to a peer that has received a fresh beat.
SoundStep(g, h) ==
    \A p \in Peers :
        (/\ g.peers[p].outstanding = NoLimit
         /\ h.peers[p].outstanding # NoLimit
         /\ h.subscribed[p]) => h.received[p] > 0

IInv == TypeOK /\ Coherence

-----------------------------------------------------------------------------
(***************************************************************************)
(* The operators.                                                          *)
(***************************************************************************)
\* The timers, one by one.
LEMMA Times ==
    /\ HeartbeatPeriod \in Nat /\ HeartbeatPeriod > 0
    /\ HeartbeatFreshness \in Nat /\ HeartbeatFreshness > 0
    /\ SubscriptionGrace \in Nat /\ SubscriptionGrace > 0
    /\ MinWriteInterval \in Nat /\ MinWriteInterval > 0
    /\ RetryBackoffStep \in Nat /\ RetryBackoffStep > 0
BY TimesAssumption

\* The limits are limits, and none of them is the absent one.
LEMMA LimitTypes ==
    /\ NoLimit \in Limit
    /\ \A l \in Limits \cup Notices : l \in Limit /\ l # NoLimit
<1>1. NoLimit \in Limit
  BY DEF NoLimit, Limit, None
<1> QED
  BY <1>1, LimitsAssumption DEF Limit

\* new() has the type of Tracked, and has heard nothing.
LEMMA NewType ==
    /\ New \in Tracked
    /\ Absent \in Tracked
    /\ New.outstanding = NoLimit /\ Absent.outstanding = NoLimit
    /\ New.watches_heartbeat = FALSE /\ Absent.watches_heartbeat = FALSE
    /\ New.fresh = 0 /\ Absent.fresh = 0
    /\ New.attached
<1>1. New \in Tracked
  BY LimitTypes, Times DEF New, Tracked, None
<1>2. Absent \in Tracked
  BY <1>1 DEF Absent, Tracked
<1> QED
  BY <1>1, <1>2 DEF New, Absent

\* normalise() makes any limit fit to be written.
LEMMA NormaliseType ==
    ASSUME NEW l \in Limit
    PROVE  Normalise(l) \in Writable
<1> DEFINE w == IF l.watts < 0 THEN 0 ELSE l.watts
           d == IF l.active /\ l.duration = 0 THEN None ELSE l.duration
<1>1. w \in Int /\ w >= 0
  BY DEF Limit
<1>2. d \in Nat \cup {None} /\ ~(l.active /\ d = 0)
  BY DEF Limit, None
<1>3. Normalise(l) = [l EXCEPT !.watts = w, !.duration = d]
  BY DEF Normalise
<1> HIDE DEF w, d
<1> QED
  BY <1>1, <1>2, <1>3 DEF Limit, Writable

\* set_required() keeps the type, and leaves the heartbeat and the write in
\* flight alone.
LEMMA SetRequiredType ==
    ASSUME NEW t \in Tracked, NEW l \in Limits \cup {NoLimit}
    PROVE  /\ SetRequired(t, l) \in Tracked
           /\ SetRequired(t, l).outstanding = t.outstanding
           /\ SetRequired(t, l).watches_heartbeat = t.watches_heartbeat
           /\ SetRequired(t, l).fresh = t.fresh
           /\ SetRequired(t, l).attached = t.attached
<1>1. l # NoLimit => Normalise(l) \in Writable
  BY NormaliseType, LimitTypes
<1> DEFINE r == IF l = NoLimit THEN NoLimit ELSE Normalise(l)
<1>2. r \in Writable \cup {NoLimit}
  BY <1>1
<1>3. SetRequired(t, l) = [t EXCEPT !.required = r, !.retry_at = None,
                             !.refusals = 0, !.write_due_at = 0]
  BY DEF SetRequired
<1> HIDE DEF r
<1>4. SetRequired(t, l) \in Tracked
  <2> DEFINE u == [t EXCEPT !.required = r, !.retry_at = None]
  <2>1. u \in Tracked
    BY <1>2 DEF Tracked
  <2>2. SetRequired(t, l) = [u EXCEPT !.refusals = 0, !.write_due_at = 0]
    BY <1>3 DEF Tracked
  <2> HIDE DEF u
  <2>3. \A n \in Nat : [u EXCEPT !.refusals = n, !.write_due_at = n] \in Tracked
    BY <2>1 DEF Tracked
  <2> QED
    BY <2>2, <2>3
<1>5. /\ SetRequired(t, l).outstanding = t.outstanding
      /\ SetRequired(t, l).watches_heartbeat = t.watches_heartbeat
      /\ SetRequired(t, l).fresh = t.fresh
      /\ SetRequired(t, l).attached = t.attached
  BY <1>3 DEF Tracked
<1> QED
  BY <1>4, <1>5

\* A record sent a limit is still a record, with the heartbeat untouched.
LEMMA WrittenType ==
    ASSUME NEW t \in Tracked
    PROVE  /\ Written(t) \in Tracked
           /\ Written(t).watches_heartbeat = t.watches_heartbeat
           /\ Written(t).fresh = t.fresh
           /\ Written(t).attached = t.attached
<1> DEFINE o == IF t.required = NoLimit THEN Deactivated ELSE t.required
           r == IF t.opening_write_sent THEN MinWriteInterval ELSE 0
<1>1. o \in Writable \cup {NoLimit}
  BY DEF Tracked, Deactivated, Writable, Limit, None
<1>2. r \in 0 .. MinWriteInterval
  BY Times DEF Tracked
<1>3. Written(t) = [t EXCEPT !.outstanding = o, !.rate = r, !.retry_at = None,
                      !.write_due_at = None, !.opening_write_sent = TRUE]
  BY DEF Written
<1> HIDE DEF o, r
<1> QED
  BY <1>1, <1>2, <1>3 DEF Tracked, None

\* What holds a write back is a time.
LEMMA HeldUntilType ==
    ASSUME NEW t \in Tracked
    PROVE  HeldUntil(t) \in Nat
BY DEF HeldUntil, CanBeHeard, Tracked, None

\* One peer's turn: the heartbeat is untouched, and a limit goes out only when
\* nothing holds it back.
LEMMA TurnType ==
    ASSUME NEW t \in Tracked
    PROVE  /\ Turn(t) \in Tracked
           /\ Turn(t).watches_heartbeat = t.watches_heartbeat
           /\ Turn(t).fresh = t.fresh
           /\ Turn(t).attached = t.attached
           /\ t = Absent => Turn(t) = Absent
           /\ (t.outstanding = NoLimit /\ Turn(t).outstanding # NoLimit)
                => Sendable(t) /\ HeldUntil(t) = 0
           /\ Turn(t).write_due_at # 0
<1>0. t = Absent => ~Sendable(t)
  BY DEF Absent, New, Sendable, IsReady, Features
<1>1. CASE ~Sendable(t)
  <2>1. Turn(t) = [t EXCEPT !.write_due_at = None]
    BY <1>1 DEF Turn
  <2>2. t = Absent => t.write_due_at = None
    BY DEF Absent, New
  <2>3. t.write_due_at = None => [t EXCEPT !.write_due_at = None] = t
    BY DEF Tracked
  <2>4. t = Absent => Turn(t) = Absent
    BY <2>1, <2>2, <2>3
  <2> QED
    BY <2>1, <2>4 DEF Tracked, None
<1>2. CASE Sendable(t) /\ HeldUntil(t) > 0
  <2>1. Turn(t) = [t EXCEPT !.write_due_at = HeldUntil(t)]
    BY <1>2 DEF Turn
  <2>2. HeldUntil(t) \in Nat \ {0}
    BY <1>2, HeldUntilType
  <2> QED
    BY <1>0, <1>2, <2>1, <2>2 DEF Tracked
<1>3. CASE Sendable(t) /\ ~(HeldUntil(t) > 0)
  <2>1. Turn(t) = Written(t) /\ HeldUntil(t) = 0
    BY <1>3, HeldUntilType DEF Turn
  <2>2. Written(t).write_due_at = None
    BY DEF Written, Tracked
  <2> QED
    BY <1>0, <1>3, <2>1, <2>2, WrittenType DEF None
<1> QED
  BY <1>1, <1>2, <1>3

\* A beat reaches every peer that is watching, and is counted for no other.
LEMMA BeatType ==
    ASSUME NEW g \in GuardType, CoherentIn(g)
    PROVE  /\ Beat(g) \in GuardType
           /\ CoherentIn(Beat(g))
           /\ Beat(g).next = HeartbeatPeriod
           /\ \A p \in Peers :
                /\ Beat(g).subscribed[p] = g.subscribed[p]
                /\ g.subscribed[p] => Beat(g).received[p] > 0
                /\ Beat(g).peers[p].outstanding = g.peers[p].outstanding
                /\ Sendable(Beat(g).peers[p]) = Sendable(g.peers[p])
                /\ HeldUntil(Beat(g).peers[p]) = HeldUntil(g.peers[p])
<1> DEFINE b == RecordBeat(g.peers)
           h == Beaten(g.subscribed, g.received)
<1>1. \A p \in Peers :
        b[p] = IF g.peers[p].attached /\ g.peers[p].watches_heartbeat
               THEN [g.peers[p] EXCEPT !.fresh = HeartbeatFreshness]
               ELSE g.peers[p]
  BY DEF RecordBeat
<1>2. b \in [Peers -> Tracked]
  <2>1. \A t \in Tracked : [t EXCEPT !.fresh = HeartbeatFreshness] \in Tracked
    BY Times DEF Tracked
  <2> QED
    BY <1>1, <2>1 DEF RecordBeat, GuardType
<1>3. /\ h \in [Peers -> 0 .. HeartbeatFreshness]
      /\ \A p \in Peers : h[p] = IF g.subscribed[p] THEN HeartbeatFreshness
                                 ELSE g.received[p]
  BY Times DEF Beaten, GuardType
<1>4. /\ Beat(g) = [next |-> HeartbeatPeriod, peers |-> b,
                    subscribed |-> g.subscribed, received |-> h]
  BY DEF Beat, Guard
<1> HIDE DEF b, h
<1>5. Beat(g) \in GuardType
  BY Times, <1>2, <1>3, <1>4 DEF GuardType
<1>6. ASSUME NEW p \in Peers
      PROVE  /\ CoherentWith(b[p], g.subscribed[p], h[p])
             /\ g.subscribed[p] => h[p] > 0
             /\ b[p].outstanding = g.peers[p].outstanding
             /\ Sendable(b[p]) = Sendable(g.peers[p])
             /\ HeldUntil(b[p]) = HeldUntil(g.peers[p])
  <2> DEFINE t == g.peers[p]
  <2>1. t \in Tracked /\ CoherentWith(t, g.subscribed[p], g.received[p])
    BY DEF GuardType, CoherentIn
  <2>2. \/ b[p] = t
        \/ /\ t.attached /\ t.watches_heartbeat
           /\ b[p] = [t EXCEPT !.fresh = HeartbeatFreshness]
    BY <1>1
  <2>3. g.subscribed[p] \in BOOLEAN /\ g.received[p] \in 0 .. HeartbeatFreshness
    BY DEF GuardType
  <2>4. \/ h[p] = HeartbeatFreshness /\ g.subscribed[p]
        \/ h[p] = g.received[p] /\ ~g.subscribed[p]
    BY <1>3, <2>3
  <2> HIDE DEF t
  <2>5. CoherentWith(b[p], g.subscribed[p], h[p])
    BY Times, <2>1, <2>2, <2>3, <2>4 DEF CoherentWith, Tracked
  <2>6. /\ b[p].outstanding = t.outstanding
        /\ Sendable(b[p]) = Sendable(t)
        /\ HeldUntil(b[p]) = HeldUntil(t)
    <3>1. CASE b[p] = t
      BY <3>1
    <3>2. CASE b[p] = [t EXCEPT !.fresh = HeartbeatFreshness]
      BY <2>1, <3>2 DEF Tracked, Sendable, IsReady, WantsWrite, HeldUntil, CanBeHeard
    <3> QED
      BY <2>2, <3>1, <3>2
  <2> QED
    BY Times, <2>3, <2>4, <2>5, <2>6 DEF t
<1> QED
  BY <1>4, <1>5, <1>6 DEF CoherentIn

\* write_limit_if_due(): whoever gets a limit has received a fresh heartbeat,
\* because it was fresh already or because one has just been sent.
LEMMA WriteLimitIfDueSound ==
    ASSUME NEW g \in GuardType, CoherentIn(g), NEW S \in SUBSET Peers
    PROVE  /\ WriteLimitIfDue(g, S) \in GuardType
           /\ CoherentIn(WriteLimitIfDue(g, S))
           /\ SoundStep(g, WriteLimitIfDue(g, S))
           /\ WriteLimitIfDue(g, S).next \in {g.next, HeartbeatPeriod}
           /\ \A p \in S : WriteLimitIfDue(g, S).peers[p].write_due_at # 0
<1> DEFINE writes(p) == Sendable(g.peers[p]) /\ HeldUntil(g.peers[p]) = 0
           due == \E p \in S : writes(p) /\ Stale(g, p)
           h == IF due THEN Beat(g) ELSE g
           k == [p \in Peers |-> IF p \in S THEN Turn(h.peers[p]) ELSE h.peers[p]]
<1>1. WriteLimitIfDue(g, S) = [h EXCEPT !.peers = k]
  BY DEF WriteLimitIfDue
<1>2. /\ h \in GuardType
      /\ CoherentIn(h)
      /\ h.next \in {g.next, HeartbeatPeriod}
  BY BeatType
<1>3. \A p \in Peers :
        /\ h.subscribed[p] = g.subscribed[p]
        /\ h.peers[p].outstanding = g.peers[p].outstanding
        /\ Sendable(h.peers[p]) = Sendable(g.peers[p])
        /\ HeldUntil(h.peers[p]) = HeldUntil(g.peers[p])
        /\ (due /\ g.subscribed[p]) => h.received[p] > 0
        /\ ~due => h = g
  BY BeatType
<1>4. \A p \in Peers : k[p] = IF p \in S THEN Turn(h.peers[p]) ELSE h.peers[p]
  OBVIOUS
<1>5. k \in [Peers -> Tracked]
  BY <1>2, TurnType DEF GuardType
<1> HIDE DEF h, k
<1>6. /\ WriteLimitIfDue(g, S).next = h.next
      /\ WriteLimitIfDue(g, S).peers = k
      /\ WriteLimitIfDue(g, S).subscribed = h.subscribed
      /\ WriteLimitIfDue(g, S).received = h.received
      /\ WriteLimitIfDue(g, S) \in GuardType
  BY <1>1, <1>2, <1>5 DEF GuardType
<1>7. ASSUME NEW p \in Peers
      PROVE  /\ CoherentWith(k[p], h.subscribed[p], h.received[p])
             /\ p \in S => k[p].write_due_at # 0
             /\ (/\ g.peers[p].outstanding = NoLimit
                 /\ k[p].outstanding # NoLimit
                 /\ h.subscribed[p]) => h.received[p] > 0
  <2>1. /\ h.peers[p] \in Tracked
        /\ g.peers[p] \in Tracked
        /\ CoherentWith(h.peers[p], h.subscribed[p], h.received[p])
    BY <1>2 DEF GuardType, CoherentIn
  <2>2. /\ k[p].watches_heartbeat = h.peers[p].watches_heartbeat
        /\ k[p].fresh = h.peers[p].fresh
        /\ k[p].attached = h.peers[p].attached
        /\ h.peers[p] = Absent => k[p] = Absent
        /\ p \in S => k[p].write_due_at # 0
    BY <1>4, <2>1, TurnType
  <2>3. CoherentWith(k[p], h.subscribed[p], h.received[p])
    BY <2>1, <2>2 DEF CoherentWith
  <2>4. ASSUME g.peers[p].outstanding = NoLimit, k[p].outstanding # NoLimit,
               h.subscribed[p]
        PROVE  h.received[p] > 0
    <3>1. p \in S /\ writes(p)
      BY <1>3, <1>4, <2>1, <2>4, TurnType
    <3>2. CASE due
      BY <1>3, <2>4, <3>2
    <3>3. CASE ~due
      <4>1. h = g /\ ~Stale(g, p)
        BY <1>3, <3>1, <3>3
      <4>2. h.peers[p].fresh > 0
        BY <2>1, <4>1 DEF Stale, Tracked
      <4>3. h.received[p] \in 0 .. HeartbeatFreshness
        BY <1>2 DEF GuardType
      <4> QED
        BY <2>1, <4>2, <4>3, Times DEF CoherentWith, Tracked
    <3> QED
      BY <3>2, <3>3
  <2> QED
    BY <2>2, <2>3, <2>4
<1> QED
  BY <1>2, <1>6, <1>7 DEF CoherentIn, SoundStep

\* A device that is not attached is passed over, beat or no beat.
LEMMA Unattached ==
    ASSUME NEW g \in GuardType, CoherentIn(g), NEW S, NEW p \in Peers \ S,
           g.peers[p] = Absent
    PROVE  /\ Beat(g).peers[p] = Absent
           /\ WriteLimitIfDue(g, S).peers[p] = Absent
<1> DEFINE h == IF \E q \in S : /\ Sendable(g.peers[q])
                                /\ HeldUntil(g.peers[q]) = 0
                                /\ Stale(g, q)
                THEN Beat(g) ELSE g
           k == [q \in Peers |-> IF q \in S THEN Turn(h.peers[q]) ELSE h.peers[q]]
<1>1. Beat(g).peers[p] = Absent
  BY NewType DEF Beat, Guard, RecordBeat
<1>2. h.peers[p] = Absent /\ h \in GuardType
  BY <1>1, BeatType
<1>3. WriteLimitIfDue(g, S) = [h EXCEPT !.peers = k]
  BY DEF WriteLimitIfDue
<1>4. k[p] = Absent
  BY <1>2
<1> HIDE DEF h, k
<1>5. WriteLimitIfDue(g, S).peers = k
  BY <1>2, <1>3 DEF GuardType
<1> QED
  BY <1>1, <1>4, <1>5

\* become_ready() is a write_limit_if_due for one peer, or nothing.
LEMMA BecomeReadySound ==
    ASSUME NEW g \in GuardType, CoherentIn(g), NEW p \in Peers,
           g.peers[p].attached
    PROVE  /\ BecomeReady(g, p) \in GuardType
           /\ CoherentIn(BecomeReady(g, p))
           /\ SoundStep(g, BecomeReady(g, p))
<1> DEFINE t == [g.peers[p] EXCEPT !.ready_reported = TRUE]
           h == [g EXCEPT !.peers[p].ready_reported = TRUE]
<1>1. g.peers[p] \in Tracked
  BY DEF GuardType
<1>2. /\ t \in Tracked
      /\ t.outstanding = g.peers[p].outstanding
      /\ t.watches_heartbeat = g.peers[p].watches_heartbeat
      /\ t.fresh = g.peers[p].fresh
      /\ t.attached
  BY <1>1 DEF Tracked
<1>3. h = [g EXCEPT !.peers = [@ EXCEPT ![p] = t]]
  BY DEF GuardType
<1> HIDE DEF t, h
<1>4. /\ h \in GuardType
      /\ h.subscribed = g.subscribed
      /\ h.received = g.received
      /\ \A q \in Peers : h.peers[q] = IF q = p THEN t ELSE g.peers[q]
  BY <1>2, <1>3 DEF GuardType
<1>5. CoherentIn(h)
  BY <1>2, <1>4 DEF CoherentIn, CoherentWith
<1>6. \A q \in Peers : h.peers[q].outstanding = g.peers[q].outstanding
  BY <1>2, <1>4
<1>7. SoundStep(g, WriteLimitIfDue(h, {p}))
  BY <1>4, <1>5, <1>6, WriteLimitIfDueSound DEF SoundStep
<1>8. SoundStep(g, g)
  BY DEF SoundStep
<1> QED
  BY <1>4, <1>5, <1>7, <1>8, WriteLimitIfDueSound DEF BecomeReady, h

-----------------------------------------------------------------------------
(***************************************************************************)
(* The steps.                                                              *)
(***************************************************************************)
\* No limit is sent to a subscribed peer without a fresh heartbeat in this
\* step.
SoundNext ==
    \A p \in Peers : (Sends(p) /\ subscribed'[p]) => received'[p] > 0

\* The current state is a guard.
LEMMA CurrentGuard ==
    ASSUME IInv
    PROVE  /\ Current \in GuardType
           /\ CoherentIn(Current)
           /\ Current.next = next
           /\ Current.peers = peers
           /\ Current.subscribed = subscribed
           /\ Current.received = received
           /\ SoundStep(Current, Current)
<1>1. /\ Current \in GuardType
      /\ Current.next = next
      /\ Current.peers = peers
      /\ Current.subscribed = subscribed
      /\ Current.received = received
  BY DEF IInv, TypeOK, Current, Guard, GuardType
<1> QED
  BY <1>1 DEF IInv, Coherence, SoundStep

\* Where a sound guard is reached, the invariant holds again.
LEMMA BecomesSound ==
    ASSUME IInv, NEW g \in GuardType, CoherentIn(g), SoundStep(Current, g),
           Becomes(g), deferred' \in [Peers -> SUBSET (Limits \cup {NoLimit})]
    PROVE  IInv' /\ SoundNext
<1>1. /\ next' = g.next /\ peers' = g.peers
      /\ subscribed' = g.subscribed /\ received' = g.received
  BY DEF Becomes
<1>2. TypeOK'
  BY <1>1 DEF TypeOK, GuardType
<1>3. Coherence'
  BY <1>1 DEF Coherence, Current, Guard, CoherentIn
<1>4. SoundNext
  BY <1>1, CurrentGuard DEF SoundNext, SoundStep, Sends
<1> QED
  BY <1>2, <1>3, <1>4 DEF IInv

\* One record replaced by another that sends nothing.
LEMMA ChangeSound ==
    ASSUME IInv, NEW p \in Peers, NEW t \in Tracked,
           CoherentWith(t, subscribed[p], received[p]),
           t.outstanding \in {peers[p].outstanding, NoLimit}
    PROVE  /\ Change(p, t) \in GuardType
           /\ CoherentIn(Change(p, t))
           /\ SoundStep(Current, Change(p, t))
           /\ Change(p, t).peers[p] = t
           /\ Change(p, t).subscribed = subscribed
           /\ Change(p, t).received = received
           /\ \A q \in Peers \ {p} : Change(p, t).peers[q] = peers[q]
<1>1. Change(p, t) = [Current EXCEPT !.peers = [peers EXCEPT ![p] = t]]
  BY CurrentGuard DEF Change, GuardType
<1>2. /\ Change(p, t) \in GuardType
      /\ Change(p, t).peers = [peers EXCEPT ![p] = t]
      /\ Change(p, t).subscribed = subscribed
      /\ Change(p, t).received = received
  BY <1>1, CurrentGuard DEF GuardType
<1>3. /\ peers \in [Peers -> Tracked]
      /\ \A q \in Peers : CoherentWith(peers[q], subscribed[q], received[q])
  BY CurrentGuard DEF GuardType, CoherentIn
<1>4. CoherentIn(Change(p, t))
  BY <1>2, <1>3 DEF CoherentIn
<1>5. SoundStep(Current, Change(p, t))
  BY <1>2, <1>3, CurrentGuard DEF SoundStep
<1> QED
  BY <1>2, <1>3, <1>4, <1>5

\* A limit in flight is in flight to an attached peer.
LEMMA InFlightAttached ==
    ASSUME IInv, NEW p \in Peers
    PROVE  /\ peers[p] \in Tracked
           /\ CoherentWith(peers[p], subscribed[p], received[p])
           /\ peers[p].outstanding # NoLimit => peers[p].attached
<1>1. /\ peers[p] \in Tracked
      /\ CoherentWith(peers[p], subscribed[p], received[p])
  BY CurrentGuard DEF GuardType, CoherentIn
<1> QED
  BY <1>1, NewType DEF CoherentWith

\* What SoundStep does not look at may change first.
LEMMA SoundAfter ==
    ASSUME NEW g, NEW h, NEW k, SoundStep(h, k),
           \A q \in Peers : g.peers[q].outstanding = h.peers[q].outstanding
    PROVE  SoundStep(g, k)
BY DEF SoundStep

\* attach() makes a new record.
LEMMA AttachedType ==
    ASSUME IInv, NEW p \in Peers
    PROVE  /\ Attached(p) \in Tracked
           /\ Attached(p).outstanding = NoLimit
           /\ \A sub, got : CoherentWith(Attached(p), sub, got)
<1>1. deferred[p] # {} =>
        (CHOOSE l \in deferred[p] : TRUE) \in Limits \cup {NoLimit}
  BY DEF IInv, TypeOK
<1>2. /\ Attached(p) \in Tracked
      /\ Attached(p).outstanding = NoLimit
      /\ Attached(p).watches_heartbeat = FALSE
      /\ Attached(p).fresh = 0
      /\ Attached(p).attached
  <2> DEFINE l == CHOOSE l \in deferred[p] : TRUE
  <2>1. CASE deferred[p] = {}
    BY <2>1, NewType DEF Attached
  <2>2. CASE deferred[p] # {}
    <3>1. Attached(p) = SetRequired(New, l) /\ l \in Limits \cup {NoLimit}
      BY <1>1, <2>2 DEF Attached
    <3> HIDE DEF l
    <3> QED
      BY <3>1, NewType, SetRequiredType
  <2> QED
    BY <2>1, <2>2
<1> QED
  BY <1>2 DEF CoherentWith

\* require() of one peer.
LEMMA RequireSound ==
    ASSUME IInv, NEW p \in Peers, NEW l \in Limits \cup {NoLimit}, Require(p, l)
    PROVE  IInv' /\ SoundNext
<1>1. deferred' \in [Peers -> SUBSET (Limits \cup {NoLimit})]
  BY DEF Require, IInv, TypeOK
<1>2. CASE peers[p].attached
  <2> DEFINE t == SetRequired(peers[p], l)
  <2>1. /\ t \in Tracked
        /\ CoherentWith(t, subscribed[p], received[p])
        /\ t.outstanding = peers[p].outstanding
    BY <1>2, InFlightAttached, SetRequiredType DEF CoherentWith
  <2> HIDE DEF t
  <2>2. Becomes(Change(p, t))
    BY <1>2 DEF Require, t
  <2> QED
    BY <1>1, <2>1, <2>2, ChangeSound, BecomesSound
<1>3. CASE ~peers[p].attached
  BY <1>1, <1>3, CurrentGuard, BecomesSound DEF Require
<1> QED
  BY <1>2, <1>3

\* require_all().
LEMMA RequireAllSound ==
    ASSUME IInv, NEW l \in Limits \cup {NoLimit}, RequireAll(l)
    PROVE  IInv' /\ SoundNext
<1> DEFINE k == [p \in Peers |-> IF peers[p].attached
                                 THEN SetRequired(peers[p], l) ELSE peers[p]]
           g == [Current EXCEPT !.peers = k]
<1>1. Becomes(g)
  BY CurrentGuard DEF RequireAll
<1>2. \A p \in Peers :
        /\ k[p] \in Tracked
        /\ CoherentWith(k[p], subscribed[p], received[p])
        /\ k[p].outstanding = peers[p].outstanding
  BY InFlightAttached, SetRequiredType DEF CoherentWith
<1>3. k \in [Peers -> Tracked]
  BY <1>2
<1> HIDE DEF k
<1>4. /\ g \in GuardType
      /\ g.peers = k
      /\ g.subscribed = subscribed
      /\ g.received = received
  BY <1>3, CurrentGuard DEF GuardType
<1>5. CoherentIn(g) /\ SoundStep(Current, g)
  BY <1>2, <1>4, CurrentGuard DEF CoherentIn, SoundStep
<1>6. deferred' \in [Peers -> SUBSET (Limits \cup {NoLimit})]
  BY DEF RequireAll, IInv, TypeOK
<1> QED
  BY <1>1, <1>4, <1>5, <1>6, BecomesSound

\* attach() of a peer that was not tracked.
LEMMA AttachSound ==
    ASSUME IInv, NEW p \in Peers, Attach(p)
    PROVE  IInv' /\ SoundNext
<1>1. deferred' \in [Peers -> SUBSET (Limits \cup {NoLimit})]
  BY DEF Attach, IInv, TypeOK
<1> QED
  BY <1>1, AttachedType, ChangeSound, BecomesSound DEF Attach

\* A new record and a subscription that may have been lost: attach() of a
\* tracked peer, and detach().
LEMMA LeftSound ==
    ASSUME IInv, NEW p \in Peers, NEW t \in Tracked, NEW kept \in BOOLEAN,
           \A sub, got : CoherentWith(t, sub, got), t.outstanding = NoLimit,
           Becomes([Change(p, t) EXCEPT !.subscribed[p] = @ /\ kept]),
           deferred' \in [Peers -> SUBSET (Limits \cup {NoLimit})]
    PROVE  IInv' /\ SoundNext
<1> DEFINE c == Change(p, t)
           s == [subscribed EXCEPT ![p] = @ /\ kept]
           g == [c EXCEPT !.subscribed = s]
<1>1. /\ c \in GuardType
      /\ CoherentIn(c)
      /\ SoundStep(Current, c)
      /\ c.peers[p] = t
      /\ c.subscribed = subscribed
  BY ChangeSound
<1> HIDE DEF c
<1>2. [c EXCEPT !.subscribed[p] = @ /\ kept] = g
  BY <1>1 DEF GuardType
<1>3. s \in [Peers -> BOOLEAN] /\ \A q \in Peers \ {p} : s[q] = subscribed[q]
  BY DEF IInv, TypeOK
<1> HIDE DEF s
<1>4. /\ g \in GuardType
      /\ g.peers = c.peers
      /\ g.subscribed = s
      /\ g.received = c.received
  BY <1>1, <1>3 DEF GuardType
<1>5. CoherentIn(g)
  BY <1>1, <1>3, <1>4 DEF CoherentIn
<1>6. SoundStep(Current, g)
  <2> SUFFICES ASSUME NEW q \in Peers, Current.peers[q].outstanding = NoLimit,
                      g.peers[q].outstanding # NoLimit, g.subscribed[q]
               PROVE  g.received[q] > 0
    BY DEF SoundStep
  <2>1. q # p
    BY <1>1, <1>4
  <2> QED
    BY <1>1, <1>3, <1>4, <2>1 DEF SoundStep
<1> HIDE DEF g
<1> QED
  BY <1>2, <1>4, <1>5, <1>6, BecomesSound DEF c

\* attach() of a tracked peer.
LEMMA ReattachSound ==
    ASSUME IInv, NEW p \in Peers, Reattach(p)
    PROVE  IInv' /\ SoundNext
<1>1. PICK kept \in BOOLEAN :
        Becomes([Change(p, Attached(p)) EXCEPT !.subscribed[p] = @ /\ kept])
  BY DEF Reattach
<1>2. deferred' \in [Peers -> SUBSET (Limits \cup {NoLimit})]
  BY DEF Reattach, IInv, TypeOK
<1> QED
  BY <1>1, <1>2, AttachedType, LeftSound

\* detach().
LEMMA DetachSound ==
    ASSUME IInv, NEW p \in Peers, Detach(p)
    PROVE  IInv' /\ SoundNext
<1>1. PICK kept \in BOOLEAN :
        Becomes([Change(p, Absent) EXCEPT !.subscribed[p] = @ /\ kept])
  BY DEF Detach
<1>2. deferred' \in [Peers -> SUBSET (Limits \cup {NoLimit})]
  BY DEF Detach, IInv, TypeOK
<1>3. \A sub, got : CoherentWith(Absent, sub, got)
  BY NewType DEF CoherentWith
<1> QED
  BY <1>1, <1>2, <1>3, NewType, LeftSound

\* The steps that answer for one peer and then let become_ready() or nothing
\* follow: a record that only differs in the pre-scenario communication.
LEMMA BindingAnsweredSound ==
    ASSUME IInv, NEW p \in Peers, NEW f \in Features, NEW granted \in BOOLEAN,
           BindingAnswered(p, f, granted)
    PROVE  IInv' /\ SoundNext
<1> DEFINE b == IF granted THEN peers[p].bound \cup {f} ELSE peers[p].bound
           t == [peers[p] EXCEPT !.pending_bindings = @ \ {f}, !.bound = b]
<1>1. peers[p] \in Tracked /\ peers[p].attached
      /\ CoherentWith(peers[p], subscribed[p], received[p])
  BY InFlightAttached DEF BindingAnswered
<1>2. b \in SUBSET Features
  BY <1>1 DEF Tracked
<1>3. Becomes(BecomeReady(Change(p, t), p))
  BY DEF BindingAnswered
<1> HIDE DEF b
<1>4. /\ t \in Tracked
      /\ CoherentWith(t, subscribed[p], received[p])
      /\ t.outstanding = peers[p].outstanding
      /\ t.attached
  BY <1>1, <1>2 DEF Tracked, CoherentWith
<1> HIDE DEF t
<1>5. /\ BecomeReady(Change(p, t), p) \in GuardType
      /\ CoherentIn(BecomeReady(Change(p, t), p))
      /\ SoundStep(Change(p, t), BecomeReady(Change(p, t), p))
  BY <1>4, ChangeSound, BecomeReadySound
<1>6. \A q \in Peers :
        Current.peers[q].outstanding = Change(p, t).peers[q].outstanding
  BY <1>4, ChangeSound, CurrentGuard
<1>7. SoundStep(Current, BecomeReady(Change(p, t), p))
  BY <1>5, <1>6, SoundAfter
<1>8. deferred' \in [Peers -> SUBSET (Limits \cup {NoLimit})]
  BY DEF BindingAnswered, IInv, TypeOK
<1> QED
  BY <1>3, <1>5, <1>7, <1>8, BecomesSound

\* learn_ids(), of a description that names the limit and of one that does not.
LEMMA DescriptionLearnedSound ==
    ASSUME IInv, NEW p \in Peers, NEW f \in Features, NEW usable \in BOOLEAN,
           DescriptionLearned(p, f, usable)
    PROVE  IInv' /\ SoundNext
<1>1. peers[p] \in Tracked /\ peers[p].attached
      /\ CoherentWith(peers[p], subscribed[p], received[p])
  BY InFlightAttached DEF DescriptionLearned
<1>2. deferred' \in [Peers -> SUBSET (Limits \cup {NoLimit})]
  BY DEF DescriptionLearned, IInv, TypeOK
<1>3. CASE usable
  <2> DEFINE i == peers[p].limit_id \/ f = "LoadControl"
             t == [peers[p] EXCEPT !.pending_reads = @ \ {f}, !.limit_id = i]
  <2>1. Becomes(BecomeReady(Change(p, t), p))
    BY <1>3 DEF DescriptionLearned
  <2>2. i \in BOOLEAN
    OBVIOUS
  <2> HIDE DEF i
  <2>3. /\ t \in Tracked
        /\ CoherentWith(t, subscribed[p], received[p])
        /\ t.outstanding = peers[p].outstanding
        /\ t.attached
    BY <1>1, <2>2 DEF Tracked, CoherentWith
  <2> HIDE DEF t
  <2>4. /\ BecomeReady(Change(p, t), p) \in GuardType
        /\ CoherentIn(BecomeReady(Change(p, t), p))
        /\ SoundStep(Change(p, t), BecomeReady(Change(p, t), p))
    BY <2>3, ChangeSound, BecomeReadySound
  <2>5. \A q \in Peers :
          Current.peers[q].outstanding = Change(p, t).peers[q].outstanding
    BY <2>3, ChangeSound, CurrentGuard
  <2>6. SoundStep(Current, BecomeReady(Change(p, t), p))
    BY <2>4, <2>5, SoundAfter
  <2> QED
    BY <1>2, <2>1, <2>4, <2>6, BecomesSound
<1>4. CASE ~usable
  <2> DEFINE t == [peers[p] EXCEPT !.reported_no_limit = TRUE]
  <2>1. Becomes(Change(p, t))
    BY <1>4 DEF DescriptionLearned
  <2>2. /\ t \in Tracked
        /\ CoherentWith(t, subscribed[p], received[p])
        /\ t.outstanding = peers[p].outstanding
    BY <1>1 DEF Tracked, CoherentWith
  <2> HIDE DEF t
  <2> QED
    BY <1>2, <2>1, <2>2, ChangeSound, BecomesSound
<1> QED
  BY <1>3, <1>4

\* SubscriptionGranted.
LEMMA SubscribeSound ==
    ASSUME IInv, NEW p \in Peers, Subscribe(p)
    PROVE  IInv' /\ SoundNext
<1> DEFINE s == [subscribed EXCEPT ![p] = TRUE]
           t == [peers[p] EXCEPT !.watches_heartbeat = TRUE]
           g == [Current EXCEPT !.subscribed = s]
           h == [g EXCEPT !.peers = [peers EXCEPT ![p] = t]]
<1>1. deferred' \in [Peers -> SUBSET (Limits \cup {NoLimit})]
  BY DEF Subscribe, IInv, TypeOK
<1>2. /\ s \in [Peers -> BOOLEAN]
      /\ \A q \in Peers : s[q] = IF q = p THEN TRUE ELSE subscribed[q]
  BY DEF IInv, TypeOK
<1>3. \A q \in Peers : /\ peers[q] \in Tracked
                       /\ CoherentWith(peers[q], subscribed[q], received[q])
  BY InFlightAttached
<1>4. [Current EXCEPT !.subscribed[p] = TRUE] = g
  BY CurrentGuard DEF GuardType
<1> HIDE DEF s
<1>5. /\ g \in GuardType
      /\ g.peers = peers
      /\ g.subscribed = s
      /\ g.received = received
  BY <1>2, CurrentGuard DEF GuardType
<1>6. CoherentIn(g)
  BY <1>2, <1>3, <1>5 DEF CoherentIn, CoherentWith
<1>7. CASE ~peers[p].attached
  <2>1. Becomes(g)
    BY <1>4, <1>7 DEF Subscribe
  <2>2. SoundStep(Current, g)
    BY <1>5, CurrentGuard DEF SoundStep
  <2> HIDE DEF g
  <2> QED
    BY <1>1, <1>5, <1>6, <2>1, <2>2, BecomesSound
<1>8. CASE peers[p].attached
  <2>1. [g EXCEPT !.peers[p].watches_heartbeat = TRUE] = h
    BY <1>5 DEF GuardType
  <2>2. Becomes(WriteLimitIfDue(h, {p}))
    BY <1>4, <1>8, <2>1 DEF Subscribe
  <2>3. /\ t \in Tracked
        /\ t.outstanding = peers[p].outstanding
        /\ CoherentWith(t, TRUE, received[p])
    <3>1. /\ t \in Tracked
          /\ t.outstanding = peers[p].outstanding
          /\ t.watches_heartbeat
          /\ t.attached
          /\ t.fresh = peers[p].fresh
      BY <1>3, <1>8 DEF Tracked
    <3>2. received[p] \in 0 .. HeartbeatFreshness
      BY DEF IInv, TypeOK
    <3> QED
      BY <1>3, <3>1, <3>2, Times DEF CoherentWith, Tracked
  <2> HIDE DEF t, g
  <2>4. /\ h \in GuardType
        /\ h.subscribed = s
        /\ h.received = received
        /\ \A q \in Peers : h.peers[q] = IF q = p THEN t ELSE peers[q]
    BY <1>3, <1>5, <2>3 DEF GuardType
  <2> HIDE DEF h
  <2>5. CoherentIn(h)
    BY <1>2, <1>3, <2>3, <2>4 DEF CoherentIn
  <2>6. /\ WriteLimitIfDue(h, {p}) \in GuardType
        /\ CoherentIn(WriteLimitIfDue(h, {p}))
        /\ SoundStep(h, WriteLimitIfDue(h, {p}))
    BY <2>4, <2>5, WriteLimitIfDueSound
  <2>7. SoundStep(Current, WriteLimitIfDue(h, {p}))
    BY <2>3, <2>4, <2>6, SoundAfter, CurrentGuard
  <2> QED
    BY <1>1, <2>2, <2>6, <2>7, BecomesSound
<1> QED
  BY <1>7, <1>8

\* resolve() and give_up() of a limit write: the write is no longer in flight.
LEMMA AnsweredSound ==
    ASSUME IInv, NEW p \in Peers, Answered(p)
    PROVE  IInv' /\ SoundNext
<1>1. deferred' \in [Peers -> SUBSET (Limits \cup {NoLimit})]
  BY DEF Answered, LimitAccepted, LimitRefused, LimitUnanswered, IInv, TypeOK
<1>2. peers[p] \in Tracked /\ peers[p].attached
      /\ CoherentWith(peers[p], subscribed[p], received[p])
      /\ peers[p].outstanding # NoLimit
  BY InFlightAttached DEF Answered, LimitAccepted, LimitRefused, LimitUnanswered
<1> DEFINE acc == [peers[p] EXCEPT !.applied = peers[p].outstanding,
                                   !.outstanding = NoLimit,
                                   !.refusals = 0, !.retry_at = None]
           una == [peers[p] EXCEPT !.outstanding = NoLimit, !.write_due_at = 0]
<1>3. CASE LimitAccepted(p)
  <2>1. Becomes(Change(p, acc))
    BY <1>3 DEF LimitAccepted
  <2>2. peers[p].outstanding \in Limit
    BY <1>2 DEF Tracked, Writable
  <2>3. \A n \in Nat : [peers[p] EXCEPT !.refusals = n] \in Tracked
    BY <1>2 DEF Tracked
  <2> DEFINE u == [peers[p] EXCEPT !.refusals = 0]
  <2>4. u \in Tracked
    BY <2>3
  <2>5. acc = [u EXCEPT !.applied = peers[p].outstanding,
                        !.outstanding = NoLimit, !.retry_at = None]
    BY <1>2 DEF Tracked
  <2> HIDE DEF u
  <2>6. acc \in Tracked
    BY <2>2, <2>4, <2>5 DEF Tracked
  <2>7. acc.outstanding = NoLimit /\ CoherentWith(acc, subscribed[p], received[p])
    BY <1>2 DEF Tracked, CoherentWith
  <2> HIDE DEF acc
  <2> QED
    BY <1>1, <2>1, <2>6, <2>7, ChangeSound, BecomesSound
<1>4. CASE LimitRefused(p)
  <2> DEFINE backoff == RetryBackoffStep * (peers[p].refusals + 1)
             n == peers[p].refusals + 1
             t == [peers[p] EXCEPT !.outstanding = NoLimit, !.refusals = n,
                                   !.retry_at = backoff,
                                   !.write_due_at = backoff]
  <2>1. Becomes(Change(p, t))
    BY <1>4 DEF LimitRefused, Refused
  <2>2. n \in Nat
    BY <1>2 DEF Tracked
  <2>3. backoff \in Nat
    BY <2>2, Times
  <2> HIDE DEF backoff, n
  <2>4. t \in Tracked
    BY <1>2, <2>2, <2>3 DEF Tracked
  <2>5. t.outstanding = NoLimit /\ CoherentWith(t, subscribed[p], received[p])
    BY <1>2 DEF Tracked, CoherentWith
  <2> HIDE DEF t
  <2> QED
    BY <1>1, <2>1, <2>4, <2>5, ChangeSound, BecomesSound
<1>5. CASE LimitUnanswered(p)
  <2>1. Becomes(Change(p, una))
    BY <1>5 DEF LimitUnanswered
  <2>2. \A n \in Nat : [peers[p] EXCEPT !.outstanding = NoLimit,
                                        !.write_due_at = n] \in Tracked
    BY <1>2 DEF Tracked
  <2>3. una \in Tracked
    BY <2>2
  <2>4. una.outstanding = NoLimit /\ CoherentWith(una, subscribed[p], received[p])
    BY <1>2 DEF Tracked, CoherentWith
  <2> HIDE DEF una
  <2> QED
    BY <1>1, <2>1, <2>3, <2>4, ChangeSound, BecomesSound
<1> QED
  BY <1>3, <1>4, <1>5 DEF Answered

\* give_up() of a read or a binding request.
LEMMA RequestUnansweredSound ==
    ASSUME IInv, NEW p \in Peers, NEW f \in Features, RequestUnanswered(p, f)
    PROVE  IInv' /\ SoundNext
<1>1. deferred' \in [Peers -> SUBSET (Limits \cup {NoLimit})]
  BY DEF RequestUnanswered, IInv, TypeOK
<1> DEFINE r == [peers[p] EXCEPT !.pending_reads = @ \ {f}]
           b == [peers[p] EXCEPT !.pending_bindings = @ \ {f}]
<1>2. Becomes(Change(p, r)) \/ Becomes(Change(p, b))
  BY DEF RequestUnanswered
<1>3. peers[p] \in Tracked /\ peers[p].attached
      /\ CoherentWith(peers[p], subscribed[p], received[p])
  BY InFlightAttached DEF RequestUnanswered
<1>4. \A t \in {r, b} : /\ t \in Tracked
                        /\ t.outstanding = peers[p].outstanding
                        /\ CoherentWith(t, subscribed[p], received[p])
  BY <1>3 DEF Tracked, CoherentWith
<1> HIDE DEF r, b
<1> QED
  BY <1>1, <1>2, <1>4, ChangeSound, BecomesSound

\* observe_applied().
LEMMA LimitNotifiedSound ==
    ASSUME IInv, NEW p \in Peers, NEW l \in Notices, LimitNotified(p, l)
    PROVE  IInv' /\ SoundNext
<1> DEFINE noted == [peers[p] EXCEPT !.applied = l]
           due == [noted EXCEPT !.write_due_at = 0]
           w == WriteLimitIfDue(Change(p, due), {p})
<1>1. deferred' \in [Peers -> SUBSET (Limits \cup {NoLimit})]
  BY DEF LimitNotified, IInv, TypeOK
<1>2. Becomes(Current) \/ Becomes(w) \/ Becomes(Change(p, noted))
  BY DEF LimitNotified
<1>3. peers[p] \in Tracked /\ peers[p].attached
      /\ CoherentWith(peers[p], subscribed[p], received[p])
  BY InFlightAttached DEF LimitNotified
<1>4. /\ noted \in Tracked
      /\ noted.outstanding = peers[p].outstanding
      /\ noted.attached
      /\ CoherentWith(noted, subscribed[p], received[p])
  BY <1>3, LimitTypes DEF Tracked, CoherentWith
<1> HIDE DEF noted
<1>5. \A n \in Nat : [noted EXCEPT !.write_due_at = n] \in Tracked
  BY <1>4 DEF Tracked
<1>6. /\ due \in Tracked
      /\ due.outstanding = peers[p].outstanding
      /\ CoherentWith(due, subscribed[p], received[p])
  BY <1>4, <1>5 DEF Tracked, CoherentWith
<1> HIDE DEF due
<1>7. w \in GuardType /\ CoherentIn(w) /\ SoundStep(Change(p, due), w)
  BY <1>6, ChangeSound, WriteLimitIfDueSound
<1>8. \A q \in Peers :
        Current.peers[q].outstanding = Change(p, due).peers[q].outstanding
  BY <1>6, ChangeSound, CurrentGuard
<1>9. SoundStep(Current, w)
  BY <1>7, <1>8, SoundAfter
<1> HIDE DEF w
<1> QED
  BY <1>1, <1>2, <1>4, <1>7, <1>9, ChangeSound, CurrentGuard, BecomesSound

\* handle_timeout(), and what it leaves of the deadlines.
LEMMA HandleTimeoutSound ==
    ASSUME IInv, HandleTimeout
    PROVE  /\ IInv' /\ SoundNext
           /\ next' # 0
           /\ \A p \in Peers : peers'[p].write_due_at # 0
<1> DEFINE g == IF next = 0 THEN Beat(Current) ELSE Current
           S == {p \in Peers : peers[p].attached}
           w == WriteLimitIfDue(g, S)
<1>1. deferred' \in [Peers -> SUBSET (Limits \cup {NoLimit})]
  BY DEF HandleTimeout, IInv, TypeOK
<1>2. Becomes(w)
  BY DEF HandleTimeout
<1>3. /\ g \in GuardType
      /\ CoherentIn(g)
      /\ \A q \in Peers : Current.peers[q].outstanding = g.peers[q].outstanding
      /\ g.next # 0
  BY CurrentGuard, BeatType, Times
<1> HIDE DEF g
<1>4. /\ w \in GuardType
      /\ CoherentIn(w)
      /\ SoundStep(g, w)
      /\ w.next \in {g.next, HeartbeatPeriod}
      /\ \A p \in S : w.peers[p].write_due_at # 0
  BY <1>3, WriteLimitIfDueSound
<1>5. SoundStep(Current, w)
  BY <1>3, <1>4, SoundAfter
<1>6. IInv' /\ SoundNext
  BY <1>1, <1>2, <1>4, <1>5, BecomesSound
<1>7. next' # 0
  BY <1>2, <1>3, <1>4, Times DEF Becomes
<1>8. ASSUME NEW p \in Peers
      PROVE  peers'[p].write_due_at # 0
  <2>1. CASE p \in S
    BY <1>2, <1>4, <2>1 DEF Becomes
  <2>2. CASE p \notin S
    <3>1. peers[p] = Absent
      BY <2>2, InFlightAttached DEF CoherentWith
    <3>2. g.peers[p] = Absent
      BY <2>2, <3>1, CurrentGuard, Unattached DEF g
    <3>3. w.peers[p] = Absent
      BY <1>3, <2>2, <3>2, Unattached
    <3>4. Absent.write_due_at = None
      BY DEF Absent, New
    <3> QED
      BY <1>2, <3>3, <3>4 DEF Becomes, None
  <2> QED
    BY <2>1, <2>2
<1> QED
  BY <1>6, <1>7, <1>8

\* Time passes for the guard's belief and for the peers alike.
LEMMA TickSound ==
    ASSUME IInv, Tick
    PROVE  IInv' /\ SoundNext
<1> DEFINE after(t) ==
             [t EXCEPT !.rate = Less(@), !.grace = Less(@), !.fresh = Less(@),
                       !.retry_at = Less(@), !.write_due_at = Less(@)]
<1>1. ASSUME NEW t \in Tracked
      PROVE  /\ after(t) \in Tracked
             /\ after(t).outstanding = t.outstanding
             /\ after(t).attached = t.attached
             /\ after(t).watches_heartbeat = t.watches_heartbeat
             /\ after(t).fresh = Less(t.fresh)
  <2> DEFINE a == Less(t.rate)
             b == Less(t.grace)
             c == Less(t.fresh)
             d == Less(t.retry_at)
             e == Less(t.write_due_at)
  <2>1. /\ a \in 0 .. MinWriteInterval
        /\ b \in 0 .. SubscriptionGrace
        /\ c \in 0 .. HeartbeatFreshness
        /\ d \in Nat \cup {None}
        /\ e \in Nat \cup {None}
    BY Times DEF Tracked, Less, None
  <2>2. after(t) = [t EXCEPT !.rate = a, !.grace = b, !.fresh = c,
                             !.retry_at = d, !.write_due_at = e]
    OBVIOUS
  <2> HIDE DEF a, b, c, d, e, after
  <2>3. /\ after(t) \in Tracked
        /\ after(t).outstanding = t.outstanding
        /\ after(t).attached = t.attached
        /\ after(t).watches_heartbeat = t.watches_heartbeat
        /\ after(t).fresh = c
    BY <2>1, <2>2 DEF Tracked
  <2> QED
    BY <2>3 DEF c
<1>2. /\ next' = next - 1 /\ next > 0
      /\ subscribed' = subscribed /\ deferred' = deferred
      /\ received' = [p \in Peers |-> Less(received[p])]
      /\ peers' = [p \in Peers |-> IF ~peers[p].attached THEN peers[p]
                                   ELSE after(peers[p])]
  BY DEF Tick
<1> HIDE DEF after
<1>3. ASSUME NEW p \in Peers
      PROVE  /\ peers'[p] \in Tracked
             /\ peers'[p].outstanding = peers[p].outstanding
             /\ received'[p] \in 0 .. HeartbeatFreshness
             /\ CoherentWith(peers'[p], subscribed'[p], received'[p])
  <2>1. /\ peers[p] \in Tracked
        /\ CoherentWith(peers[p], subscribed[p], received[p])
        /\ received[p] \in 0 .. HeartbeatFreshness
    BY InFlightAttached DEF IInv, TypeOK
  <2>2. received'[p] = Less(received[p])
    BY <1>2
  <2>3. CASE ~peers[p].attached
    <3>1. peers'[p] = peers[p] /\ peers[p] = Absent
      BY <1>2, <2>1, <2>3 DEF CoherentWith
    <3>2. CoherentWith(Absent, subscribed'[p], received'[p])
      BY NewType DEF CoherentWith
    <3> QED
      BY <2>1, <2>2, <3>1, <3>2, Times DEF Less
  <2>4. CASE peers[p].attached
    <3>1. peers'[p] = after(peers[p])
      BY <1>2, <2>4
    <3>2. peers[p].fresh \in 0 .. HeartbeatFreshness
      BY <2>1 DEF Tracked
    <3> QED
      BY <1>1, <1>2, <2>1, <2>2, <2>4, <3>1, <3>2, Times DEF CoherentWith, Less
  <2> QED
    BY <2>3, <2>4
<1>4. TypeOK'
  <2>1. next' \in 0 .. HeartbeatPeriod
    BY <1>2, Times DEF IInv, TypeOK
  <2>2. subscribed' \in [Peers -> BOOLEAN]
        /\ deferred' \in [Peers -> SUBSET (Limits \cup {NoLimit})]
    BY <1>2 DEF IInv, TypeOK
  <2>3. peers' \in [Peers -> Tracked]
        /\ received' \in [Peers -> 0 .. HeartbeatFreshness]
    BY <1>2, <1>3
  <2> QED
    BY <2>1, <2>2, <2>3 DEF TypeOK
<1>5. Coherence'
  BY <1>3 DEF Coherence, CoherentIn, Current, Guard
<1>6. SoundNext
  BY <1>3 DEF SoundNext, Sends
<1> QED
  BY <1>4, <1>5, <1>6 DEF IInv

\* The initial state.
LEMMA InitSound ==
    ASSUME Init
    PROVE  IInv
<1>1. TypeOK
  BY NewType, Times DEF Init, TypeOK
<1>2. Coherence
  BY NewType DEF Init, Coherence, CoherentIn, CoherentWith, Current, Guard
<1> QED
  BY <1>1, <1>2 DEF IInv

\* The invariant is inductive, no step writes a limit that cannot be heard,
\* and handle_timeout() leaves no deadline behind.
LEMMA NextSound ==
    ASSUME IInv, [Next]_vars
    PROVE  /\ IInv'
           /\ [SoundNext]_vars
           /\ HandleTimeout => /\ next' # 0
                               /\ \A p \in Peers : peers'[p].write_due_at # 0
<1>1. CASE UNCHANGED vars
  <2>1. IInv'
    BY <1>1 DEF vars, IInv, TypeOK, Coherence, CoherentIn, Current, Guard
  <2> QED
    BY <1>1, <2>1, HandleTimeoutSound
<1>2. CASE Next
  BY <1>2, RequireSound, RequireAllSound, AttachSound, ReattachSound,
     DetachSound, SubscribeSound, BindingAnsweredSound, DescriptionLearnedSound,
     RequestUnansweredSound, AnsweredSound, LimitNotifiedSound,
     HandleTimeoutSound, TickSound DEF Next
<1> QED
  BY <1>1, <1>2

-----------------------------------------------------------------------------
(***************************************************************************)
(* The theorems.                                                           *)
(***************************************************************************)
\* The records keep their types, and nothing that implementation guide §2.2
\* forbids is ever required of a peer or sent to one.
THEOREM GuardTypeCorrect == Spec => []TypeOK
<1>1. IInv => TypeOK
  BY DEF IInv
<1> QED
  BY <1>1, InitSound, NextSound, PTL DEF Spec

\* Whatever the number of peers, the timers and the order of events, a limit
\* never goes out to a subscribed peer without a heartbeat it received recently.
THEOREM EveryLimitIsHeard == Spec => LimitIsHeard
<1>1. (IInv /\ [Next]_vars) =>
        [\A p \in Peers : (Sends(p) /\ subscribed'[p]) => received'[p] > 0]_vars
  BY NextSound DEF SoundNext
<1> QED
  BY <1>1, InitSound, NextSound, PTL DEF Spec, LimitIsHeard

\* handle_timeout() never leaves a heartbeat or a write deadline in the past,
\* so a driver that sleeps until poll_timeout() is not made to spin by one.
THEOREM HandleTimeoutAdvances == Spec => DeadlinesAdvance
<1>1. (IInv /\ [Next]_vars) =>
        [HandleTimeout =>
           \A d \in {next'} \cup {peers'[p].write_due_at : p \in Peers} : d # 0
        ]_vars
  BY NextSound
<1> QED
  BY <1>1, InitSound, NextSound, PTL DEF Spec, DeadlinesAdvance
=============================================================================
