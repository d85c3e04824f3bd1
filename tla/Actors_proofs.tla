---------------------------- MODULE Actors_proofs ----------------------------
(***************************************************************************)
(* What is proved of the actors of the use cases and of what they read and *)
(* write, each for every value of its constants: the Controllable System's *)
(* actor (the guard it finds, the limit it serves and records), the dates  *)
(* and durations that messages carry, a heat pump's compressor that offers *)
(* a flexibility, a car that is told a charging current, the picture a     *)
(* client has of a device, the vocabularies of measured values, an HVAC    *)
(* unit and its appliance, and a measured unit and its reader.             *)
(***************************************************************************)
EXTENDS CsActor, GuardBinding, SequenceTheorems, FiniteSetTheorems,
        WellFoundedInduction, TLAPS

CONSTANTS Starts, Turns, MAX_SECONDS
VARIABLES date, days, turns
Calendar == INSTANCE Times

CONSTANTS SEQUENCE_ID, Interrupts, StartTimes, MaxCommands, MaxChanges
VARIABLES flexibility, feature, peer, offer, toCompressor, toManager, commands, changes
Pump == INSTANCE Ohpcf

CONSTANTS PHASES, CarPhases, LimitId, Foreign, Permitted, Requirements, CAR_TIMEOUT,
          MaxWrites, MaxBeats
VARIABLES car, data, age, guard, asked, toCar, toGuard, sent
Car == INSTANCE EvCharging WITH HEARTBEAT_TIMEOUT <- CAR_TIMEOUT

CONSTANTS Paths, EntityFeatures, UseCases, MAX_ENTRIES, MaxTreeChanges
VARIABLES tree, played, treeTold, wire, opening, document, remote, announced, missed,
          dropped, treeChanges
Mirror == INSTANCE Discovery WITH
    Features <- EntityFeatures, MaxChanges <- MaxTreeChanges, told <- treeTold,
    changes <- treeChanges

CONSTANTS PhaseNames, MaxSlots
VARIABLES naming, slots, taken, filed, learnt
Words == INSTANCE Measurands WITH known <- taken, values <- filed

CONSTANTS Functions, Modes, Related, OverrunOf, Relations, Setpoints, UnitForeign,
          Permissible, Degrees, MaxUnitSteps
VARIABLES unit, unitSubscribed, toUnit, toAppliance, reader, points, unitTold, unitSteps
Unit == INSTANCE Hvac WITH
    Foreign <- UnitForeign, MaxSteps <- MaxUnitSteps, subscribed <- unitSubscribed,
    told <- unitTold, steps <- unitSteps

CONSTANTS Slots, PerPhase, Phases, Total, Values, InRange, Factors, Percent, MaxMeterSteps
VARIABLES meter, meterGranted, answered, toMeter, toReader, readings, meterTold, meterMissed,
          relabelled, meterSteps
Meter == INSTANCE Monitoring WITH
    MaxSteps <- MaxMeterSteps, granted <- meterGranted, told <- meterTold,
    missed <- meterMissed, steps <- meterSteps

-----------------------------------------------------------------------------
(* GuardBinding: while no connection is lost, what the actor saw of the     *)
(* bindings lags behind what the engine holds in one way only, that a       *)
(* release costs it the LoadControl binding; the guard is exactly the       *)
(* entity it saw bind both, and it is followed from the moment it is bound  *)
(* and discovered.                                                          *)

Entities == Guards \cup {Nobody}

GuardTypes ==
    /\ held \in [Features -> Entities]
    /\ known \subseteq Guards
    /\ seen \in [ bound : [Features -> Entities], guard : Entities, followed : Entities,
                  subscribed : BOOLEAN, asked : BOOLEAN ]
    /\ troubles \in [releases : Nat, losses : Nat]

\* The bindings the actor saw: the holder of DeviceConfiguration if there is one, and the
\* holder of LoadControl unless something was released since.
SawBindings ==
    /\ held["DeviceConfiguration"] # Nobody =>
         seen.bound["DeviceConfiguration"] = held["DeviceConfiguration"]
    /\ seen.bound["LoadControl"] # Nobody => seen.bound["LoadControl"] = held["LoadControl"]
    /\ troubles.releases = 0 => seen.bound = held

\* The guard is the entity that was seen to bind both.
GuardIsHolder ==
    /\ seen.guard # Nobody => \A f \in Features : seen.bound[f] = seen.guard
    /\ \A g \in Guards : (\A f \in Features : seen.bound[f] = g) => seen.guard = g

\* The heartbeat followed is the guard's, and its subscription is requested or granted.
FollowsGuard ==
    /\ seen.subscribed <=> seen.followed # Nobody
    /\ seen.subscribed => seen.followed = seen.guard /\ seen.followed \in subscribing \cup hears
    /\ seen.guard # Nobody /\ seen.guard \in known => seen.subscribed

Unbroken == troubles.losses = 0
GIInv == GuardTypes /\ (Unbroken => SawBindings /\ GuardIsHolder /\ FollowsGuard)

\* The start.
LEMMA GInitFound == ASSUME Nobody \notin Guards PROVE GInit => GIInv
BY DEF GInit, GIInv, GuardTypes, Entities, Unbroken, SawBindings, GuardIsHolder,
       FollowsGuard, Features, Nobody

\* What follow_the_guards_heartbeat makes of what was seen.
LEMMA FollowFields ==
    ASSUME NEW D,
           NEW s \in [ bound : [Features -> Entities], guard : Entities, followed : Entities,
                       subscribed : BOOLEAN, asked : BOOLEAN ]
    PROVE  LET r == Follow(s, D) IN
           /\ r \in [ bound : [Features -> Entities], guard : Entities, followed : Entities,
                      subscribed : BOOLEAN, asked : BOOLEAN ]
           /\ r.bound = s.bound /\ r.guard = s.guard
           /\ IF ~s.subscribed /\ s.guard # Nobody /\ s.guard \in D
              THEN r.followed = s.guard /\ r.subscribed = TRUE
              ELSE r.followed = s.followed /\ r.subscribed = s.subscribed
BY DEF Follow

\* on_binding: the binding is noted, and the holder of both is the guard if there was none.
LEMMA OnBindingFields ==
    ASSUME NEW g \in Guards, NEW f \in Features,
           NEW s \in [ bound : [Features -> Entities], guard : Entities, followed : Entities,
                       subscribed : BOOLEAN, asked : BOOLEAN ]
    PROVE  LET r == OnBinding(s, g, f)
               b == [s.bound EXCEPT ![f] = g] IN
           /\ r \in [ bound : [Features -> Entities], guard : Entities, followed : Entities,
                      subscribed : BOOLEAN, asked : BOOLEAN ]
           /\ r.bound = b
           /\ r.guard = IF b["LoadControl"] = b["DeviceConfiguration"] /\ s.guard = Nobody
                        THEN g ELSE s.guard
           /\ r.followed = s.followed /\ r.subscribed = s.subscribed
<1> DEFINE b == [s.bound EXCEPT ![f] = g]
           x == IF b["LoadControl"] = b["DeviceConfiguration"] /\ s.guard = Nobody
                THEN g ELSE s.guard
<1>1. b \in [Features -> Entities] /\ x \in Entities
  BY DEF Entities
<1>2. OnBinding(s, g, f) = [s EXCEPT !.bound = b, !.guard = x]
  BY DEF OnBinding
<1> HIDE DEF b, x
<1>3. QED
  BY <1>1, <1>2 DEF b, x

\* A release: the actor knows no guard and follows nobody.
LEMMA OnReleaseFields ==
    ASSUME NEW f,
           NEW s \in [ bound : [Features -> Entities], guard : Entities, followed : Entities,
                       subscribed : BOOLEAN, asked : BOOLEAN ]
    PROVE  LET r == OnRelease(s, f) IN
           /\ r \in [ bound : [Features -> Entities], guard : Entities, followed : Entities,
                      subscribed : BOOLEAN, asked : BOOLEAN ]
           /\ r.bound = [s.bound EXCEPT !["LoadControl"] = Nobody]
           /\ r.guard = Nobody /\ r.followed = Nobody /\ ~r.subscribed
<1> DEFINE b == [s.bound EXCEPT !["LoadControl"] = Nobody]
<1>1. b \in [Features -> Entities] /\ Nobody \in Entities /\ FALSE \in BOOLEAN
  BY DEF Entities
<1>2. OnRelease(s, f) = [s EXCEPT !.bound = b, !.guard = Nobody, !.followed = Nobody,
                                  !.subscribed = FALSE, !.asked = FALSE]
  BY DEF OnRelease
<1> HIDE DEF b
<1>3. QED
  BY <1>1, <1>2 DEF b

\* Settling: the guard that is bound and discovered is subscribed to, once.
LEMMA SettleFollows ==
    ASSUME NEW D, Nobody \notin Guards,
           NEW s \in [ bound : [Features -> Entities], guard : Entities, followed : Entities,
                       subscribed : BOOLEAN, asked : BOOLEAN ],
           s.subscribed <=> s.followed # Nobody,
           s.subscribed => s.followed = s.guard /\ s.followed \in subscribing \cup hears,
           Settle(s, D), hears' = hears
    PROVE  /\ seen' \in [ bound : [Features -> Entities], guard : Entities,
                          followed : Entities, subscribed : BOOLEAN, asked : BOOLEAN ]
           /\ seen'.bound = s.bound /\ seen'.guard = s.guard
           /\ seen'.subscribed <=> seen'.followed # Nobody
           /\ seen'.subscribed =>
                seen'.followed = seen'.guard /\ seen'.followed \in subscribing' \cup hears'
           /\ seen'.guard # Nobody /\ seen'.guard \in D => seen'.subscribed
<1> DEFINE r == Follow(s, D)
<1>1. /\ seen' = r
      /\ subscribing' = IF r.subscribed /\ ~s.subscribed
                        THEN subscribing \cup {r.followed} ELSE subscribing
  BY DEF Settle
<1>2. /\ r \in [ bound : [Features -> Entities], guard : Entities, followed : Entities,
                 subscribed : BOOLEAN, asked : BOOLEAN ]
      /\ r.bound = s.bound /\ r.guard = s.guard
      /\ IF ~s.subscribed /\ s.guard # Nobody /\ s.guard \in D
         THEN r.followed = s.guard /\ r.subscribed = TRUE
         ELSE r.followed = s.followed /\ r.subscribed = s.subscribed
  BY FollowFields
<1> HIDE DEF r
<1>3. QED
  BY <1>1, <1>2

\* Every step of the guards and of this engine.
LEMMA GNextFound == ASSUME Nobody \notin Guards PROVE GIInv /\ [GNext]_gvars => GIInv'
<1> SUFFICES ASSUME GIInv, [GNext]_gvars PROVE GIInv'
  OBVIOUS
<1> DEFINE Seen == [ bound : [Features -> Entities], guard : Entities, followed : Entities,
                     subscribed : BOOLEAN, asked : BOOLEAN ]
<1>1. /\ held \in [Features -> Entities] /\ known \subseteq Guards /\ seen \in Seen
      /\ troubles \in [releases : Nat, losses : Nat]
  BY DEF GIInv, GuardTypes
<1>2. ASSUME NEW g \in Guards, Connect(g) PROVE GIInv'
  BY <1>2 DEF Connect, GIInv, GuardTypes, Unbroken, SawBindings, GuardIsHolder,
              FollowsGuard
<1>3. ASSUME NEW g \in Guards, Discover(g) PROVE GIInv'
  <2>1. /\ known' \subseteq Guards /\ Settle(seen, known')
        /\ held' = held /\ hears' = hears /\ troubles' = troubles
    BY <1>1, <1>3 DEF Discover
  <2>2. seen' \in Seen
    BY <1>1, <2>1, FollowFields DEF Settle
  <2>3. ASSUME Unbroken PROVE SawBindings' /\ GuardIsHolder' /\ FollowsGuard'
    <3>1. SawBindings /\ GuardIsHolder /\ FollowsGuard
      BY <2>3 DEF GIInv
    <3>2. /\ seen'.bound = seen.bound /\ seen'.guard = seen.guard
          /\ seen'.subscribed <=> seen'.followed # Nobody
          /\ seen'.subscribed =>
               seen'.followed = seen'.guard /\ seen'.followed \in subscribing' \cup hears'
          /\ seen'.guard # Nobody /\ seen'.guard \in known' => seen'.subscribed
      BY <1>1, <2>1, <3>1, SettleFollows DEF FollowsGuard
    <3>3. QED
      BY <2>1, <3>1, <3>2 DEF SawBindings, GuardIsHolder, FollowsGuard
  <2>4. QED
    BY <1>1, <2>1, <2>2, <2>3 DEF GIInv, GuardTypes, Unbroken
<1>4. ASSUME NEW g \in Guards, NEW f \in Features, Bind(g, f) PROVE GIInv'
  <2> DEFINE s == OnBinding(seen, g, f)
             b == [seen.bound EXCEPT ![f] = g]
  <2>1. /\ MayBind(g, f) /\ held' = [held EXCEPT ![f] = g] /\ Settle(s, known)
        /\ known' = known /\ hears' = hears /\ troubles' = troubles
    BY <1>4 DEF Bind
  <2>2. /\ s \in Seen /\ s.bound = b
        /\ s.guard = IF b["LoadControl"] = b["DeviceConfiguration"] /\ seen.guard = Nobody
                     THEN g ELSE seen.guard
        /\ s.followed = seen.followed /\ s.subscribed = seen.subscribed
    BY <1>1, OnBindingFields
  <2> HIDE DEF s
  <2>3. held' \in [Features -> Entities] /\ seen' \in Seen
    BY <1>1, <2>1, <2>2, FollowFields DEF Settle, Entities
  <2>4. ASSUME Unbroken PROVE SawBindings' /\ GuardIsHolder' /\ FollowsGuard'
    <3>1. SawBindings /\ GuardIsHolder /\ FollowsGuard
      BY <2>4 DEF GIInv
    <3>2. /\ held["LoadControl"] \in {Nobody, g} /\ held["DeviceConfiguration"] \in {Nobody, g}
          /\ g # Nobody
      BY <2>1 DEF MayBind, Features
    <3>3. seen.guard \in {Nobody, g}
      BY <3>1, <3>2 DEF SawBindings, GuardIsHolder, Features
    <3>4. /\ b["LoadControl"] = IF f = "LoadControl" THEN g ELSE seen.bound["LoadControl"]
          /\ b["DeviceConfiguration"] =
               IF f = "DeviceConfiguration" THEN g ELSE seen.bound["DeviceConfiguration"]
          /\ held'["LoadControl"] = IF f = "LoadControl" THEN g ELSE held["LoadControl"]
          /\ held'["DeviceConfiguration"] =
               IF f = "DeviceConfiguration" THEN g ELSE held["DeviceConfiguration"]
          /\ f \in {"LoadControl", "DeviceConfiguration"}
      BY <1>1, <2>1 DEF Features
    <3> HIDE DEF b
    <3>5. /\ s.guard # Nobody =>
               s.guard = g /\ b["LoadControl"] = g /\ b["DeviceConfiguration"] = g
          /\ b["LoadControl"] = b["DeviceConfiguration"] =>
               s.guard = g /\ b["LoadControl"] = g
          /\ seen.guard # Nobody => s.guard = seen.guard
      <4>1. CASE seen.guard = Nobody
        BY <2>2, <3>2, <3>4, <4>1
      <4>2. CASE seen.guard = g
        <5>1. seen.bound["LoadControl"] = g /\ seen.bound["DeviceConfiguration"] = g
          BY <3>1, <3>2, <4>2 DEF GuardIsHolder, Features
        <5>2. QED
          BY <2>2, <3>2, <3>4, <4>2, <5>1
      <4>3. QED
        BY <3>3, <4>1, <4>2
    <3>6. /\ s.subscribed <=> s.followed # Nobody
          /\ s.subscribed => s.followed = s.guard /\ s.followed \in subscribing \cup hears
      BY <2>2, <3>1, <3>2, <3>3, <3>5 DEF FollowsGuard
    <3>7. /\ seen'.bound = b /\ seen'.guard = s.guard
          /\ seen'.subscribed <=> seen'.followed # Nobody
          /\ seen'.subscribed =>
               seen'.followed = seen'.guard /\ seen'.followed \in subscribing' \cup hears'
          /\ seen'.guard # Nobody /\ seen'.guard \in known => seen'.subscribed
      BY <2>1, <2>2, <3>6, SettleFollows
    <3>8. troubles.releases = 0 => b = held'
      BY <2>1, <3>1 DEF SawBindings, b
    <3>9. SawBindings'
      BY <2>1, <3>1, <3>2, <3>4, <3>7, <3>8 DEF SawBindings
    <3>10. GuardIsHolder'
      BY <3>2, <3>5, <3>7 DEF GuardIsHolder, Features
    <3>11. FollowsGuard'
      BY <2>1, <3>7 DEF FollowsGuard
    <3>12. QED
      BY <3>9, <3>10, <3>11
  <2>5. QED
    BY <1>1, <2>1, <2>3, <2>4 DEF GIInv, GuardTypes, Unbroken
<1>5. ASSUME NEW g \in Guards, NEW f \in Features, Release(g, f) PROVE GIInv'
  <2>1. /\ held' = [held EXCEPT ![f] = IF @ = g THEN Nobody ELSE @]
        /\ known' = known /\ seen' = OnRelease(seen, f)
        /\ troubles' = [troubles EXCEPT !.releases = @ + 1]
    BY <1>5 DEF Release
  <2>2. held' \in [Features -> Entities]
    BY <1>1, <2>1 DEF Entities
  <2>3. /\ troubles' \in [releases : Nat, losses : Nat]
        /\ troubles'.releases # 0 /\ troubles'.losses = troubles.losses
    BY <1>1, <2>1
  <2>4. /\ seen' \in Seen /\ seen'.bound = [seen.bound EXCEPT !["LoadControl"] = Nobody]
        /\ seen'.guard = Nobody /\ seen'.followed = Nobody /\ ~seen'.subscribed
    BY <1>1, <2>1, OnReleaseFields
  <2>5. /\ seen'.bound["LoadControl"] = Nobody
        /\ seen'.bound["DeviceConfiguration"] = seen.bound["DeviceConfiguration"]
        /\ held'["DeviceConfiguration"] \in {Nobody, held["DeviceConfiguration"]}
    BY <1>1, <2>1, <2>4 DEF Features
  <2>6. ASSUME Unbroken PROVE SawBindings' /\ GuardIsHolder' /\ FollowsGuard'
    <3>1. SawBindings
      BY <2>6 DEF GIInv
    <3>2. SawBindings'
      BY <2>3, <2>5, <3>1 DEF SawBindings
    <3>3. GuardIsHolder' /\ FollowsGuard'
      BY <2>4, <2>5 DEF GuardIsHolder, FollowsGuard, Features
    <3>4. QED
      BY <3>2, <3>3
  <2>7. QED
    BY <1>1, <2>1, <2>2, <2>3, <2>4, <2>6 DEF GIInv, GuardTypes, Unbroken
<1>6. ASSUME NEW g \in Guards, Disconnect(g) PROVE GIInv'
  <2>1. /\ held' \in [Features -> Entities]
        /\ known' \subseteq Guards /\ seen' = seen
    BY <1>1, <1>6 DEF Disconnect, Entities
  <2>2. /\ troubles' \in [releases : Nat, losses : Nat]
        /\ troubles'.losses # 0
    BY <1>1, <1>6 DEF Disconnect
  <2>3. QED
    BY <1>1, <2>1, <2>2 DEF GIInv, GuardTypes, Unbroken
<1>7. ASSUME NEW g \in Guards, SubscriptionGranted(g) PROVE GIInv'
  BY <1>1, <1>7 DEF SubscriptionGranted, GIInv, GuardTypes, Unbroken, SawBindings,
                    GuardIsHolder, FollowsGuard
<1>8. CASE UNCHANGED gvars
  BY <1>8 DEF gvars, GIInv, GuardTypes, Unbroken, SawBindings, GuardIsHolder, FollowsGuard
<1>9. QED
  BY <1>2, <1>3, <1>4, <1>5, <1>6, <1>7, <1>8 DEF GNext

LEMMA FoundShows == ASSUME Nobody \notin Guards PROVE GIInv => GuardIsFound
<1> SUFFICES ASSUME GIInv, Unbroken PROVE GuardIsFound
  BY DEF GuardIsFound, Unbroken
<1>1. SawBindings /\ GuardIsHolder /\ FollowsGuard
  BY DEF GIInv
<1>2. seen.followed # Nobody => held["LoadControl"] = seen.followed
  BY <1>1 DEF SawBindings, GuardIsHolder, FollowsGuard, Features
<1>3. ASSUME NEW g \in Guards, BoundAnew(g), g \in known, subscribing = {} PROVE Followed(g)
  <2>1. seen.bound["LoadControl"] = g /\ seen.bound["DeviceConfiguration"] = g
    BY <1>1, <1>3 DEF BoundAnew, Controls, SawBindings, Features
  <2>2. seen.guard = g
    BY <1>1, <2>1 DEF GuardIsHolder, Features
  <2>3. QED
    BY <1>1, <1>3, <2>2 DEF FollowsGuard, Followed
<1>4. ASSUME troubles.releases = 0
      PROVE  BoundGuardIsFollowed /\ (seen.followed # Nobody => Controls(seen.followed))
  <2>1. seen.bound = held
    BY <1>1, <1>4 DEF SawBindings
  <2>2. \A g \in Guards : Controls(g) => BoundAnew(g)
    BY <2>1 DEF BoundAnew, Controls, Features
  <2>3. BoundGuardIsFollowed
    BY <1>3, <2>2 DEF BoundGuardIsFollowed
  <2>4. seen.followed # Nobody => Controls(seen.followed)
    BY <1>1, <2>1 DEF GuardIsHolder, FollowsGuard, Controls
  <2>5. QED
    BY <2>3, <2>4
<1>5. QED
  BY <1>2, <1>3, <1>4 DEF GuardIsFound

\* However many guards there are, and in whatever order they bind, release, are discovered
\* and grant the subscription: until a connection is lost, only the entity that may write
\* the limit is listened to, and an entity that holds both bindings and bound LoadControl
\* after the last release is listened to once it is discovered; without releases that is
\* every entity that holds both. (actor.rs on_binding, follow_the_guards_heartbeat,
\* BindingReleased)
THEOREM GuardFound == ASSUME Nobody \notin Guards PROVE GSpec => []GuardIsFound
BY GInitFound, GNextFound, FoundShows, PTL DEF GSpec

-----------------------------------------------------------------------------
(* CsActor: nothing but an accepted and stored write makes the machine obey *)
(* a limit it did not obey before, and that one is published and recorded.  *)

\* A record with the fields of the machine, whatever their values.
MachineFields ==
    {"state", "limit", "limit_expiry", "last_heartbeat", "entered_state_at",
     "awaiting_write_since", "sequence_complete", "failsafe_watts", "failsafe_duration"}
IsMachine(c) == c = [f \in MachineFields |-> c[f]]

Obeys(c) == c.state = "Limited" /\ c.limit.is_active

\* The machine e obeys no limit that c does not obey.
NothingNew(c, e) == IsMachine(e) /\ (Obeys(e) => Obeys(c) /\ e.limit = c.limit)

\* What the features say of a machine that obeys a limit.
LEMMA ObeysIsActive ==
    ASSUME NEW c
    PROVE  /\ Machine!EffectiveLimit(c)[1] = "Active" <=> Obeys(c)
           /\ Obeys(c) => LimitData(c) = [active |-> TRUE, value |-> WholeWatts(c.limit.watts)]
BY DEF Machine!EffectiveLimit, Obeys, LimitData

LEMMA EnterNothingNew ==
    ASSUME NEW c, IsMachine(c), NEW t,
           NEW s \in {"FailsafeState", "UnlimitedControlled", "UnlimitedAutonomous"}
    PROVE  IsMachine(Machine!Enter(c, s, t)) /\ Machine!Enter(c, s, t).state = s
BY DEF Machine!Enter, IsMachine, MachineFields

LEMMA TimeoutNothingNew ==
    ASSUME NEW c, IsMachine(c), NEW t
    PROVE  NothingNew(c, Machine!HandleTimeout(c, t))
<1>1. ASSUME NEW s \in {"FailsafeState", "UnlimitedControlled", "UnlimitedAutonomous"}
      PROVE  NothingNew(c, Machine!Enter(c, s, t))
  BY <1>1, EnterNothingNew DEF NothingNew, Obeys
<1>2. NothingNew(c, c)
  BY DEF NothingNew
<1>3. QED
  BY <1>1, <1>2 DEF Machine!HandleTimeout

LEMMA RefuseNothingNew ==
    ASSUME NEW c, IsMachine(c), NEW t
    PROVE  NothingNew(c, Machine!Refuse(c, t))
<1> DEFINE e == IF c.state \in Machine!Controlled THEN c
                ELSE Machine!Enter(c, "UnlimitedControlled", t)
<1>1. NothingNew(c, e)
  BY EnterNothingNew DEF NothingNew, Obeys
<1>2. Machine!Refuse(c, t) = [e EXCEPT !.sequence_complete = TRUE, !.awaiting_write_since = -1]
  BY DEF Machine!Refuse, Machine!None
<1> HIDE DEF e
<1>3. QED
  BY <1>1, <1>2 DEF NothingNew, Obeys, IsMachine, MachineFields

LEMMA NothingNewTransitive ==
    ASSUME NEW c, NEW d, NEW e, NothingNew(c, d), NothingNew(d, e)
    PROVE  NothingNew(c, e)
BY DEF NothingNew

LEMMA HeartbeatNothingNew ==
    ASSUME NEW c, IsMachine(c), NEW t
    PROVE  NothingNew(c, Machine!OnHeartbeat(c, t))
BY DEF Machine!OnHeartbeat, NothingNew, Obeys, IsMachine, MachineFields

LEMMA UnreadableNothingNew ==
    ASSUME NEW c, IsMachine(c), NEW t
    PROVE  /\ NothingNew(c, Machine!OnUnreadableLimitWrite(c, t).cs)
           /\ Machine!OnUnreadableLimitWrite(c, t).answer \in {"NoRecentHeartbeat", "Unreadable"}
<1> DEFINE d == Machine!HandleTimeout(c, t)
<1>1. NothingNew(c, d)
  BY TimeoutNothingNew
<1>2. NothingNew(c, Machine!Refuse(d, t))
  BY <1>1, RefuseNothingNew, NothingNewTransitive DEF NothingNew
<1>3. QED
  BY <1>1, <1>2 DEF Machine!OnUnreadableLimitWrite

LEMMA FailsafeNothingNew ==
    ASSUME NEW c, IsMachine(c), NEW t, NEW w
    PROVE  /\ NothingNew(c, Machine!OnFailsafeLimitWrite(c, w, t).cs)
           /\ NothingNew(c, Machine!OnFailsafeDurationWrite(c, w, t).cs)
<1> DEFINE d == Machine!HandleTimeout(c, t)
<1>1. NothingNew(c, d)
  BY TimeoutNothingNew
<1>2. \/ Machine!OnFailsafeLimitWrite(c, w, t).cs = d
      \/ Machine!OnFailsafeLimitWrite(c, w, t).cs = [d EXCEPT !.failsafe_watts = w]
  BY DEF Machine!OnFailsafeLimitWrite
<1>3. \/ Machine!OnFailsafeDurationWrite(c, w, t).cs = d
      \/ Machine!OnFailsafeDurationWrite(c, w, t).cs = [d EXCEPT !.failsafe_duration = w]
  BY DEF Machine!OnFailsafeDurationWrite
<1> HIDE DEF d
<1>4. /\ NothingNew(c, [d EXCEPT !.failsafe_watts = w])
      /\ NothingNew(c, [d EXCEPT !.failsafe_duration = w])
  BY <1>1 DEF NothingNew, Obeys, IsMachine, MachineFields
<1>5. QED
  BY <1>1, <1>2, <1>3, <1>4

\* Letting the limit go (an acceptance taken back, an interruption) leaves none.
LEMMA LetGoNothingNew ==
    ASSUME NEW c, IsMachine(c), NEW t
    PROVE  /\ IsMachine(Machine!OnInterrupt(c, t)) /\ ~Obeys(Machine!OnInterrupt(c, t))
           /\ Machine!OnUnstoredLimitWrite(c, t) = Machine!OnInterrupt(c, t)
<1> DEFINE e == [c EXCEPT !.limit = Machine!NoWrite, !.limit_expiry = -1]
<1>1. IsMachine(e)
  BY DEF IsMachine, MachineFields
<1>2. /\ Machine!OnInterrupt(c, t) = Machine!Enter(e, "UnlimitedControlled", t)
      /\ Machine!OnUnstoredLimitWrite(c, t) = Machine!Enter(e, "UnlimitedControlled", t)
  BY DEF Machine!OnInterrupt, Machine!OnUnstoredLimitWrite, Machine!None
<1> HIDE DEF e
<1>3. QED
  BY <1>1, <1>2, EnterNothingNew DEF Obeys

\* An accepted write is the limit; a refused one changes no limit.
LEMMA LimitWriteNothingNew ==
    ASSUME NEW c, IsMachine(c), NEW t, NEW w
    PROVE  LET r == Machine!OnLimitWrite(c, w, TRUE, t) IN
           /\ IsMachine(r.cs)
           /\ r.answer \in Machine!Answers
           /\ IF r.answer = "Accepted" THEN r.cs.limit = w ELSE NothingNew(c, r.cs)
<1> DEFINE d == Machine!HandleTimeout(c, t)
           a == Machine!LimitAnswer(d, w, TRUE, t)
           r == Machine!OnLimitWrite(c, w, TRUE, t)
<1>1. NothingNew(c, d)
  BY TimeoutNothingNew
<1>2. NothingNew(c, Machine!Refuse(d, t))
  BY <1>1, RefuseNothingNew, NothingNewTransitive DEF NothingNew
<1>3. /\ r.answer = a
      /\ r.cs = IF a = "NoRecentHeartbeat" THEN d
                ELSE IF a = "Accepted" THEN Machine!ApplyLimit(d, w, t)
                ELSE Machine!Refuse(d, t)
  BY DEF Machine!OnLimitWrite
<1>4. a \in Machine!Answers
  BY DEF Machine!LimitAnswer, Machine!Answers
<1>5. IsMachine(Machine!ApplyLimit(d, w, t)) /\ Machine!ApplyLimit(d, w, t).limit = w
  <2> HIDE DEF d
  <2>1. IsMachine(d)
    BY <1>1 DEF NothingNew
  <2> DEFINE x == IF w.duration = Machine!None THEN Machine!None ELSE t + w.duration
             s == IF w.is_active /\ w.duration # 0 THEN "Limited" ELSE "UnlimitedControlled"
             e == [d EXCEPT !.sequence_complete = TRUE, !.awaiting_write_since = Machine!None,
                            !.limit = w, !.limit_expiry = x]
  <2>2. Machine!ApplyLimit(d, w, t) = Machine!Enter(e, s, t)
    BY DEF Machine!ApplyLimit
  <2> HIDE DEF x, s
  <2>3. IsMachine(e) /\ e.limit = w
    BY <2>1 DEF IsMachine, MachineFields
  <2> HIDE DEF e
  <2>4. IsMachine(Machine!Enter(e, s, t)) /\ Machine!Enter(e, s, t).limit = w
    BY <2>3 DEF Machine!Enter, IsMachine, MachineFields
  <2>5. QED
    BY <2>2, <2>4
<1> HIDE DEF d, a, r
<1>6. QED
  BY <1>1, <1>2, <1>3, <1>4, <1>5 DEF r, NothingNew

-----------------------------------------------------------------------------
(* The audit log *)

Entries == [write : Writes \cup {Machine!NoWrite}, outcome : Machine!Answers]

\* The last accepted write a list of records holds, if it holds one, is w.
LastAccepted(records, w) ==
    \A i \in 1 .. Len(records) :
      /\ records[i].outcome = "Accepted"
      /\ \A j \in i + 1 .. Len(records) : records[j].outcome # "Accepted"
      => records[i].write = w

\* A set of record numbers that is not empty has a last one.
LEMMA GreatestExists ==
    ASSUME NEW n \in Nat, NEW S \in SUBSET (1 .. n), S # {}
    PROVE  \E i \in S : \A j \in S : j <= i
<1> DEFINE T == {n - i : i \in S}
<1>1. T \in SUBSET Nat /\ T # {}
  <2>1. \A i \in S : n - i \in Nat
    OBVIOUS
  <2>2. QED
    BY <2>1
<1>2. IsWellFoundedOn({ss \in Nat \X Nat : ss[1] < ss[2]}, Nat)
  BY NatLessThanWellFounded, Zenon DEF OpToRel
<1> HIDE DEF T
<1>3. PICK k \in T : \A j \in T : <<j, k>> \notin {ss \in Nat \X Nat : ss[1] < ss[2]}
  BY <1>1, <1>2, WFMin, Zenon
<1>4. ASSUME NEW j \in T PROVE k <= j
  <2>1. j \in Nat /\ k \in Nat
    BY <1>1
  <2>2. <<j, k>> \in Nat \X Nat /\ <<j, k>>[1] = j /\ <<j, k>>[2] = k
    BY <2>1
  <2>3. ~(<<j, k>>[1] < <<j, k>>[2])
    BY <1>3, <2>2, Zenon
  <2>4. QED
    BY <2>1, <2>2, <2>3
<1>5. PICK i \in S : k = n - i
  BY <1>3 DEF T
<1>6. ASSUME NEW j \in S PROVE j <= i
  <2>1. n - j \in T
    BY DEF T
  <2>2. QED
    BY <1>4, <1>5, <2>1
<1>7. QED
  BY <1>6

\* record: what is kept of the log, and its last entry.
LEMMA RecordKeeps ==
    ASSUME AuditCapacity \in Nat \ {0}, NEW e \in Entries,
           NEW log \in [records : Seq(Entries), dropped : Nat]
    PROVE  /\ Record(log, e) \in [records : Seq(Entries), dropped : Nat]
           /\ e.outcome = "Accepted" => LastAccepted(Record(log, e).records, e.write)
           /\ e.outcome # "Accepted" =>
                \A w : LastAccepted(log.records, w) => LastAccepted(Record(log, e).records, w)
<1> DEFINE s == log.records
           t == IF Len(s) >= AuditCapacity THEN Tail(s) ELSE s
           r == Append(t, e)
<1>1. s \in Seq(Entries) /\ Len(s) \in Nat
  OBVIOUS
<1>2. /\ t \in Seq(Entries) /\ Len(t) \in Nat
      /\ \/ t = s
         \/ Len(t) = Len(s) - 1 /\ \A i \in 1 .. Len(t) : t[i] = s[i + 1]
  <2>1. CASE Len(s) >= AuditCapacity
    <3>1. s # <<>>
      BY <1>1, <2>1
    <3> HIDE DEF s
    <3>2. QED
      BY <1>1, <2>1, <3>1, HeadTailProperties
  <2>2. CASE ~(Len(s) >= AuditCapacity)
    BY <1>1, <2>2
  <2>3. QED
    BY <2>1, <2>2
<1>3. Record(log, e) =
        [records |-> r,
         dropped |-> IF Len(s) >= AuditCapacity
                     THEN IF log.dropped < MAX_DROPPED THEN log.dropped + 1 ELSE log.dropped
                     ELSE log.dropped]
  BY DEF Record
<1> HIDE DEF s, t
<1>4. /\ r \in Seq(Entries) /\ Len(r) = Len(t) + 1
      /\ \A i \in 1 .. Len(t) : r[i] = t[i]
      /\ r[Len(t) + 1] = e
  BY <1>2, AppendProperties
<1> HIDE DEF r
<1>5. Record(log, e) \in [records : Seq(Entries), dropped : Nat] /\ Record(log, e).records = r
  BY <1>3, <1>4
<1>6. e.outcome = "Accepted" => LastAccepted(r, e.write)
  <2> SUFFICES ASSUME e.outcome = "Accepted", NEW i \in 1 .. Len(r),
                      \A j \in i + 1 .. Len(r) : r[j].outcome # "Accepted"
               PROVE  r[i].write = e.write
    BY DEF LastAccepted
  <2>1. Len(r) \notin i + 1 .. Len(r)
    BY <1>2, <1>4
  <2>2. i = Len(t) + 1
    BY <1>2, <1>4, <2>1
  <2>3. QED
    BY <1>4, <2>2
<1>7. ASSUME e.outcome # "Accepted", NEW w, LastAccepted(s, w)
      PROVE  LastAccepted(r, w)
  <2>1. LastAccepted(t, w)
    <3>1. CASE t = s
      BY <1>7, <3>1
    <3>2. CASE Len(t) = Len(s) - 1 /\ \A i \in 1 .. Len(t) : t[i] = s[i + 1]
      <4> SUFFICES ASSUME NEW i \in 1 .. Len(t), t[i].outcome = "Accepted",
                          \A j \in i + 1 .. Len(t) : t[j].outcome # "Accepted"
                   PROVE  t[i].write = w
        BY DEF LastAccepted
      <4>1. i + 1 \in 1 .. Len(s) /\ t[i] = s[i + 1]
        BY <1>1, <1>2, <3>2
      <4>2. ASSUME NEW j \in i + 2 .. Len(s) PROVE s[j].outcome # "Accepted"
        <5>1. j - 1 \in i + 1 .. Len(t) /\ t[j - 1] = s[j]
          BY <1>1, <1>2, <3>2
        <5>2. QED
          BY <5>1
      <4>3. QED
        BY <1>1, <1>7, <4>1, <4>2 DEF LastAccepted
    <3>3. QED
      BY <1>2, <3>1, <3>2
  <2>2. SUFFICES ASSUME NEW i \in 1 .. Len(r), r[i].outcome = "Accepted",
                        \A j \in i + 1 .. Len(r) : r[j].outcome # "Accepted"
                 PROVE  r[i].write = w
    BY DEF LastAccepted
  <2>3. i \in 1 .. Len(t) /\ r[i] = t[i]
    <3>1. i # Len(t) + 1
      BY <1>4, <1>7, <2>2
    <3>2. QED
      BY <1>2, <1>4, <3>1
  <2>4. ASSUME NEW j \in i + 1 .. Len(t) PROVE t[j].outcome # "Accepted"
    <3>1. j \in i + 1 .. Len(r) /\ j \in 1 .. Len(t)
      BY <1>2, <1>4, <2>3
    <3>2. QED
      BY <1>4, <2>2, <3>1
  <2>5. QED
    BY <2>1, <2>2, <2>3, <2>4 DEF LastAccepted
<1>8. QED
  BY <1>5, <1>6, <1>7 DEF s

-----------------------------------------------------------------------------
(* The actor's inductive invariant *)

AIInv ==
    /\ IsMachine(system)
    /\ audit \in [records : Seq(Entries), dropped : Nat]
    /\ Obeys(system) => /\ served.limit = LimitData(system)
                        /\ LastAccepted(audit.records, system.limit)

\* A step that makes nothing new, publishes nothing else and keeps the log.
LEMMA QuietStep ==
    ASSUME AIInv, NothingNew(system, system'), audit' \in [records : Seq(Entries), dropped : Nat],
           served' = served \/ served' = Publish(system'),
           \A w : LastAccepted(audit.records, w) => LastAccepted(audit'.records, w)
    PROVE  AIInv'
<1>1. IsMachine(system')
  BY DEF NothingNew
<1>2. ASSUME Obeys(system') PROVE Obeys(system) /\ system'.limit = system.limit
  BY <1>2 DEF NothingNew
<1>3. ASSUME Obeys(system')
      PROVE  served'.limit = LimitData(system') /\ LastAccepted(audit'.records, system'.limit)
  <2>1. /\ LimitData(system) = [active |-> TRUE, value |-> WholeWatts(system.limit.watts)]
        /\ LimitData(system') = [active |-> TRUE, value |-> WholeWatts(system'.limit.watts)]
    BY <1>2, <1>3, ObeysIsActive
  <2>2. served.limit = LimitData(system) /\ LastAccepted(audit.records, system.limit)
    BY <1>2, <1>3 DEF AIInv
  <2>3. Publish(system').limit = LimitData(system')
    BY DEF Publish
  <2>4. QED
    BY <1>2, <1>3, <2>1, <2>2, <2>3
<1>4. QED
  BY <1>1, <1>3 DEF AIInv, IsMachine, Obeys, LastAccepted, LimitData,
     Machine!EffectiveLimit

LEMMA AInitServes == AInit => AIInv
<1> SUFFICES ASSUME AInit PROVE AIInv
  OBVIOUS
<1>1. IsMachine(system) /\ ~Obeys(system)
  BY DEF AInit, Machine!New, IsMachine, MachineFields, Obeys
<1>2. audit \in [records : Seq(Entries), dropped : Nat]
  BY DEF AInit
<1>3. QED
  BY <1>1, <1>2 DEF AIInv

\* decide_limit: the write that is obeyed is the one published and recorded.
LEMMA DecideLimitServes ==
    ASSUME AuditCapacity \in Nat \ {0}, AIInv,
           NEW w \in Writes, NEW stored \in BOOLEAN, DecideLimit(w, stored)
    PROVE  AIInv'
<1> DEFINE r == Machine!OnLimitWrite(system, w, TRUE, clock)
           e == [write |-> w, outcome |-> reply']
<1>1. /\ system' = IF r.answer = "Accepted" /\ ~stored
                   THEN Machine!OnUnstoredLimitWrite(r.cs, clock) ELSE r.cs
      /\ reply' = IF r.answer = "Accepted" /\ ~stored THEN "NotStored" ELSE r.answer
      /\ served' = IF r.answer = "Accepted" THEN Publish(system') ELSE served
      /\ audit' = Record(audit, e)
  BY DEF DecideLimit
<1>2. /\ IsMachine(r.cs) /\ r.answer \in Machine!Answers
      /\ IF r.answer = "Accepted" THEN r.cs.limit = w ELSE NothingNew(system, r.cs)
  BY LimitWriteNothingNew DEF AIInv
<1> HIDE DEF r
<1>3. e \in Entries /\ e.outcome = reply' /\ e.write = w
  BY <1>1, <1>2 DEF Entries, Machine!Answers
<1> HIDE DEF e
<1>4. /\ audit' \in [records : Seq(Entries), dropped : Nat]
      /\ reply' = "Accepted" => LastAccepted(audit'.records, w)
      /\ reply' # "Accepted" =>
           \A v : LastAccepted(audit.records, v) => LastAccepted(audit'.records, v)
  BY <1>1, <1>3, RecordKeeps DEF AIInv
<1>5. CASE r.answer = "Accepted" /\ stored
  <2>1. system' = r.cs /\ reply' = "Accepted" /\ served' = Publish(system')
    BY <1>1, <1>5
  <2>2. Publish(system').limit = LimitData(system')
    BY DEF Publish
  <2>3. /\ IsMachine(system') /\ served'.limit = LimitData(system')
        /\ LastAccepted(audit'.records, system'.limit)
    BY <1>2, <1>4, <1>5, <2>1, <2>2
  <2>4. QED
    BY <1>4, <2>3 DEF AIInv, IsMachine, Obeys, LastAccepted, LimitData, Machine!EffectiveLimit
<1>6. CASE r.answer = "Accepted" /\ ~stored
  <2>1. IsMachine(system') /\ ~Obeys(system')
    BY <1>1, <1>2, <1>6, LetGoNothingNew
  <2>2. QED
    BY <1>4, <2>1 DEF AIInv, IsMachine, Obeys
<1>7. CASE r.answer # "Accepted"
  <2>1. NothingNew(system, system') /\ served' = served /\ reply' # "Accepted"
    BY <1>1, <1>2, <1>7
  <2>2. QED
    BY <1>4, <2>1, QuietStep
<1>8. QED
  BY <1>5, <1>6, <1>7

\* Every call the application makes of the actor.
LEMMA ANextServes ==
    ASSUME AuditCapacity \in Nat \ {0} PROVE AIInv /\ [ANext]_avars => AIInv'
<1> SUFFICES ASSUME AIInv, [ANext]_avars PROVE AIInv'
  OBVIOUS
<1>1. IsMachine(system) /\ audit \in [records : Seq(Entries), dropped : Nat]
  BY DEF AIInv
<1>2. NothingNew(system, system)
  BY <1>1 DEF NothingNew
<1>3. CASE Heartbeat
  BY <1>1, <1>3, HeartbeatNothingNew, QuietStep DEF Heartbeat
<1>4. CASE HandleTimeout
  BY <1>1, <1>4, TimeoutNothingNew, QuietStep DEF HandleTimeout
<1>5. CASE Pass
  BY <1>1, <1>2, <1>5, QuietStep DEF Pass
<1>6. CASE Drain
  <2>1. audit' \in [records : Seq(Entries), dropped : Nat] /\ audit'.records = <<>>
    <3>1. <<>> \in Seq(Entries)
      OBVIOUS
    <3>2. audit' = [audit EXCEPT !.records = <<>>]
      BY <1>6 DEF Drain
    <3>3. QED
      BY <1>1, <3>1, <3>2
  <2>2. \A w : LastAccepted(audit'.records, w)
    BY <2>1 DEF LastAccepted
  <2>3. QED
    BY <1>2, <1>6, <2>1, <2>2, QuietStep DEF Drain
<1>7. ASSUME NEW w \in Writes, NEW stored \in BOOLEAN, DecideLimit(w, stored)
      PROVE  AIInv'
  BY <1>7, DecideLimitServes
<1>8. ASSUME NEW addressed \in BOOLEAN, DecideUnreadable(addressed)
      PROVE  AIInv'
  <2> DEFINE r == Machine!OnUnreadableLimitWrite(system, clock)
             e == [write |-> Machine!NoWrite, outcome |-> reply']
  <2>1. /\ NothingNew(system, r.cs) /\ r.answer \in {"NoRecentHeartbeat", "Unreadable"}
    BY <1>1, UnreadableNothingNew
  <2>2. /\ system' = IF addressed THEN r.cs ELSE system
        /\ reply' = IF addressed THEN r.answer ELSE "Unreadable"
        /\ audit' = Record(audit, e) /\ served' = served
    BY <1>8 DEF DecideUnreadable
  <2> HIDE DEF r
  <2>3. NothingNew(system, system') /\ reply' \in {"NoRecentHeartbeat", "Unreadable"}
    BY <1>2, <2>1, <2>2
  <2>4. e \in Entries /\ e.outcome # "Accepted"
    BY <2>3 DEF Entries, Machine!Answers
  <2> HIDE DEF e
  <2>5. /\ audit' \in [records : Seq(Entries), dropped : Nat]
        /\ \A w : LastAccepted(audit.records, w) => LastAccepted(audit'.records, w)
    BY <1>1, <2>2, <2>4, RecordKeeps
  <2>6. QED
    BY <2>2, <2>3, <2>5, QuietStep
<1>9. ASSUME NEW watts, NEW durations, NEW stored \in BOOLEAN,
             DecideFailsafe(watts, durations, stored)
      PROVE  AIInv'
  <2> DEFINE first == IF watts = {} THEN [answer |-> "Accepted", cs |-> system]
                      ELSE Machine!OnFailsafeLimitWrite(system, CHOOSE w \in watts : TRUE, clock)
             second == IF durations = {} THEN [answer |-> "Accepted", cs |-> first.cs]
                       ELSE Machine!OnFailsafeDurationWrite(first.cs,
                                                            CHOOSE d \in durations : TRUE, clock)
  <2>1. NothingNew(system, first.cs)
    <3>1. CASE watts = {}
      BY <1>2, <3>1
    <3>2. CASE watts # {}
      BY <1>1, <3>2, FailsafeNothingNew
    <3>3. QED
      BY <3>1, <3>2
  <2>2. system' = second.cs /\ audit' = audit /\ served' \in {served, Publish(system')}
    BY <1>9 DEF DecideFailsafe
  <2> HIDE DEF first
  <2>3. NothingNew(system, second.cs)
    <3>1. CASE durations = {}
      BY <2>1, <3>1
    <3>2. CASE durations # {}
      <4>1. NothingNew(first.cs, second.cs)
        BY <2>1, <3>2, FailsafeNothingNew DEF NothingNew
      <4> HIDE DEF second
      <4>2. QED
        BY <2>1, <4>1, NothingNewTransitive
    <3>3. QED
      BY <3>1, <3>2
  <2> HIDE DEF second
  <2>4. QED
    BY <1>1, <2>2, <2>3, QuietStep
<1>10. ASSUME NEW u \in BOOLEAN, Interrupt(u)
       PROVE  AIInv'
  <2>1. IsMachine(system') /\ ~Obeys(system') /\ audit' = audit
    BY <1>1, <1>10, LetGoNothingNew DEF Interrupt
  <2>2. QED
    BY <1>1, <2>1 DEF AIInv, IsMachine, Obeys
<1>11. CASE UNCHANGED avars
  BY <1>1, <1>2, <1>11, QuietStep DEF avars
<1>12. QED
  BY <1>3, <1>4, <1>5, <1>6, <1>7, <1>8, <1>9, <1>10, <1>11 DEF ANext

LEMMA ServesShows == AIInv => ObeyedIsServed /\ LimitIsOnRecord
<1> SUFFICES ASSUME AIInv PROVE ObeyedIsServed /\ LimitIsOnRecord
  OBVIOUS
<1>1. ObeyedIsServed
  BY ObeysIsActive DEF AIInv, ObeyedIsServed
<1>2. LimitIsOnRecord
  <2> SUFFICES ASSUME Obeys(system), Accepted # {}
               PROVE  LET last == CHOOSE i \in Accepted : \A j \in Accepted : j <= i
                      IN  audit.records[last].write = system.limit
    BY ObeysIsActive DEF LimitIsOnRecord
  <2>1. audit.records \in Seq(Entries) /\ LastAccepted(audit.records, system.limit)
    BY DEF AIInv
  <2>2. Len(audit.records) \in Nat /\ Accepted \in SUBSET (1 .. Len(audit.records))
    BY <2>1 DEF Accepted
  <2>3. \E i \in Accepted : \A j \in Accepted : j <= i
    BY <2>2, GreatestExists
  <2> DEFINE last == CHOOSE i \in Accepted : \A j \in Accepted : j <= i
  <2>4. last \in Accepted /\ \A j \in Accepted : j <= last
    BY <2>3
  <2> HIDE DEF last
  <2>5. last \in 1 .. Len(audit.records) /\ audit.records[last].outcome = "Accepted"
    BY <2>2, <2>4 DEF Accepted
  <2>6. ASSUME NEW j \in last + 1 .. Len(audit.records)
        PROVE  audit.records[j].outcome # "Accepted"
    <3>1. j \in 1 .. Len(audit.records) /\ ~(j <= last)
      BY <2>2, <2>5
    <3>2. j \in DOMAIN audit.records /\ j \notin Accepted
      BY <2>1, <2>4, <3>1
    <3>3. QED
      BY <3>2 DEF Accepted
  <2>7. audit.records[last].write = system.limit
    BY <2>1, <2>5, <2>6 DEF LastAccepted
  <2>8. QED
    BY <2>7 DEF last
<1>3. QED
  BY <1>1, <1>2

\* For every setting of the timers and every write: the LoadControl feature serves the
\* limit the machine obeys, and the log's last accepted write is that limit.
THEOREM LimitServed ==
    ASSUME AuditCapacity \in Nat \ {0} PROVE ASpec => [](ObeyedIsServed /\ LimitIsOnRecord)
BY AInitServes, ANextServes, ServesShows, PTL DEF ASpec

-----------------------------------------------------------------------------
(* Times: every date of every year, every second of a day and every         *)
(* duration. Both ways through the calendar go through the same numbers: a  *)
(* year of 400 years, its centuries, their spans of four years and the days *)
(* since March, which `Year` and `Split` name.                              *)

\* a is q times b and r more.
Split(a, b, q, r) ==
    /\ a \in Int /\ b \in Nat \ {0} /\ q \in Int /\ r \in Int
    /\ 0 <= r /\ r < b /\ a = b * q + r

LEMMA Dividing ==
    ASSUME NEW a, NEW b, NEW q, NEW r, Split(a, b, q, r)
    PROVE  a \div b = q /\ a % b = r
BY DEF Split

LEMMA Splitting ==
    ASSUME NEW a \in Int, NEW b \in Nat \ {0}
    PROVE  Split(a, b, a \div b, a % b)
BY DEF Split

\* Division that rounds towards zero, from division that rounds down.
LEMMA RoundsDown ==
    ASSUME NEW a, NEW b, NEW q, NEW r, Split(a, b, q, r)
    PROVE  Calendar!Quotient(IF a >= 0 THEN a ELSE a - (b - 1), b) = q
<1>1. CASE a >= 0
    BY <1>1, Dividing DEF Calendar!Quotient, Split
<1>2. CASE a < 0
  <2> DEFINE c == -(a - (b - 1))
  <2>1. b \in Nat \ {0} /\ a \in Int /\ q \in Int /\ r \in Int
      BY DEF Split
  <2>2. c = b * (-q) + (b - 1 - r)
      BY DEF Split
  <2>3. Split(c, b, -q, b - 1 - r)
    <3> HIDE DEF c
    <3> QED BY <2>2 DEF Split
  <2>4. c \div b = -q
      BY <2>3, Dividing
  <2>5. ~(a - (b - 1) >= 0)
      BY <1>2, <2>1
  <2>6. Calendar!Quotient(a - (b - 1), b) = -(c \div b)
      BY <2>5 DEF Calendar!Quotient
  <2> QED BY <1>2, <2>1, <2>4, <2>6
<1> QED BY <1>1, <1>2 DEF Split

\* What division towards zero leaves.
LEMMA Truncates ==
    ASSUME NEW a, NEW b, NEW q, NEW r, Split(a, b, q, r)
    PROVE  IF a >= 0 \/ r = 0 THEN Calendar!Quotient(a, b) = q /\ Calendar!Remainder(a, b) = r
           ELSE Calendar!Quotient(a, b) = q + 1 /\ Calendar!Remainder(a, b) = r - b
<1>1. b \in Nat \ {0} /\ a \in Int /\ q \in Int /\ r \in Int /\ 0 <= r /\ r < b /\ a = b * q + r
    BY DEF Split
<1>2. CASE a >= 0
  <2>1. a \div b = q
      BY Dividing
  <2>2. Calendar!Quotient(a, b) = q
      BY <1>1, <1>2, <2>1 DEF Calendar!Quotient
  <2>3. a - b * q = r
      BY <1>1
  <2> QED BY <1>2, <2>2, <2>3 DEF Calendar!Remainder
<1>3. CASE a < 0 /\ r = 0
  <2>1. Split(-a, b, -q, 0)
      BY <1>1, <1>3 DEF Split
  <2>2. (-a) \div b = -q
      BY <2>1, Dividing
  <2> QED BY <1>1, <1>3, <2>2 DEF Calendar!Quotient, Calendar!Remainder
<1>4. CASE a < 0 /\ r # 0
  <2>1. -a = b * (-(q + 1)) + (b - r)
      BY <1>1
  <2>2. Split(-a, b, -(q + 1), b - r)
      BY <1>1, <1>4, <2>1 DEF Split
  <2>3. (-a) \div b = -(q + 1)
      BY <2>2, Dividing
  <2>4. Calendar!Quotient(a, b) = q + 1
      BY <1>1, <1>4, <2>3 DEF Calendar!Quotient
  <2>5. a - b * (q + 1) = r - b
      BY <1>1
  <2> QED BY <1>1, <1>4, <2>4, <2>5 DEF Calendar!Remainder
<1> QED BY <1>1, <1>2, <1>3, <1>4

\* A year in its 400-year era: centuries, spans of four years and single years.
Year(y, e, c, q, r) ==
    /\ y \in Int /\ e \in Int /\ c \in 0 .. 3 /\ q \in 0 .. 24 /\ r \in 0 .. 3
    /\ y = 400 * e + 100 * c + 4 * q + r

LEMMA YearsOfEra ==
    ASSUME NEW y \in Int
    PROVE  \E e, c, q, r : Year(y, e, c, q, r)
<1> DEFINE e == y \div 400
           f == y % 400
           c == f \div 100
           g == f % 100
           q == g \div 4
           r == g % 4
<1>1. Split(y, 400, e, f)
    BY Splitting
<1> HIDE DEF e, f
<1>2. Split(f, 100, c, g)
    BY <1>1, Splitting DEF Split
<1> HIDE DEF c, g
<1>3. Split(g, 4, q, r)
    BY <1>2, Splitting DEF Split
<1> HIDE DEF q, r
<1>4. Year(y, e, c, q, r)
    BY <1>1, <1>2, <1>3 DEF Split, Year
<1> QED BY <1>4

LEMMA YearDivides ==
    ASSUME NEW y, NEW e, NEW c, NEW q, NEW r, Year(y, e, c, q, r)
    PROVE  /\ Split(y, 400, e, 100 * c + 4 * q + r)
           /\ Split(y, 100, 4 * e + c, 4 * q + r)
           /\ Split(y, 4, 100 * e + 25 * c + q, r)
           /\ Split(100 * c + 4 * q + r, 100, c, 4 * q + r)
           /\ Split(100 * c + 4 * q + r, 4, 25 * c + q, r)
BY DEF Split, Year

Leap(y) == y % 400 = 0 \/ (y % 4 = 0 /\ y % 100 # 0)

LEMMA LeapYears ==
    ASSUME NEW y, NEW e, NEW c, NEW q, NEW r, Year(y, e, c, q, r)
    PROVE  Leap(y) <=> r = 0 /\ (q # 0 \/ c = 0)
<1>1. /\ y % 400 = 100 * c + 4 * q + r /\ y % 100 = 4 * q + r /\ y % 4 = r
    BY YearDivides, Dividing
<1> QED BY <1>1 DEF Leap, Year

LEMMA LeapIsLeap ==
    ASSUME NEW y \in Int
    PROVE  Calendar!IsLeapYear(y) <=> Leap(y)
<1>1. \A b \in Nat \ {0} : Calendar!Remainder(y, b) = 0 <=> y % b = 0
  <2> SUFFICES ASSUME NEW b \in Nat \ {0} PROVE Calendar!Remainder(y, b) = 0 <=> y % b = 0
      OBVIOUS
  <2> DEFINE q == y \div b
             r == y % b
  <2>1. Split(y, b, q, r)
      BY Splitting
  <2> HIDE DEF q, r
  <2>2. IF y >= 0 \/ r = 0 THEN Calendar!Remainder(y, b) = r ELSE Calendar!Remainder(y, b) = r - b
      BY <2>1, Truncates
  <2>3. r \in Int /\ 0 <= r /\ r < b
      BY <2>1 DEF Split
  <2> QED BY <2>2, <2>3 DEF r
<1>2. PICK e, c, q, r : Year(y, e, c, q, r)
    BY YearsOfEra
<1>3. /\ y % 400 = 100 * c + 4 * q + r /\ y % 100 = 4 * q + r /\ y % 4 = r
    BY <1>2, YearDivides, Dividing
<1>4. y % 400 = 0 => y % 4 = 0
    BY <1>2, <1>3 DEF Year
<1> QED BY <1>1, <1>4 DEF Leap, Calendar!IsLeapYear

-----------------------------------------------------------------------------
\* Years that begin in March: the month counted from there, and the day of the year.
Shifted(month) == IF month > 2 THEN month - 3 ELSE month + 9
Before(mp) == (153 * mp + 2) \div 5
Dates == {d \in [year : Int, month : 1 .. 12, day : 1 .. 31] : d.day <= Calendar!Length(d)}

\* The days before each month, and the months of the days.
LEMMA MonthTable ==
    /\ Before(0) = 0 /\ Before(1) = 31 /\ Before(2) = 61 /\ Before(3) = 92
    /\ Before(4) = 122 /\ Before(5) = 153 /\ Before(6) = 184 /\ Before(7) = 214
    /\ Before(8) = 245 /\ Before(9) = 275 /\ Before(10) = 306 /\ Before(11) = 337
BY DEF Before

LEMMA LengthTable ==
    ASSUME NEW d \in Dates
    PROVE  /\ d.month \in {1, 3, 5, 7, 8, 10, 12} => Calendar!Length(d) = 31
           /\ d.month \in {4, 6, 9, 11} => Calendar!Length(d) = 30
           /\ d.month = 2 => Calendar!Length(d) = IF Leap(d.year) THEN 29 ELSE 28
BY DEF Dates, Calendar!Length, Calendar!MonthLength, Leap

LEMMA MonthsFit ==
    ASSUME NEW mp \in 0 .. 11, NEW k \in Int, 1 <= k,
           mp \in {0, 2, 4, 5, 7, 9, 10} => k <= 31,
           mp \in {1, 3, 6, 8} => k <= 30,
           mp = 11 => k <= 29
    PROVE  (5 * (Before(mp) + k - 1) + 2) \div 153 = mp
<1>1. mp \in {0, 1, 2, 3, 4, 5, 6, 7, 8, 9, 10, 11}
    OBVIOUS
<1> DEFINE a == 5 * (Before(mp) + k - 1) + 2
<1>2. Split(a, 153, mp, a - 153 * mp)
    BY <1>1, MonthTable DEF Split
<1> HIDE DEF a
<1>3. a \div 153 = mp
    BY <1>2, Dividing
<1> QED BY <1>3 DEF a

\* A day of an era, counted from its first: the year it is in.
LEMMA YearOfDay ==
    ASSUME NEW y, NEW e, NEW c, NEW q, NEW r, Year(y, e, c, q, r),
           NEW k \in Nat, k <= 365, k = 365 => Leap(y + 1),
           NEW yoe, yoe = 100 * c + 4 * q + r,
           NEW doe, doe = 36524 * c + 1461 * q + 365 * r + k
    PROVE  /\ doe \in Nat /\ doe <= 146096
           /\ (doe - doe \div 1460 + doe \div 36524 - doe \div 146096) \div 365 = yoe
<1> DEFINE spill == IF 24 * c + q + 365 * r + k >= 1460 THEN 1 ELSE 0
           final == IF doe = 146096 THEN 1 ELSE 0
<1>1. y \in Int /\ e \in Int /\ c \in 0 .. 3 /\ q \in 0 .. 24 /\ r \in 0 .. 3
    BY DEF Year
<1>2. k = 365 => r = 3 /\ (q # 24 \/ c = 3)
  <2>1. CASE r = 3 /\ q = 24 /\ c = 3
      BY <2>1
  <2>2. CASE r = 3 /\ q = 24 /\ c # 3
    <3>1. Year(y + 1, e, c + 1, 0, 0)
        BY <2>2 DEF Year
    <3>2. ~Leap(y + 1)
        BY <1>1, <3>1, LeapYears
    <3> QED BY <3>2
  <2>3. CASE r = 3 /\ q # 24
      BY <2>3
  <2>4. CASE r # 3
    <3>1. Year(y + 1, e, c, q, r + 1)
        BY <2>4 DEF Year
    <3>2. ~Leap(y + 1)
        BY <1>1, <3>1, LeapYears
    <3> QED BY <3>2
  <2> QED BY <2>1, <2>2, <2>3, <2>4
<1>3. Split(doe, 1460, 25 * c + q + spill, 24 * c + q + 365 * r + k - 1460 * spill)
    BY <1>1, <1>2 DEF Split
<1>4. Split(doe, 36524, c + final, 1461 * q + 365 * r + k - 36524 * final)
    BY <1>1, <1>2 DEF Split
<1>5. Split(doe, 146096, final, doe - 146096 * final)
    BY <1>1, <1>2 DEF Split
<1>6. doe \in Nat /\ doe <= 146096
    BY <1>1, <1>2
<1>7. /\ doe \div 1460 = 25 * c + q + spill /\ doe \div 36524 = c + final
      /\ doe \div 146096 = final
  <2> HIDE DEF spill, final
  <2> QED BY <1>3, <1>4, <1>5, Dividing
<1> DEFINE n == doe - doe \div 1460 + doe \div 36524 - doe \div 146096
<1>8. Split(n, 365, yoe, k - spill)
  <2>1. n = 36500 * c + 1460 * q + 365 * r + k - spill
      BY <1>1, <1>7
  <2>2. 0 <= k - spill /\ k - spill < 365 /\ k - spill \in Int
      BY <1>1, <1>2
  <2> HIDE DEF n, spill
  <2> QED BY <1>1, <2>1, <2>2 DEF Split
<1>9. n \div 365 = yoe
  <2> HIDE DEF n
  <2> QED BY <1>8, Dividing
<1> QED BY <1>6, <1>9

\* The year that begins in March, the month in it and the days before a date in it.
March(d) == IF d.month <= 2 THEN d.year - 1 ELSE d.year
DayOf(d) == Before(Shifted(d.month)) + d.day - 1

LEMMA DayTyped ==
    ASSUME NEW d \in Dates
    PROVE  /\ d.year \in Int /\ d.month \in 1 .. 12 /\ d.day \in Int /\ 1 <= d.day
           /\ d.day <= 31 /\ d.day <= Calendar!Length(d)
           /\ d = [year |-> d.year, month |-> d.month, day |-> d.day]
           /\ March(d) \in Int
BY DEF Dates, March

LEMMA DayOfTyped ==
    ASSUME NEW d \in Dates
    PROVE  /\ Shifted(d.month) \in 0 .. 11 /\ DayOf(d) \in Nat /\ DayOf(d) <= 365
           /\ DayOf(d) = 365 => Leap(March(d) + 1)
           /\ (5 * DayOf(d) + 2) \div 153 = Shifted(d.month)
<1> DEFINE mp == Shifted(d.month)
<1>1. /\ d.year \in Int /\ d.month \in 1 .. 12 /\ d.day \in Int /\ 1 <= d.day
      /\ d.day <= 31 /\ d.day <= Calendar!Length(d)
    BY DayTyped
<1>2. mp \in 0 .. 11
    BY <1>1 DEF Shifted
<1>3. /\ mp \in {0, 2, 4, 5, 7, 9, 10} => d.day <= 31
      /\ mp \in {1, 3, 6, 8} => d.day <= 30
      /\ mp = 11 => d.day <= 29 /\ (d.day = 29 => Leap(d.year)) /\ d.month = 2
  <2>1. mp \in {1, 3, 6, 8} => d.month \in {4, 6, 9, 11}
      BY <1>1 DEF Shifted
  <2>2. mp = 11 => d.month = 2
      BY <1>1 DEF Shifted
  <2> QED BY <1>1, <2>1, <2>2, LengthTable
<1> HIDE DEF mp
<1>4. mp \in {0, 1, 2, 3, 4, 5, 6, 7, 8, 9, 10, 11}
    BY <1>2
<1>5. DayOf(d) = Before(mp) + d.day - 1
    BY DEF DayOf, mp
<1>6. DayOf(d) \in Nat /\ DayOf(d) <= 365 /\ (DayOf(d) = 365 => mp = 11 /\ d.day = 29)
    BY <1>1, <1>3, <1>4, <1>5, MonthTable
<1>7. DayOf(d) = 365 => Leap(March(d) + 1)
    BY <1>1, <1>3, <1>6 DEF March
<1>8. (5 * (Before(mp) + d.day - 1) + 2) \div 153 = mp
    BY <1>1, <1>2, <1>3, MonthsFit
<1> QED BY <1>2, <1>5, <1>6, <1>7, <1>8 DEF mp

LEMMA DaysCounted ==
    ASSUME NEW d \in Dates, NEW e, NEW c, NEW q, NEW r, Year(March(d), e, c, q, r)
    PROVE  Calendar!DaysFromCivil(d.year, d.month, d.day)
             = 146097 * e + (36524 * c + 1461 * q + 365 * r + DayOf(d)) - 719468
<1> DEFINE y == March(d)
           era == Calendar!Quotient(IF y >= 0 THEN y ELSE y - 399, 400)
           yoe == y - era * 400
           f == 100 * c + 4 * q + r
<1>1. Calendar!DaysFromCivil(d.year, d.month, d.day)
        = era * 146097 + (yoe * 365 + yoe \div 4 - yoe \div 100 + DayOf(d)) - 719468
    BY DEF Calendar!DaysFromCivil, March, DayOf, Shifted, Before
<1>2. y \in Int /\ e \in Int /\ c \in 0 .. 3 /\ q \in 0 .. 24 /\ r \in 0 .. 3 /\ y = 400 * e + f
    BY DEF Year
<1>3. Calendar!Quotient(IF y >= 0 THEN y ELSE y - (400 - 1), 400) = e
  <2> HIDE DEF y
  <2> QED BY YearDivides, RoundsDown DEF y
<1>4. era = e
    BY <1>3
<1> HIDE DEF era, y
<1>5. yoe = f
    BY <1>2, <1>4
<1>6. f \div 4 = 25 * c + q /\ f \div 100 = c
    BY YearDivides, Dividing
<1>7. DayOf(d) \in Int
    BY DayOfTyped
<1> HIDE DEF yoe
<1>8. yoe * 365 + yoe \div 4 - yoe \div 100 = 36524 * c + 1461 * q + 365 * r
    BY <1>2, <1>5, <1>6
<1> QED BY <1>1, <1>2, <1>4, <1>5, <1>6, <1>7, <1>8

\* Every date is found again from its number.
LEMMA DateIsFound ==
    ASSUME NEW d \in Dates
    PROVE  Calendar!CivilFromDays(Calendar!DaysFromCivil(d.year, d.month, d.day)) = d
<1> DEFINE count == Calendar!DaysFromCivil(d.year, d.month, d.day)
           k == DayOf(d)
           mp == Shifted(d.month)
<1>1. PICK e, c, q, r : Year(March(d), e, c, q, r)
    BY DayTyped, YearsOfEra
<1> DEFINE doe == 36524 * c + 1461 * q + 365 * r + k
           f == 100 * c + 4 * q + r
<1>2. count = 146097 * e + doe - 719468
    BY <1>1, DaysCounted
<1>3. /\ March(d) \in Int /\ e \in Int /\ c \in 0 .. 3 /\ q \in 0 .. 24 /\ r \in 0 .. 3
      /\ March(d) = 400 * e + f
    BY <1>1 DEF Year
<1>4. /\ k \in Nat /\ k <= 365 /\ mp \in 0 .. 11 /\ (k = 365 => Leap(March(d) + 1))
      /\ (5 * k + 2) \div 153 = mp
    BY DayOfTyped
<1> HIDE DEF k, mp, count
<1>5. doe \in Nat /\ doe <= 146096 /\ Calendar!YearOfEra(doe) = f
    BY <1>1, <1>4, YearOfDay DEF Calendar!YearOfEra
<1>6. f \div 4 = 25 * c + q /\ f \div 100 = c
    BY <1>1, YearDivides, Dividing
<1>7. doe - (365 * f + f \div 4 - f \div 100) = k
    BY <1>3, <1>4, <1>6
<1> HIDE DEF doe, f
<1> DEFINE z == count + 719468
           era == Calendar!Quotient(IF z >= 0 THEN z ELSE z - 146096, 146097)
<1>8. Split(z, 146097, e, doe)
    BY <1>2, <1>3, <1>5 DEF Split
<1>9. era = e
  <2>1. Calendar!Quotient(IF z >= 0 THEN z ELSE z - (146097 - 1), 146097) = e
    <3> HIDE DEF z
    <3> QED BY <1>8, RoundsDown
  <2> QED BY <2>1
<1>10. z - era * 146097 = doe
    BY <1>8, <1>9 DEF Split
<1> HIDE DEF z, era
<1> DEFINE m == IF mp < 10 THEN mp + 3 ELSE mp - 9
<1>11. Calendar!CivilFromDays(count) = Calendar!FromMarch(f + era * 400, k)
    BY <1>5, <1>7, <1>10 DEF Calendar!CivilFromDays, z, era
<1>12. Calendar!FromMarch(f + era * 400, k) =
         [ year |-> f + era * 400 + (IF m <= 2 THEN 1 ELSE 0), month |-> m,
           day |-> k - (153 * mp + 2) \div 5 + 1 ]
    BY <1>4 DEF Calendar!FromMarch
<1>13. d.month \in 1 .. 12 /\ d.day \in Int /\ d.year \in Int
       /\ d = [year |-> d.year, month |-> d.month, day |-> d.day]
    BY DayTyped
<1>14. m = d.month
    BY <1>13 DEF mp, Shifted
<1>15. f + era * 400 + (IF m <= 2 THEN 1 ELSE 0) = d.year
    BY <1>3, <1>9, <1>13, <1>14 DEF March, f
<1>16. k - (153 * mp + 2) \div 5 + 1 = d.day
  <2>1. k = Before(mp) + d.day - 1
      BY DEF k, mp, DayOf
  <2>2. Before(mp) \in Int
      BY <1>4, MonthTable
  <2>3. k - Before(mp) + 1 = d.day
      BY <1>13, <2>1, <2>2
  <2> QED BY <2>3 DEF Before
<1> QED BY <1>11, <1>12, <1>13, <1>14, <1>15, <1>16 DEF count

Number(d) == Calendar!DaysFromCivil(d.year, d.month, d.day)

\* Within a year that begins in March the days are counted on.
LEMMA CountedOn ==
    ASSUME NEW d \in Dates, NEW g \in Dates, March(g) = March(d), DayOf(g) = DayOf(d) + 1
    PROVE  Number(g) = Number(d) + 1
<1>1. PICK e, c, q, r : Year(March(d), e, c, q, r)
    BY DayTyped, YearsOfEra
<1>2. Number(d) = 146097 * e + (36524 * c + 1461 * q + 365 * r + DayOf(d)) - 719468
    BY <1>1, DaysCounted DEF Number
<1>3. Number(g) = 146097 * e + (36524 * c + 1461 * q + 365 * r + DayOf(g)) - 719468
    BY <1>1, DaysCounted DEF Number
<1>4. DayOf(d) \in Int /\ DayOf(g) \in Int
    BY DayOfTyped
<1> QED BY <1>1, <1>2, <1>3, <1>4 DEF Year

\* The last day of February is followed by the first of March.
LEMMA YearTurns ==
    ASSUME NEW d \in Dates, NEW g \in Dates, March(g) = March(d) + 1,
           DayOf(d) = IF Leap(March(d) + 1) THEN 365 ELSE 364, DayOf(g) = 0
    PROVE  Number(g) = Number(d) + 1
<1> DEFINE y == March(d)
<1>1. PICK e, c, q, r : Year(y, e, c, q, r)
    BY DayTyped, YearsOfEra
<1>2. Number(d) = 146097 * e + (36524 * c + 1461 * q + 365 * r + DayOf(d)) - 719468
    BY <1>1, DaysCounted DEF Number
<1>3. y \in Int /\ e \in Int /\ c \in 0 .. 3 /\ q \in 0 .. 24 /\ r \in 0 .. 3
    BY <1>1 DEF Year
<1>4. \A e1, c1, q1, r1 : Year(y + 1, e1, c1, q1, r1) =>
        /\ Number(g) = 146097 * e1 + (36524 * c1 + 1461 * q1 + 365 * r1 + 0) - 719468
        /\ Leap(y + 1) <=> r1 = 0 /\ (q1 # 0 \/ c1 = 0)
    BY DaysCounted, LeapYears DEF Number
<1>a. y = 400 * e + 100 * c + 4 * q + r
    BY <1>1 DEF Year
<1> HIDE DEF y
<1>5. CASE r # 3
  <2>1. Year(y + 1, e, c, q, r + 1)
      BY <1>3, <1>a, <1>5 DEF Year
  <2>2. r + 1 # 0
      BY <1>3
  <2> QED BY <1>2, <1>3, <1>4, <2>1, <2>2 DEF y
<1>6. CASE r = 3 /\ q # 24
  <2>1. Year(y + 1, e, c, q + 1, 0)
      BY <1>3, <1>a, <1>6 DEF Year
  <2>2. q + 1 # 0
      BY <1>3
  <2> QED BY <1>2, <1>3, <1>4, <1>6, <2>1, <2>2 DEF y
<1>7. CASE r = 3 /\ q = 24 /\ c # 3
  <2>1. Year(y + 1, e, c + 1, 0, 0)
      BY <1>3, <1>a, <1>7 DEF Year
  <2>2. c + 1 # 0
      BY <1>3
  <2> QED BY <1>2, <1>3, <1>4, <1>7, <2>1, <2>2 DEF y
<1>8. CASE r = 3 /\ q = 24 /\ c = 3
  <2>1. Year(y + 1, e + 1, 0, 0, 0)
      BY <1>3, <1>a, <1>8 DEF Year
  <2> QED BY <1>2, <1>3, <1>4, <1>8, <2>1 DEF y
<1> QED BY <1>5, <1>6, <1>7, <1>8

\* The day after a date, on the wall calendar, has the next number.
LEMMA NextDay ==
    ASSUME NEW d \in Dates
    PROVE  Calendar!Tomorrow(d) \in Dates /\ Number(Calendar!Tomorrow(d)) = Number(d) + 1
<1>1. /\ d.year \in Int /\ d.month \in 1 .. 12 /\ d.day \in Int /\ 1 <= d.day
      /\ d.day <= 31 /\ d.day <= Calendar!Length(d)
    BY DayTyped
<1>2. d.month \in {1, 2, 3, 4, 5, 6, 7, 8, 9, 10, 11, 12}
    BY <1>1
<1>3. Calendar!Length(d) \in {28, 29, 30, 31}
    BY <1>1, <1>2, LengthTable
<1>4. CASE d.day < Calendar!Length(d)
  <2> DEFINE g == [d EXCEPT !.day = @ + 1]
  <2>1. Calendar!Tomorrow(d) = g
      BY <1>4 DEF Calendar!Tomorrow
  <2>2. g.year = d.year /\ g.month = d.month /\ g.day = d.day + 1
      BY DEF Dates
  <2>3. Calendar!Length(g) = Calendar!Length(d)
      BY <2>2 DEF Calendar!Length
  <2>4. g \in [year : Int, month : 1 .. 12, day : 1 .. 31]
      BY <1>1, <1>3, <1>4 DEF Dates
  <2>5. g \in Dates
      BY <1>1, <1>3, <1>4, <2>2, <2>3, <2>4 DEF Dates
  <2>6. March(g) = March(d)
      BY <2>2 DEF March
  <2>7. Before(Shifted(d.month)) \in Int
    <3>1. Shifted(d.month) \in 0 .. 11
        BY DayOfTyped
    <3>2. Shifted(d.month) \in {0, 1, 2, 3, 4, 5, 6, 7, 8, 9, 10, 11}
        BY <3>1
    <3> QED BY <3>2, MonthTable
  <2>8. DayOf(g) = DayOf(d) + 1
      BY <1>1, <2>2, <2>7 DEF DayOf
  <2> QED BY <2>1, <2>5, <2>6, <2>8, CountedOn
<1>5. CASE ~(d.day < Calendar!Length(d)) /\ d.month < 12
  <2> DEFINE g == [year |-> d.year, month |-> d.month + 1, day |-> 1]
  <2>1. Calendar!Tomorrow(d) = g
    <3>1. Calendar!Tomorrow(d) = [d EXCEPT !.day = 1, !.month = @ + 1]
        BY <1>5 DEF Calendar!Tomorrow
    <3> QED BY <3>1 DEF Dates
  <2>2. d.day = Calendar!Length(d)
      BY <1>1, <1>3, <1>5
  <2>3. g.year = d.year /\ g.month = d.month + 1 /\ g.day = 1
      OBVIOUS
  <2>4. g \in [year : Int, month : 1 .. 12, day : 1 .. 31]
      BY <1>1, <1>5
  <2>5. 1 <= Calendar!Length(g)
    <3>1. d.month + 1 \in {1, 2, 3, 4, 5, 6, 7, 8, 9, 10, 11, 12}
        BY <1>2, <1>5
    <3> QED BY <2>3, <3>1 DEF Calendar!Length, Calendar!MonthLength
  <2>6. g \in Dates
      BY <2>3, <2>4, <2>5 DEF Dates
  <2> HIDE DEF g
  <2>7. CASE d.month # 2
    <3>1. March(g) = March(d)
        BY <1>1, <2>3, <2>7 DEF March
    <3>2. DayOf(g) = DayOf(d) + 1
      <4>1. d.month \in {1, 3, 5, 7, 8, 10} => d.day = 31
          BY <2>2, LengthTable
      <4>2. d.month \in {4, 6, 9, 11} => d.day = 30
          BY <2>2, LengthTable
      <4> QED BY <1>2, <1>5, <2>3, <2>7, <4>1, <4>2, MonthTable DEF DayOf, Shifted
    <3> QED BY <2>1, <2>6, <3>1, <3>2, CountedOn
  <2>8. CASE d.month = 2
    <3>1. March(g) = March(d) + 1 /\ March(d) + 1 = d.year
        BY <1>1, <2>3, <2>8 DEF March
    <3>2. DayOf(g) = 0
        BY <2>3, <2>8, MonthTable DEF DayOf, Shifted
    <3>3. DayOf(d) = 337 + d.day - 1
        BY <2>8, MonthTable DEF DayOf, Shifted
    <3>4. d.day = IF Leap(d.year) THEN 29 ELSE 28
        BY <2>2, <2>8, LengthTable
    <3>5. DayOf(d) = IF Leap(March(d) + 1) THEN 365 ELSE 364
        BY <3>1, <3>3, <3>4
    <3> QED BY <2>1, <2>6, <3>1, <3>2, <3>5, YearTurns
  <2> QED BY <2>7, <2>8
<1>6. CASE ~(d.day < Calendar!Length(d)) /\ d.month = 12
  <2> DEFINE g == [year |-> d.year + 1, month |-> 1, day |-> 1]
  <2>1. Calendar!Tomorrow(d) = g
      BY <1>6 DEF Calendar!Tomorrow
  <2>2. d.day = 31
      BY <1>1, <1>6, LengthTable
  <2>3. g.year = d.year + 1 /\ g.month = 1 /\ g.day = 1
      OBVIOUS
  <2>4. g \in [year : Int, month : 1 .. 12, day : 1 .. 31]
      BY <1>1
  <2>5. 1 <= Calendar!Length(g)
      BY <2>3 DEF Calendar!Length, Calendar!MonthLength
  <2>6. g \in Dates
      BY <2>3, <2>4, <2>5 DEF Dates
  <2> HIDE DEF g
  <2>7. March(g) = March(d)
      BY <1>1, <1>6, <2>3 DEF March
  <2>8. DayOf(g) = DayOf(d) + 1
      BY <1>6, <2>2, <2>3, MonthTable DEF DayOf, Shifted
  <2> QED BY <2>1, <2>6, <2>7, <2>8, CountedOn
<1> QED BY <1>1, <1>4, <1>5, <1>6

-----------------------------------------------------------------------------
\* The seconds of a day come apart and together again.
LEMMA SecondsOfDay ==
    ASSUME NEW s \in Nat, s < 86400
    PROVE  /\ s \div 3600 \in Nat /\ s \div 3600 <= 23 /\ (s % 3600) \div 60 \in Nat
           /\ (s % 3600) \div 60 <= 59 /\ s % 60 \in Nat /\ s % 60 <= 59
           /\ (s \div 3600) * 3600 + ((s % 3600) \div 60) * 60 + (s % 60) = s
<1> DEFINE h == s \div 3600
           f == s % 3600
           m == f \div 60
           r == f % 60
<1>1. Split(s, 3600, h, f)
    BY Splitting
<1> HIDE DEF h, f
<1>2. Split(f, 60, m, r)
    BY <1>1, Splitting DEF Split
<1> HIDE DEF m, r
<1>3. Split(s, 60, 60 * h + m, r)
    BY <1>1, <1>2 DEF Split
<1>4. s % 60 = r
    BY <1>3, Dividing
<1>5. /\ h \in Nat /\ h <= 23 /\ m \in Nat /\ m <= 59 /\ r \in Nat /\ r <= 59
      /\ h * 3600 + m * 60 + r = s
    BY <1>1, <1>2 DEF Split
<1> QED BY <1>4, <1>5 DEF h, m, f

\* An instant is found again from its seconds, and its seconds from the instant.
LEMMA InstantIsFound ==
    ASSUME NEW d \in Dates, NEW s \in Nat, s < 86400,
           NEW t, t = Calendar!DateTime(d, s, 0, Calendar!Some(0)),
           NEW n, n = Number(d)
    PROVE  /\ Calendar!FromUnixSeconds(n * 86400 + s) = t
           /\ Calendar!UnixSecondsAt(t, 60) = n * 86400 + s
           /\ Calendar!UnixSecondsAt([t EXCEPT !.offset = Calendar!None], 60) =
                  n * 86400 + s - 3600
<1>1. n \in Int
  <2>1. PICK e, c, q, r : Year(March(d), e, c, q, r)
      BY DayTyped, YearsOfEra
  <2>2. n = 146097 * e + (36524 * c + 1461 * q + 365 * r + DayOf(d)) - 719468
      BY <2>1, DaysCounted DEF Number
  <2> QED BY <2>1, <2>2, DayOfTyped DEF Year
<1>2. Calendar!CivilFromDays(n) = d
    BY DateIsFound DEF Number
<1> DEFINE a == n * 86400 + s
<1>3. Split(a, 86400, n, s)
    BY <1>1 DEF Split
<1>4. Calendar!FromUnixSeconds(a) = t
  <2> HIDE DEF a
  <2>1. IF a >= 0 \/ s = 0 THEN Calendar!Quotient(a, 86400) =
            n /\ Calendar!Remainder(a, 86400) = s
        ELSE Calendar!Quotient(a, 86400) = n + 1 /\ Calendar!Remainder(a, 86400) = s - 86400
      BY <1>3, Truncates
  <2>2. CASE a >= 0 \/ s = 0
    <3>1. ~(Calendar!Remainder(a, 86400) < 0)
        BY <2>1, <2>2
    <3> QED BY <1>2, <2>1, <2>2, <3>1 DEF Calendar!FromUnixSeconds
  <2>3. CASE ~(a >= 0 \/ s = 0)
    <3>1. Calendar!Remainder(a, 86400) < 0 /\ Calendar!Remainder(a, 86400) + 86400 = s
        BY <2>1, <2>3
    <3>2. Calendar!Quotient(a, 86400) - 1 = n
        BY <1>1, <2>1, <2>3
    <3> QED BY <1>2, <3>1, <3>2 DEF Calendar!FromUnixSeconds
  <2> QED BY <2>2, <2>3
<1>5. /\ s \div 3600 \in Nat /\ (s % 3600) \div 60 \in Nat /\ s % 60 \in Nat
      /\ (s \div 3600) * 3600 + ((s % 3600) \div 60) * 60 + (s % 60) = s
    BY SecondsOfDay
<1>6. /\ t.year = d.year /\ t.month = d.month /\ t.day = d.day
      /\ t.hour = s \div 3600 /\ t.minute = (s % 3600) \div 60 /\ t.second = s % 60
      /\ t.offset = Calendar!Some(0)
    BY DEF Calendar!DateTime
<1> DEFINE u == [t EXCEPT !.offset = Calendar!None]
<1>7. /\ u.year = d.year /\ u.month = d.month /\ u.day = d.day
      /\ u.hour = s \div 3600 /\ u.minute = (s % 3600) \div 60 /\ u.second = s % 60
      /\ u.offset = Calendar!None
    BY DEF Calendar!DateTime
<1>8. Calendar!Some(0).none = FALSE /\ Calendar!Some(0).value = 0 /\ Calendar!None.none = TRUE
    BY DEF Calendar!Some, Calendar!None
<1> HIDE DEF u
<1> DEFINE hour == s \div 3600
           minute == (s % 3600) \div 60
           second == s % 60
<1>9. hour \in Int /\ minute \in Int /\ second \in Int /\ hour * 3600 + minute * 60 + second = s
    BY <1>5
<1>10. Calendar!UnixSecondsAt(t, 60) = n * 86400 + hour * 3600 + minute * 60 + second - 60 * 0
    BY <1>6, <1>8 DEF Calendar!UnixSecondsAt, Number
<1>11. Calendar!UnixSecondsAt(u, 60) = n * 86400 + hour * 3600 + minute * 60 + second - 60 * 60
    BY <1>7, <1>8 DEF Calendar!UnixSecondsAt, Number
<1> HIDE DEF hour, minute, second
<1>12. Calendar!UnixSecondsAt(t, 60) = n * 86400 + s
    BY <1>1, <1>9, <1>10
<1>13. Calendar!UnixSecondsAt(u, 60) = n * 86400 + s - 3600
    BY <1>1, <1>9, <1>11
<1> QED BY <1>4, <1>12, <1>13 DEF u

-----------------------------------------------------------------------------
LEMMA LastDay ==
    ASSUME NEW d \in Dates
    PROVE  Calendar!DaysInMonth(d.year, d.month) = Calendar!Length(d)
<1>1. d.year \in Int /\ d.month \in 1 .. 12
    BY DayTyped
<1>2. d.month \in {1, 2, 3, 4, 5, 6, 7, 8, 9, 10, 11, 12}
    BY <1>1
<1>3. CASE d.month = 2
  <2>1. Calendar!DaysInMonth(d.year, d.month) = IF Calendar!IsLeapYear(d.year) THEN 29 ELSE 28
      BY <1>3 DEF Calendar!DaysInMonth
  <2> QED BY <1>1, <1>3, <2>1, LeapIsLeap, LengthTable
<1>4. CASE d.month # 2
  BY <1>2, <1>4, LengthTable DEF Calendar!DaysInMonth
<1> QED BY <1>3, <1>4

\* What the fields of a dateTime's text are.
Written(x, d, hour, minute, second, nanos, offset) ==
    /\ x.negative = (d.year < 0) /\ x.year = Calendar!Magnitude(d.year) /\ x.width =
           Calendar!Width(x.year)
    /\ x.month = d.month /\ x.day = d.day /\ x.hour = hour /\ x.minute = minute
    /\ x.second = second /\ x.nanosecond = nanos /\ x.offset = offset

At(d, hour, minute, second, nanos, offset) ==
    [ year |-> d.year, month |-> d.month, day |-> d.day, hour |-> hour, minute |-> minute,
      second |-> second, nanosecond |-> nanos, offset |-> offset ]

Offset(o) == o = Calendar!None \/ \E v \in Int : -840 <= v /\ v <= 840 /\ o = Calendar!Some(v)

\* A text of a day that exists is read, and hour 24 is the midnight after it.
LEMMA TextIsRead ==
    ASSUME NEW x, NEW d \in Dates, NEW hour \in Nat, NEW minute \in Nat, minute <= 59,
           NEW second \in Nat, second <= 59, NEW nanos, NEW offset, Offset(offset),
           Written(x, d, hour, minute, second, nanos, offset)
    PROVE  /\ hour <= 23 =>
                Calendar!ParseXsDateTime(x) =
                    Calendar!Some(At(d, hour, minute, second, nanos, offset))
           /\ hour = 24 /\ minute = 0 /\ second = 0 /\ nanos = 0 =>
                Calendar!ParseXsDateTime(x) =
                    Calendar!Some(At(Calendar!Tomorrow(d), 0, minute, second, nanos, offset))
<1>1. /\ d.year \in Int /\ d.month \in 1 .. 12 /\ d.day \in Int /\ 1 <= d.day
      /\ d.day <= Calendar!Length(d)
    BY DayTyped
<1>2. Calendar!DaysInMonth(d.year, d.month) = Calendar!Length(d)
    BY LastDay
<1>3. Calendar!Length(d) \in Int
  <2>1. d.month \in {1, 2, 3, 4, 5, 6, 7, 8, 9, 10, 11, 12}
      BY <1>1
  <2> QED BY <2>1, LengthTable
<1>4. (IF x.negative THEN -x.year ELSE x.year) = d.year
  <2>1. CASE d.year < 0
    <3>1. x.negative /\ x.year = -d.year
        BY <1>1, <2>1 DEF Written, Calendar!Magnitude
    <3> QED BY <1>1, <3>1
  <2>2. CASE ~(d.year < 0)
    <3>1. ~x.negative /\ x.year = d.year
        BY <1>1, <2>2 DEF Written, Calendar!Magnitude
    <3> QED BY <1>1, <3>1
  <2> QED BY <2>1, <2>2
<1>5. ~(x.width < 4) /\ ~(x.width > 4 /\ x.year < 10000)
    BY <1>1 DEF Written, Calendar!Magnitude, Calendar!Width
<1>6. ~(~x.offset.none /\ Calendar!Magnitude(x.offset.value) > 14 * 60)
  <2>1. x.offset = offset
      BY DEF Written
  <2>2. CASE offset = Calendar!None
      BY <2>1, <2>2 DEF Calendar!None
  <2>3. CASE \E v \in Int : -840 <= v /\ v <= 840 /\ offset = Calendar!Some(v)
    <3>1. PICK v \in Int : -840 <= v /\ v <= 840 /\ offset = Calendar!Some(v)
        BY <2>3
    <3>2. x.offset.value = v
        BY <2>1, <3>1 DEF Calendar!Some
    <3> QED BY <3>1, <3>2 DEF Calendar!Magnitude
  <2> QED BY <2>2, <2>3 DEF Offset
<1>7. /\ ~(x.month \notin 1 .. 12) /\ ~(x.day < 1) /\ ~(x.day > Calendar!DaysInMonth(d.year, x.month))
      /\ ~(x.minute > 59) /\ ~(x.second > 59)
    BY <1>1, <1>2, <1>3 DEF Written
<1>8. Calendar!CivilFromDays(Calendar!DaysFromCivil(d.year, x.month, x.day) + 1) =
          Calendar!Tomorrow(d)
  <2>1. Calendar!Tomorrow(d) \in Dates /\ Number(Calendar!Tomorrow(d)) = Number(d) + 1
      BY NextDay
  <2>2. Calendar!CivilFromDays(Number(Calendar!Tomorrow(d))) = Calendar!Tomorrow(d)
      BY <2>1, DateIsFound DEF Number
  <2> QED BY <2>1, <2>2 DEF Written, Number
<1>9. CASE hour <= 23
  <2>1. x.hour <= 23
      BY <1>9 DEF Written
  <2>2. Calendar!ParseXsDateTime(x) =
          Calendar!Some([ year |-> d.year, month |-> x.month, day |-> x.day, hour |-> x.hour,
                 minute |-> x.minute, second |-> x.second,
                 nanosecond |-> x.nanosecond, offset |-> x.offset ])
      BY <1>4, <1>5, <1>6, <1>7, <2>1 DEF Calendar!ParseXsDateTime
  <2> QED BY <1>9, <2>2 DEF Written, At
<1>10. CASE hour = 24 /\ minute = 0 /\ second = 0 /\ nanos = 0
  <2>1. ~(x.hour <= 23) /\ x.hour = 24 /\ x.minute = 0 /\ x.second = 0 /\ x.nanosecond = 0
      BY <1>10 DEF Written
  <2> DEFINE g == Calendar!Tomorrow(d)
  <2>2. Calendar!CivilFromDays(Calendar!DaysFromCivil(d.year, x.month, x.day) + 1) = g
      BY <1>8
  <2> HIDE DEF g
  <2>3. Calendar!ParseXsDateTime(x) =
          Calendar!Some([ year |-> g.year, month |-> g.month, day |-> g.day, hour |-> 0,
                 minute |-> x.minute, second |-> x.second,
                 nanosecond |-> x.nanosecond, offset |-> x.offset ])
      BY <1>4, <1>5, <1>6, <1>7, <2>1, <2>2 DEF Calendar!ParseXsDateTime
  <2> QED BY <1>10, <2>3 DEF Written, At, g
<1> QED BY <1>9, <1>10

-----------------------------------------------------------------------------
\* A duration's seconds come apart and together again.
LEMMA SecondsOfDuration ==
    ASSUME NEW total \in Nat
    PROVE  /\ total \div 86400 \in Nat /\ (total % 86400) \div 3600 \in Nat
           /\ (total % 3600) \div 60 \in Nat /\ total % 60 \in Nat
           /\ total = (total \div 86400) * 86400 + ((total % 86400) \div 3600) * 3600
                      + ((total % 3600) \div 60) * 60 + (total % 60)
<1> DEFINE a == total \div 86400
           s == total % 86400
           h == s \div 3600
           f == s % 3600
           m == f \div 60
           r == s % 60
<1>1. Split(total, 86400, a, s)
    BY Splitting
<1> HIDE DEF a, s
<1>2. Split(s, 3600, h, f)
    BY <1>1, Splitting DEF Split
<1>3. h \in Nat /\ m \in Nat /\ r \in Nat /\ h * 3600 + m * 60 + r = s
    BY <1>1, SecondsOfDay DEF Split
<1>4. Split(s, 60, s \div 60, r)
    BY <1>1, Splitting DEF Split
<1> DEFINE k == s \div 60
<1> HIDE DEF h, f, m, r, k
<1>5. Split(total, 3600, 24 * a + h, f)
    BY <1>1, <1>2 DEF Split
<1>6. Split(total, 60, 1440 * a + k, r)
    BY <1>1, <1>4 DEF Split, k
<1>7. total % 3600 = f /\ total % 60 = r
    BY <1>5, <1>6, Dividing
<1>8. a \in Nat
    BY <1>1 DEF Split
<1>9. total = a * 86400 + h * 3600 + m * 60 + r
    BY <1>1, <1>3 DEF Split
<1> QED BY <1>3, <1>7, <1>8, <1>9 DEF a, s, h, f, m, r

\* What a component of a duration counts, and the sums of up to three of them.
Value(p) == p.n * Calendar!Seconds[p.unit]
Adds(f, parts) ==
    f = [i \in 0 .. Len(parts) |->
           IF i = 0 THEN 0 ELSE parts[i].n * Calendar!Seconds[parts[i].unit] + f[i - 1]]
LEMMA SumAdds ==
    ASSUME NEW parts, NEW g, Adds(g, parts)
    PROVE  \E f : Adds(f, parts) /\ Calendar!Sum(parts) = f[Len(parts)]
<1> DEFINE F == CHOOSE f : Adds(f, parts)
<1>1. Adds(F, parts)
    OBVIOUS
<1>2. Calendar!Sum(parts) = F[Len(parts)]
    BY DEF Calendar!Sum, Adds
<1> QED BY <1>1, <1>2

LEMMA Sums ==
    /\ Calendar!Sum(<<>>) = 0
    /\ \A p : Value(p) \in Nat => Calendar!Sum(<<p>>) = Value(p)
    /\ \A p, q : Value(p) \in Nat /\ Value(q) \in Nat => Calendar!Sum(<<p, q>>) =
           Value(p) + Value(q)
    /\ \A p, q, r : Value(p) \in Nat /\ Value(q) \in Nat /\ Value(r) \in Nat =>
         Calendar!Sum(<<p, q, r>>) = Value(p) + Value(q) + Value(r)
<1>1. Calendar!Sum(<<>>) = 0
  <2>1. Adds([i \in 0 .. 0 |-> 0], <<>>)
      BY DEF Adds
  <2>2. PICK f : Adds(f, <<>>) /\ Calendar!Sum(<<>>) = f[0]
      BY <2>1, SumAdds
  <2> QED BY <2>2 DEF Adds
<1>2. ASSUME NEW p, Value(p) \in Nat PROVE Calendar!Sum(<<p>>) = Value(p)
  <2> DEFINE g == [i \in 0 .. 1 |-> IF i = 0 THEN 0 ELSE Value(p)]
  <2>1. Adds(g, <<p>>)
      BY <1>2 DEF Adds, Value
  <2>2. PICK f : Adds(f, <<p>>) /\ Calendar!Sum(<<p>>) = f[1]
      BY <2>1, SumAdds
  <2>3. f[0] = 0 /\ f[1] = Value(p) + f[0]
      BY <2>2 DEF Adds, Value
  <2> QED BY <1>2, <2>2, <2>3
<1>3. ASSUME NEW p, NEW q, Value(p) \in Nat, Value(q) \in Nat
      PROVE  Calendar!Sum(<<p, q>>) = Value(p) + Value(q)
  <2> DEFINE g == [i \in 0 .. 2 |-> IF i = 0 THEN 0 ELSE IF i = 1 THEN Value(p)
                                    ELSE Value(q) + Value(p)]
  <2>1. Adds(g, <<p, q>>)
      BY <1>3 DEF Adds, Value
  <2>2. PICK f : Adds(f, <<p, q>>) /\ Calendar!Sum(<<p, q>>) = f[2]
      BY <2>1, SumAdds
  <2>3. f[0] = 0 /\ f[1] = Value(p) + f[0] /\ f[2] = Value(q) + f[1]
      BY <2>2 DEF Adds, Value
  <2> QED BY <1>3, <2>2, <2>3
<1>4. ASSUME NEW p, NEW q, NEW r, Value(p) \in Nat, Value(q) \in Nat, Value(r) \in Nat
      PROVE  Calendar!Sum(<<p, q, r>>) = Value(p) + Value(q) + Value(r)
  <2> DEFINE g == [i \in 0 .. 3 |-> IF i = 0 THEN 0 ELSE IF i = 1 THEN Value(p)
                                    ELSE IF i = 2 THEN Value(q) + Value(p)
                                    ELSE Value(r) + (Value(q) + Value(p))]
  <2>1. Adds(g, <<p, q, r>>)
    <3> DEFINE parts == <<p, q, r>>
    <3>1. Len(parts) = 3 /\ parts[1] = p /\ parts[2] = q /\ parts[3] = r
        OBVIOUS
    <3> HIDE DEF parts
    <3>2. \A i \in 0 .. 3 : g[i] = IF i = 0 THEN 0 ELSE Value(parts[i]) + g[i - 1]
        BY <1>4, <3>1
    <3>3. g = [i \in 0 .. 3 |-> IF i = 0 THEN 0 ELSE Value(parts[i]) + g[i - 1]]
        BY <3>2
    <3> QED BY <3>1, <3>3 DEF Adds, Value, parts
  <2> HIDE DEF g
  <2>2. PICK f : Adds(f, <<p, q, r>>) /\ Calendar!Sum(<<p, q, r>>) = f[3]
    <3> DEFINE parts == <<p, q, r>>
    <3>1. Adds(g, parts) /\ Len(parts) = 3
        BY <2>1
    <3> HIDE DEF parts
    <3> QED BY <3>1, SumAdds DEF parts
  <2>3. f[0] = 0 /\ f[1] = Value(p) + f[0] /\ f[2] = Value(q) + f[1] /\ f[3] = Value(r) + f[2]
      BY <2>2 DEF Adds, Value
  <2> QED BY <1>4, <2>2, <2>3
<1> QED BY <1>1, <1>2, <1>3, <1>4

\* What a list of components says.
Tells(parts, total, nanos, units) ==
    /\ Calendar!Sum(parts) = total /\ Calendar!Nanos(parts) = nanos
    /\ \A i \in DOMAIN parts : parts[i].unit \in units
Part(n, u, nanos) == [n |-> n, unit |-> u, nanos |-> nanos]

LEMMA PartValue ==
    ASSUME NEW n \in Nat, NEW nanos
    PROVE  /\ Value(Part(n, "D", nanos)) = n * 86400 /\ Value(Part(n, "H", nanos)) = n * 3600
           /\ Value(Part(n, "M", nanos)) = n * 60 /\ Value(Part(n, "S", nanos)) = n
           /\ \A u : Part(n, u, nanos).unit = u /\ Part(n, u, nanos).nanos = nanos
BY DEF Value, Part, Calendar!Seconds

LEMMA NanosNone ==
    ASSUME NEW parts, \A i \in DOMAIN parts : parts[i].unit # "S"
    PROVE  Calendar!Nanos(parts) = 0
BY DEF Calendar!Nanos

LEMMA NanosLast ==
    ASSUME NEW parts, NEW k \in DOMAIN parts, parts[k].unit = "S",
           \A i \in DOMAIN parts : i # k => parts[i].unit # "S"
    PROVE  Calendar!Nanos(parts) = parts[k].nanos
<1>1. parts[k] \in {parts[i] : i \in DOMAIN parts}
    OBVIOUS
<1>2. \A p \in {parts[i] : i \in DOMAIN parts} : p.unit = "S" => p = parts[k]
    OBVIOUS
<1>3. (CHOOSE p \in {parts[i] : i \in DOMAIN parts} : p.unit = "S") = parts[k]
    BY <1>1, <1>2
<1> QED BY <1>3 DEF Calendar!Nanos

LEMMA DateTells ==
    ASSUME NEW n \in Nat
    PROVE  Tells(Calendar!Component(n, "D"), n * 86400, 0, {"W", "D"})
<1>1. CASE n = 0
  <2>1. Calendar!Component(n, "D") = <<>>
      BY <1>1 DEF Calendar!Component
  <2> QED BY <1>1, <2>1, Sums, NanosNone DEF Tells
<1>2. CASE n # 0
  <2> DEFINE p == Part(n, "D", 0)
  <2>1. Calendar!Component(n, "D") = <<p>>
      BY <1>2 DEF Calendar!Component, Part
  <2>2. Value(p) = n * 86400 /\ p.unit = "D"
      BY PartValue
  <2> HIDE DEF p
  <2>3. Calendar!Sum(<<p>>) = n * 86400
      BY <2>2, Sums
  <2>4. \A i \in DOMAIN <<p>> : <<p>>[i].unit = "D"
      BY <2>2
  <2> QED BY <2>1, <2>3, <2>4, NanosNone DEF Tells
<1> QED BY <1>1, <1>2

LEMMA JoinTwo ==
    ASSUME NEW a, NEW b
    PROVE  <<a>> \o <<b>> = <<a, b>>
<1> DEFINE s == <<a>> \o <<b>>
           t == <<a, b>>
<1>1. s \in Seq({a, b}) /\ Len(s) = 2 /\ s[1] = a /\ s[2] = b
    OBVIOUS
<1>2. t \in Seq({a, b}) /\ Len(t) = 2 /\ t[1] = a /\ t[2] = b
    OBVIOUS
<1> HIDE DEF s, t
<1>3. \A i \in 1 .. Len(s) : s[i] = t[i]
    BY <1>1, <1>2
<1>4. s = t
    BY <1>1, <1>2, <1>3, SeqEqual
<1> QED BY <1>4 DEF s, t
LEMMA JoinThree ==
    ASSUME NEW a, NEW b, NEW c
    PROVE  <<a, b>> \o <<c>> = <<a, b, c>>
<1> DEFINE s == <<a, b>> \o <<c>>
           t == <<a, b, c>>
<1>1. s \in Seq({a, b, c}) /\ Len(s) = 3 /\ s[1] = a /\ s[2] = b /\ s[3] = c
    OBVIOUS
<1>2. t \in Seq({a, b, c}) /\ Len(t) = 3 /\ t[1] = a /\ t[2] = b /\ t[3] = c
    OBVIOUS
<1> HIDE DEF s, t
<1>3. \A i \in 1 .. Len(s) : s[i] = t[i]
    BY <1>1, <1>2
<1>4. s = t
    BY <1>1, <1>2, <1>3, SeqEqual
<1> QED BY <1>4 DEF s, t
LEMMA JoinNone ==
    ASSUME NEW a, NEW b
    PROVE  /\ <<a>> \o <<>> = <<a>> /\ <<>> \o <<a>> = <<a>> /\ <<>> \o <<>> = <<>>
           /\ <<a, b>> \o <<>> = <<a, b>>
OBVIOUS
LEMMA Joins ==
    ASSUME NEW a, NEW b, NEW c
    PROVE  /\ <<a>> \o <<b>> \o <<c>> = <<a, b, c>> /\ <<a>> \o <<b>> \o <<>> = <<a, b>>
           /\ <<a>> \o <<>> \o <<c>> = <<a, c>> /\ <<a>> \o <<>> \o <<>> = <<a>>
           /\ <<>> \o <<b>> \o <<c>> = <<b, c>> /\ <<>> \o <<b>> \o <<>> = <<b>>
           /\ <<>> \o <<>> \o <<c>> = <<c>> /\ <<>> \o <<>> \o <<>> = <<>>
<1>1. <<a>> \o <<b>> = <<a, b>> /\ <<a>> \o <<c>> = <<a, c>> /\ <<b>> \o <<c>> = <<b, c>>
    BY JoinTwo
<1>2. <<a, b>> \o <<c>> = <<a, b, c>>
    BY JoinThree
<1>3. /\ <<a>> \o <<>> = <<a>> /\ <<>> \o <<b>> = <<b>> /\ <<>> \o <<c>> = <<c>>
      /\ <<b>> \o <<>> = <<b>> /\ <<>> \o <<>> = <<>> /\ <<a, b>> \o <<>> = <<a, b>>
    BY JoinNone
<1>4. <<a>> \o <<b>> \o <<c>> = <<a, b, c>> /\ <<a>> \o <<b>> \o <<>> = <<a, b>>
    BY <1>1, <1>2, <1>3
<1>5. <<a>> \o <<>> \o <<c>> = <<a, c>> /\ <<a>> \o <<>> \o <<>> = <<a>>
    BY <1>1, <1>3
<1>6. <<>> \o <<b>> \o <<c>> = <<b, c>> /\ <<>> \o <<b>> \o <<>> = <<b>>
    BY <1>1, <1>3
<1>7. <<>> \o <<>> \o <<c>> = <<c>> /\ <<>> \o <<>> \o <<>> = <<>>
    BY <1>3
<1> QED BY <1>4, <1>5, <1>6, <1>7

LEMMA OneTells ==
    ASSUME NEW p, Value(p) \in Nat, p.unit \in {"H", "M", "S"}
    PROVE  Tells(<<p>>, Value(p), IF p.unit = "S" THEN p.nanos ELSE 0, {"H", "M", "S"})
<1> DEFINE parts == <<p>>
<1>1. Calendar!Sum(parts) = Value(p)
    BY Sums
<1>2. DOMAIN parts = {1} /\ parts[1] = p
    OBVIOUS
<1> HIDE DEF parts
<1> QED BY <1>1, <1>2, NanosNone, NanosLast DEF Tells, parts

LEMMA TwoTell ==
    ASSUME NEW p, NEW q, Value(p) \in Nat, Value(q) \in Nat, p.unit \in {"H", "M"},
           q.unit \in {"M", "S"}
    PROVE  Tells(<<p, q>>, Value(p) + Value(q), IF q.unit = "S" THEN q.nanos ELSE 0,
                 {"H", "M", "S"})
<1> DEFINE parts == <<p, q>>
<1>1. Calendar!Sum(parts) = Value(p) + Value(q)
    BY Sums
<1>2. DOMAIN parts = {1, 2} /\ parts[1] = p /\ parts[2] = q
    OBVIOUS
<1> HIDE DEF parts
<1> QED BY <1>1, <1>2, NanosNone, NanosLast DEF Tells, parts

LEMMA ThreeTell ==
    ASSUME NEW p, NEW q, NEW r, Value(p) \in Nat, Value(q) \in Nat, Value(r) \in Nat,
           p.unit = "H", q.unit = "M", r.unit = "S"
    PROVE  Tells(<<p, q, r>>, Value(p) + Value(q) + Value(r), r.nanos, {"H", "M", "S"})
<1> DEFINE parts == <<p, q, r>>
<1>1. Calendar!Sum(parts) = Value(p) + Value(q) + Value(r)
    BY Sums
<1>2. DOMAIN parts = {1, 2, 3} /\ parts[1] = p /\ parts[2] = q /\ parts[3] = r
    OBVIOUS
<1> HIDE DEF parts
<1> QED BY <1>1, <1>2, NanosNone, NanosLast DEF Tells, parts

Clock(h, m, says, a, b, c) ==
    (IF h > 0 THEN <<a>> ELSE <<>>) \o (IF m > 0 THEN <<b>> ELSE <<>>)
      \o (IF says THEN <<c>> ELSE <<>>)
LEMMA ClockTells ==
    ASSUME NEW h \in Nat, NEW m \in Nat, NEW s \in Nat, NEW nanos \in Nat, NEW says \in BOOLEAN,
           ~says => s = 0 /\ nanos = 0, NEW a, NEW b, NEW c,
           Value(a) = h * 3600, a.unit = "H", Value(b) = m * 60, b.unit = "M",
           Value(c) = s, c.unit = "S", c.nanos = nanos
    PROVE  /\ Tells(Clock(h, m, says, a, b, c), h * 3600 + m * 60 + s, nanos, {"H", "M", "S"})
           /\ Clock(h, m, says, a, b, c) = <<>> => h = 0 /\ m = 0 /\ ~says
<1>1. Value(a) \in Nat /\ Value(b) \in Nat /\ Value(c) \in Nat
    OBVIOUS
<1>2. CASE h > 0 /\ m > 0 /\ says
  <2>1. Clock(h, m, says, a, b, c) = <<a, b, c>>
      BY <1>2, Joins DEF Clock
  <2>2. Tells(<<a, b, c>>, h * 3600 + m * 60 + s, nanos, {"H", "M", "S"})
      BY <1>1, ThreeTell
  <2>3. h * 3600 + m * 60 + s = h * 3600 + m * 60 + s /\ nanos = nanos
      BY <1>2
  <2>4. <<a, b, c>> # <<>>
      OBVIOUS
  <2> QED BY <2>1, <2>2, <2>3, <2>4
<1>3. CASE h > 0 /\ m > 0 /\ ~says
  <2>1. Clock(h, m, says, a, b, c) = <<a, b>>
      BY <1>3, Joins DEF Clock
  <2>2. Tells(<<a, b>>, h * 3600 + m * 60, 0, {"H", "M", "S"})
      BY <1>1, TwoTell
  <2>3. h * 3600 + m * 60 = h * 3600 + m * 60 + s /\ 0 = nanos
      BY <1>3
  <2>4. <<a, b>> # <<>>
      OBVIOUS
  <2> QED BY <2>1, <2>2, <2>3, <2>4
<1>4. CASE h > 0 /\ m = 0 /\ says
  <2>1. Clock(h, m, says, a, b, c) = <<a, c>>
      BY <1>4, Joins DEF Clock
  <2>2. Tells(<<a, c>>, h * 3600 + s, nanos, {"H", "M", "S"})
      BY <1>1, TwoTell
  <2>3. h * 3600 + s = h * 3600 + m * 60 + s /\ nanos = nanos
      BY <1>4
  <2>4. <<a, c>> # <<>>
      OBVIOUS
  <2> QED BY <2>1, <2>2, <2>3, <2>4
<1>5. CASE h > 0 /\ m = 0 /\ ~says
  <2>1. Clock(h, m, says, a, b, c) = <<a>>
      BY <1>5, Joins DEF Clock
  <2>2. Tells(<<a>>, h * 3600, 0, {"H", "M", "S"})
      BY <1>1, OneTells
  <2>3. h * 3600 = h * 3600 + m * 60 + s /\ 0 = nanos
      BY <1>5
  <2>4. <<a>> # <<>>
      OBVIOUS
  <2> QED BY <2>1, <2>2, <2>3, <2>4
<1>6. CASE h = 0 /\ m > 0 /\ says
  <2>1. Clock(h, m, says, a, b, c) = <<b, c>>
      BY <1>6, Joins DEF Clock
  <2>2. Tells(<<b, c>>, m * 60 + s, nanos, {"H", "M", "S"})
      BY <1>1, TwoTell
  <2>3. m * 60 + s = h * 3600 + m * 60 + s /\ nanos = nanos
      BY <1>6
  <2>4. <<b, c>> # <<>>
      OBVIOUS
  <2> QED BY <2>1, <2>2, <2>3, <2>4
<1>7. CASE h = 0 /\ m > 0 /\ ~says
  <2>1. Clock(h, m, says, a, b, c) = <<b>>
      BY <1>7, Joins DEF Clock
  <2>2. Tells(<<b>>, m * 60, 0, {"H", "M", "S"})
      BY <1>1, OneTells
  <2>3. m * 60 = h * 3600 + m * 60 + s /\ 0 = nanos
      BY <1>7
  <2>4. <<b>> # <<>>
      OBVIOUS
  <2> QED BY <2>1, <2>2, <2>3, <2>4
<1>8. CASE h = 0 /\ m = 0 /\ says
  <2>1. Clock(h, m, says, a, b, c) = <<c>>
      BY <1>8, Joins DEF Clock
  <2>2. Tells(<<c>>, s, nanos, {"H", "M", "S"})
      BY <1>1, OneTells
  <2>3. s = h * 3600 + m * 60 + s /\ nanos = nanos
      BY <1>8
  <2>4. <<c>> # <<>>
      OBVIOUS
  <2> QED BY <2>1, <2>2, <2>3, <2>4
<1>9. CASE h = 0 /\ m = 0 /\ ~says
  <2>1. Clock(h, m, says, a, b, c) = <<>>
      BY <1>9, Joins DEF Clock
  <2>2. Tells(<<>>, 0, 0, {"H", "M", "S"})
      BY Sums, NanosNone DEF Tells
  <2>3. 0 = h * 3600 + m * 60 + s /\ 0 = nanos
      BY <1>9
  <2> QED BY <1>9, <2>1, <2>2, <2>3
<1> QED BY <1>2, <1>3, <1>4, <1>5, <1>6, <1>7, <1>8, <1>9

\* Every duration that is written is read back.
LEMMA DurationIsRead ==
    ASSUME NEW total \in Nat, NEW nanos \in Nat, MAX_SECONDS \in Nat, total <= MAX_SECONDS
    PROVE  Calendar!Parse(Calendar!Format(total, nanos)) = Calendar!Some(<<total, nanos>>)
<1> DEFINE d == total \div 86400
           h == (total % 86400) \div 3600
           m == (total % 3600) \div 60
           s == total % 60
           says == s > 0 \/ nanos > 0 \/ total = 0
           a == Part(h, "H", 0)
           b == Part(m, "M", 0)
           c == Part(s, "S", nanos)
           x == Calendar!Format(total, nanos)
<1>1. /\ d \in Nat /\ h \in Nat /\ m \in Nat /\ s \in Nat
      /\ total = d * 86400 + h * 3600 + m * 60 + s
    BY SecondsOfDuration
<1>2. /\ x.negative = FALSE /\ x.date = Calendar!Component(d, "D")
      /\ x.time = Calendar!Component(h, "H") \o Calendar!Component(m, "M")
           \o (IF says THEN <<[n |-> s, unit |-> "S", nanos |-> nanos]>> ELSE <<>>)
    BY DEF Calendar!Format
<1> HIDE DEF d, h, m, s, x
<1>3. x.time = Clock(h, m, says, a, b, c)
    BY <1>2 DEF Calendar!Component, Part, Clock
<1>4. /\ Value(a) = h * 3600 /\ a.unit = "H" /\ Value(b) = m * 60 /\ b.unit = "M"
      /\ Value(c) = s /\ c.unit = "S" /\ c.nanos = nanos
    BY <1>1, PartValue
<1>5. says \in BOOLEAN /\ (~says => s = 0 /\ nanos = 0 /\ total # 0)
    BY <1>1
<1> HIDE DEF says, a, b, c
<1>6. /\ Tells(x.time, h * 3600 + m * 60 + s, nanos, {"H", "M", "S"})
      /\ x.time = <<>> => h = 0 /\ m = 0 /\ ~says
  <2>1. /\ Tells(Clock(h, m, says, a, b, c), h * 3600 + m * 60 + s, nanos, {"H", "M", "S"})
        /\ Clock(h, m, says, a, b, c) = <<>> => h = 0 /\ m = 0 /\ ~says
      BY <1>1, <1>4, <1>5, ClockTells, SMTT(60)
  <2> QED BY <1>3, <2>1
<1>7. Tells(x.date, d * 86400, 0, {"W", "D"}) /\ (x.date = <<>> => d = 0)
  <2>1. x.date = <<>> => d = 0
      BY <1>1, <1>2 DEF Calendar!Component
  <2>2. Tells(Calendar!Component(d, "D"), d * 86400, 0, {"W", "D"})
      BY <1>1, DateTells
  <2> QED BY <1>2, <2>1, <2>2
<1>8. Calendar!Sum(x.date) + Calendar!Sum(x.time) = total /\ Calendar!Nanos(x.time) = nanos
    BY <1>1, <1>6, <1>7 DEF Tells
<1>9. ~(x.date = <<>> /\ x.time = <<>>)
    BY <1>1, <1>5, <1>6, <1>7
<1>10. /\ ~(\E i \in DOMAIN x.date : x.date[i].unit \notin {"W", "D"})
       /\ ~(\E i \in DOMAIN x.time : x.time[i].unit \notin {"H", "M", "S"})
    BY <1>6, <1>7 DEF Tells
<1>11. ~(total > MAX_SECONDS)
    OBVIOUS
<1>12. Calendar!Parse(x) = Calendar!Some(<<total, nanos>>)
    BY <1>2, <1>8, <1>9, <1>10, <1>11 DEF Calendar!Parse
<1> QED BY <1>12 DEF x

-----------------------------------------------------------------------------
\* What the constants stand for: days of the calendar with their numbers, none so far away
\* that the run turns to a number of which 37 seconds for each day are no duration.
TimesConstants ==
    /\ Turns \in Nat /\ MAX_SECONDS \in Nat /\ MAX_SECONDS >= 120
    /\ \A s \in Starts :
         /\ s.date \in Dates /\ s.days = Number(s.date) /\ s.days \in Int
         /\ 37 * s.days + 37 * Turns <= MAX_SECONDS /\ -37 * s.days <= MAX_SECONDS

\* The calendar on the wall shows the day that was counted to.
CountedTo(d, n, k) ==
    /\ d \in Dates /\ n = Number(d) /\ n \in Int /\ k \in Nat /\ k <= Turns
    /\ 37 * n + 37 * (Turns - k) <= MAX_SECONDS /\ -37 * n <= MAX_SECONDS
Turned == CountedTo(date, days, turns)

LEMMA InitTurned ==
    ASSUME TimesConstants, Calendar!TmInit
    PROVE  Turned
<1>1. PICK s \in Starts : date = s.date /\ days = s.days /\ turns = 0
    BY DEF Calendar!TmInit
<1>2. /\ s.date \in Dates /\ s.days = Number(s.date) /\ s.days \in Int
      /\ 37 * s.days + 37 * Turns <= MAX_SECONDS /\ -37 * s.days <= MAX_SECONDS
    BY DEF TimesConstants
<1>3. Turns \in Nat
    BY DEF TimesConstants
<1> QED BY <1>1, <1>2, <1>3 DEF Turned, CountedTo

LEMMA NextTurned ==
    ASSUME TimesConstants, Turned, [Calendar!TmNext]_(Calendar!tmvars)
    PROVE  Turned'
<1>1. CASE UNCHANGED Calendar!tmvars
    BY <1>1 DEF Turned, Calendar!tmvars
<1>2. CASE Calendar!TmNext
  <2>1. turns < Turns /\ turns' = turns + 1 /\ days' = days + 1 /\ date' = Calendar!Tomorrow(date)
      BY <1>2 DEF Calendar!TmNext
  <2>2. CountedTo(date, days, turns)
      BY DEF Turned
  <2>3. Calendar!Tomorrow(date) \in Dates /\ Number(Calendar!Tomorrow(date)) = Number(date) + 1
      BY <2>2, NextDay DEF CountedTo
  <2>4. Turns \in Nat /\ MAX_SECONDS \in Nat
      BY DEF TimesConstants
  <2>5. CountedTo(Calendar!Tomorrow(date), days + 1, turns + 1)
      BY <2>1, <2>2, <2>3, <2>4 DEF CountedTo
  <2> QED BY <2>1, <2>5 DEF Turned
<1> QED BY <1>1, <1>2

LEMMA TurnedBounds ==
    ASSUME TimesConstants, Turned
    PROVE  /\ date \in Dates /\ days = Number(date) /\ days \in Int
           /\ 37 * days <= MAX_SECONDS /\ -37 * days <= MAX_SECONDS
           /\ MAX_SECONDS \in Nat /\ MAX_SECONDS >= 120
BY DEF TimesConstants, Turned, CountedTo

LEMMA TurnedIsRight ==
    ASSUME TimesConstants, Turned
    PROVE  Calendar!CalendarIsRight
<1>0. /\ date \in Dates /\ days = Number(date) /\ days \in Int
      /\ 37 * days <= MAX_SECONDS /\ -37 * days <= MAX_SECONDS
      /\ MAX_SECONDS \in Nat /\ MAX_SECONDS >= 120
    BY TurnedBounds
<1> USE <1>0
<1>1. Calendar!DaysFromCivil(date.year, date.month, date.day) = days
    BY DEF Number
<1>2. Calendar!CivilFromDays(days) = date
    BY <1>1, DateIsFound
<1>3. ASSUME NEW s \in {0, 3599, 86399},
             NEW t, t = Calendar!DateTime(date, s, 0, Calendar!Some(0))
      PROVE  /\ Calendar!FromUnixSeconds(days * 86400 + s) = t
             /\ Calendar!UnixSecondsAt(t, 60) = days * 86400 + s
             /\ Calendar!UnixSecondsAt([t EXCEPT !.offset = Calendar!None], 60) =
                    days * 86400 + s - 3600
  <2>1. s \in Nat /\ s < 86400
      BY <1>3
  <2> QED BY <1>3, <2>1, InstantIsFound
<1> QED BY <1>1, <1>2, <1>3 DEF Calendar!CalendarIsRight

\* The text of a dateTime has the fields of the date and of the time of day.
LEMMA DateTimeWritten ==
    ASSUME NEW d, NEW s \in Nat, s < 86400, NEW nanos, NEW offset
    PROVE  Written(Calendar!Display(Calendar!DateTime(d, s, nanos, offset)), d, s \div 3600,
                   (s % 3600) \div 60, s % 60, nanos, offset)
BY DEF Written, Calendar!Display, Calendar!DateTime

LEMMA DateTimeIsRead ==
    ASSUME NEW d \in Dates, NEW s \in Nat, s < 86400, NEW nanos, NEW offset, Offset(offset),
           NEW t, t = Calendar!DateTime(d, s, nanos, offset)
    PROVE  Calendar!ParseXsDateTime(Calendar!Display(t)) = Calendar!Some(t)
<1> DEFINE h == s \div 3600
           m == (s % 3600) \div 60
           r == s % 60
           x == Calendar!Display(t)
<1>1. h \in Nat /\ h <= 23 /\ m \in Nat /\ m <= 59 /\ r \in Nat /\ r <= 59
    BY SecondsOfDay
<1>2. Written(x, d, h, m, r, nanos, offset)
    BY DateTimeWritten
<1>3. t = At(d, h, m, r, nanos, offset)
    BY DEF Calendar!DateTime, At
<1> HIDE DEF h, m, r, x
<1>4. ASSUME NEW a, NEW b, NEW c, h = a, m = b, r = c
      PROVE  Calendar!ParseXsDateTime(x) = Calendar!Some(At(d, a, b, c, nanos, offset))
  <2>1. a \in Nat /\ a <= 23 /\ b \in Nat /\ b <= 59 /\ c \in Nat /\ c <= 59
      BY <1>1, <1>4
  <2>2. Written(x, d, a, b, c, nanos, offset)
      BY <1>2, <1>4
  <2> QED BY ONLY d \in Dates, Offset(offset), <2>1, <2>2, TextIsRead
<1> QED BY <1>1, <1>3, <1>4 DEF x

LEMMA MidnightIsRead ==
    ASSUME NEW d \in Dates,
           NEW x, x = [Calendar!Display(Calendar!DateTime(d, 0, 0, Calendar!None)) EXCEPT !.hour = 24]
    PROVE  Calendar!ParseXsDateTime(x) =
               Calendar!Some(Calendar!DateTime(Calendar!Tomorrow(d), 0, 0, Calendar!None))
<1>1. 0 \div 3600 = 0 /\ 0 % 3600 = 0 /\ 0 \div 60 = 0 /\ 0 % 60 = 0
    OBVIOUS
<1>2. Written(x, d, 24, 0, 0, 0, Calendar!None)
    BY <1>1 DEF Written, Calendar!Display, Calendar!DateTime
<1>3. Offset(Calendar!None)
    BY DEF Offset
<1>4. Calendar!ParseXsDateTime(x) =
          Calendar!Some(At(Calendar!Tomorrow(d), 0, 0, 0, 0, Calendar!None))
  <2>1. 24 \in Nat /\ 0 \in Nat /\ 0 <= 59
      OBVIOUS
  <2> QED BY <1>2, <1>3, <2>1, TextIsRead
<1> QED BY <1>1, <1>4 DEF Calendar!DateTime, At

LEMMA TurnedIsRead ==
    ASSUME TimesConstants, Turned
    PROVE  Calendar!TextRoundTrips
<1>0. /\ date \in Dates /\ days = Number(date) /\ days \in Int
      /\ 37 * days <= MAX_SECONDS /\ -37 * days <= MAX_SECONDS
      /\ MAX_SECONDS \in Nat /\ MAX_SECONDS >= 120
    BY TurnedBounds
<1> USE <1>0
<1>1. ASSUME NEW offset \in {Calendar!None, Calendar!Some(0), Calendar!Some(-330), Calendar!Some(840)}, NEW nanos \in {0, 5},
             NEW t, t =
                 Calendar!DateTime(date, ((Calendar!Magnitude(days) % 1000) * 7919) % 86400, nanos, offset)
      PROVE  Calendar!ParseXsDateTime(Calendar!Display(t)) = Calendar!Some(t)
  <2> DEFINE s == ((Calendar!Magnitude(days) % 1000) * 7919) % 86400
  <2>1. s \in Nat /\ s < 86400
    <3>1. Calendar!Magnitude(days) \in Int
        BY DEF Calendar!Magnitude
    <3> DEFINE k == (Calendar!Magnitude(days) % 1000) * 7919
    <3>2. k \in Int
        BY <3>1
    <3> HIDE DEF k
    <3>3. k % 86400 \in Nat /\ k % 86400 < 86400
        BY <3>2
    <3> QED BY <3>3 DEF k
  <2>2. Offset(offset)
    <3>1. 0 \in Int /\ -330 \in Int /\ 840 \in Int
        OBVIOUS
    <3> QED BY <1>1, <3>1 DEF Offset
  <2>3. t = Calendar!DateTime(date, s, nanos, offset)
      BY <1>1
  <2> HIDE DEF s
  <2> QED BY <2>1, <2>2, <2>3, DateTimeIsRead
<1>2. ASSUME NEW midnight, midnight =
                 [Calendar!Display(Calendar!DateTime(date, 0, 0, Calendar!None)) EXCEPT !.hour = 24]
      PROVE  Calendar!ParseXsDateTime(midnight) =
                 Calendar!Some(Calendar!DateTime(Calendar!Tomorrow(date), 0, 0, Calendar!None))
    BY <1>2, MidnightIsRead
<1>3. ASSUME NEW nanos \in {0, 5},
             NEW total \in {Calendar!Magnitude(days) * 37, Calendar!Magnitude(days) % 120}
      PROVE  Calendar!Parse(Calendar!Format(total, nanos)) = Calendar!Some(<<total, nanos>>)
  <2>1. Calendar!Magnitude(days) \in Nat /\ Calendar!Magnitude(days) * 37 <= MAX_SECONDS
      BY DEF Calendar!Magnitude
  <2>2. total \in Nat /\ total <= MAX_SECONDS
      BY <2>1
  <2>3. nanos \in Nat
      OBVIOUS
  <2> QED BY <2>2, <2>3, DurationIsRead
<1> QED BY <1>1, <1>2, <1>3 DEF Calendar!TextRoundTrips

\* Every date of every year is found again from its number, and the day after it has
\* the next number, on either side of the year 0 and of 1970.
\* (time.rs days_from_civil, civil_from_days)
THEOREM EveryDateIsCounted ==
    \A d \in Dates :
        /\ Calendar!CivilFromDays(Number(d)) = d
        /\ Calendar!Tomorrow(d) \in Dates /\ Number(Calendar!Tomorrow(d)) = Number(d) + 1
BY DateIsFound, NextDay DEF Number

\* Every duration that can be held is read back from its text as it was.
\* (time.rs format_iso8601_duration, parse_iso8601_duration)
THEOREM EveryDurationIsRead ==
    MAX_SECONDS \in Nat =>
        \A total, nanos \in Nat :
            total <= MAX_SECONDS => Calendar!Parse(Calendar!Format(total, nanos)) =
                Calendar!Some(<<total, nanos>>)
BY DurationIsRead

\* Wherever the calendar is turned to, count and calendar agree and what is written of a
\* date, a time or a duration is read back.
\* (time.rs days_from_civil, civil_from_days, from_unix_seconds, unix_seconds_at,
\* parse_xs_date_time, format_iso8601_duration, parse_iso8601_duration)
THEOREM TurnedIsTold ==
    ASSUME TimesConstants
    PROVE  Calendar!TmInit /\ [][Calendar!TmNext]_(Calendar!tmvars)
             => [](Calendar!CalendarIsRight /\ Calendar!TextRoundTrips)
<1>1. Calendar!TmInit => Turned
    BY InitTurned
<1>2. Turned /\ [Calendar!TmNext]_(Calendar!tmvars) => Turned'
    BY NextTurned
<1>3. Turned => Calendar!CalendarIsRight /\ Calendar!TextRoundTrips
    BY TurnedIsRight, TurnedIsRead
<1> QED BY <1>1, <1>2, <1>3, PTL

-----------------------------------------------------------------------------
(* Ohpcf: an energy manager that follows a compressor has its offer, for    *)
(* every compressor, all start times and any crossing of commands, changes  *)
(* and lost connections.                                                    *)

PumpStates == {"Inactive", "Scheduled", "Running", "Paused"} \cup Pump!Ended
StartsAt == StartTimes \cup {Pump!NoTime}
Flexibilities == [offered : BOOLEAN, state : PumpStates, start : StartsAt, allows : Interrupts]
OfferDocs == [ state : PumpStates \cup {"Absent"}, start : StartsAt,
               allows : Interrupts \cup {{}}, active_slot : BOOLEAN ]
PumpWrites ==
    {Pump!Activate(t) : t \in StartTimes}
    \cup {Pump!StopWrite, Pump!PauseWrite, Pump!ResumeWrite}
PumpOrders == [kind : {"bind", "subscribe", "read"}] \cup [kind : {"write"}, write : PumpWrites]
PumpReports == [kind : {"data"}, doc : OfferDocs]

PumpTypes ==
    /\ flexibility \in Flexibilities
    /\ peer \in [bound : BOOLEAN, subscribed : BOOLEAN]
    /\ toCompressor \in Seq(PumpOrders) /\ toManager \in Seq(PumpReports)
    /\ changes \in Nat

\* The last document that is on its way, or has arrived.
Latest(had, reports) == IF reports = <<>> THEN had ELSE reports[Len(reports)].doc

\* Nothing is missed: the manager has the document or will have it without asking, or it
\* still reads after it has subscribed.
WillRead(orders) == \E j \in DOMAIN orders : orders[j].kind = "read"
WillSubscribe(orders) ==
    \E i, j \in DOMAIN orders : i < j /\ orders[i].kind = "subscribe" /\ orders[j].kind = "read"
OfferFollows(subscribed, orders, had, reports, doc) ==
    \/ WillSubscribe(orders)
    \/ subscribed /\ (WillRead(orders) \/ Latest(had, reports) = doc)

PumpInv ==
    /\ PumpTypes /\ feature = Pump!Data(flexibility)
    /\ OfferFollows(peer.subscribed, toCompressor, offer, toManager, feature)

LEMMA DataTyped ==
    ASSUME NEW f \in Flexibilities
    PROVE  /\ Pump!Data(f) \in OfferDocs /\ Pump!Read(Pump!Data(f)) = Pump!Data(f)
           /\ (Pump!IsAbsent(Pump!Data(f)) <=> ~f.offered)
<1>1. /\ f.offered \in BOOLEAN /\ f.state \in PumpStates
      /\ f.start \in StartsAt /\ f.allows \in Interrupts
    BY DEF Flexibilities
<1>2. Pump!Data(f) \in OfferDocs
  <2>1. Pump!Alternative(f) \in OfferDocs
      BY <1>1 DEF Pump!Alternative, OfferDocs
  <2>2. Pump!Absent \in OfferDocs
      BY DEF Pump!Absent, OfferDocs, StartsAt
  <2> QED BY <2>1, <2>2 DEF Pump!Data
<1>3. CASE f.offered
  <2>1. Pump!Data(f) = Pump!Alternative(f) /\ Pump!Alternative(f).state = f.state
      BY <1>3 DEF Pump!Data, Pump!Alternative
  <2>2. f.state # "Unstated" /\ f.state # "Absent"
      BY <1>1 DEF PumpStates, Pump!Ended
  <2> QED BY <1>2, <1>3, <2>1, <2>2 DEF Pump!Read, Pump!IsAbsent
<1>4. CASE ~f.offered
  <2>1. Pump!Data(f) = Pump!Absent /\ Pump!Absent.state = "Absent"
      BY <1>4 DEF Pump!Data, Pump!Absent
  <2> QED BY <1>2, <1>4, <2>1 DEF Pump!Read, Pump!IsAbsent
<1> QED BY <1>3, <1>4

\* The first order is taken: what comes later comes one place earlier.
LEMMA OrderTaken ==
    ASSUME NEW orders \in Seq(PumpOrders), orders # <<>>
    PROVE  /\ Tail(orders) \in Seq(PumpOrders)
           /\ WillRead(orders) => Head(orders).kind = "read" \/ WillRead(Tail(orders))
           /\ WillSubscribe(orders) =>
                \/ WillSubscribe(Tail(orders))
                \/ Head(orders).kind = "subscribe" /\ WillRead(Tail(orders))
<1> DEFINE rest == Tail(orders)
<1>1. /\ rest \in Seq(PumpOrders) /\ Len(rest) = Len(orders) - 1 /\ Len(orders) \in Nat
      /\ \A i \in DOMAIN orders : i # 1 => i - 1 \in DOMAIN rest /\ rest[i - 1] = orders[i]
      /\ DOMAIN orders = 1 .. Len(orders) /\ Head(orders) = orders[1]
    OBVIOUS
<1> HIDE DEF rest
<1>2. ASSUME NEW j \in DOMAIN orders, orders[j].kind = "read", Head(orders).kind # "read"
      PROVE  WillRead(rest)
    BY <1>1, <1>2 DEF WillRead
<1>3. ASSUME NEW i \in DOMAIN orders, NEW j \in DOMAIN orders, i < j,
             orders[i].kind = "subscribe", orders[j].kind = "read"
      PROVE  WillSubscribe(rest) \/ (Head(orders).kind = "subscribe" /\ WillRead(rest))
  <2>1. CASE i = 1
    <3>1. j - 1 \in DOMAIN rest /\ rest[j - 1].kind = "read"
        BY <1>1, <1>3, <2>1
    <3> QED BY <1>1, <1>3, <2>1, <3>1 DEF WillRead
  <2>2. CASE i # 1
    <3>1. /\ i - 1 \in DOMAIN rest /\ j - 1 \in DOMAIN rest /\ i - 1 < j - 1
          /\ rest[i - 1].kind = "subscribe" /\ rest[j - 1].kind = "read"
        BY <1>1, <1>3, <2>2
    <3> QED BY <3>1 DEF WillSubscribe
  <2> QED BY <2>1, <2>2
<1> QED BY <1>1, <1>2, <1>3 DEF WillRead, WillSubscribe, rest

LEMMA OrderAdded ==
    ASSUME NEW orders \in Seq(PumpOrders), NEW o \in PumpOrders
    PROVE  /\ Append(orders, o) \in Seq(PumpOrders)
           /\ WillRead(orders) => WillRead(Append(orders, o))
           /\ WillSubscribe(orders) => WillSubscribe(Append(orders, o))
<1> DEFINE more == Append(orders, o)
<1>1. /\ more \in Seq(PumpOrders)
      /\ \A i \in DOMAIN orders : i \in DOMAIN more /\ more[i] = orders[i]
    OBVIOUS
<1> HIDE DEF more
<1>2. WillRead(orders) => WillRead(more)
    BY <1>1 DEF WillRead
<1>3. WillSubscribe(orders) => WillSubscribe(more)
    BY <1>1 DEF WillSubscribe
<1> QED BY <1>1, <1>2, <1>3 DEF more

LEMMA ReportAdded ==
    ASSUME NEW reports \in Seq(PumpReports), NEW doc \in OfferDocs, NEW had
    PROVE  LET more == Append(reports, [kind |-> "data", doc |-> doc])
           IN  more \in Seq(PumpReports) /\ Latest(had, more) = doc
<1> DEFINE r == [kind |-> "data", doc |-> doc]
           more == Append(reports, r)
<1>1. r \in PumpReports /\ r.doc = doc
    BY DEF PumpReports
<1> HIDE DEF r
<1>2. more \in Seq(PumpReports) /\ more # <<>> /\ more[Len(more)] = r
    BY <1>1
<1> HIDE DEF more
<1>3. Latest(had, more) = doc
    BY <1>1, <1>2 DEF Latest
<1> QED BY <1>2, <1>3 DEF more, r

\* What the subscriber is told joins what is on its way.
LEMMA SubscriberInformed ==
    ASSUME NEW reports \in Seq(PumpReports), NEW doc \in OfferDocs, NEW had,
           peer.subscribed \in BOOLEAN
    PROVE  /\ reports \o Pump!Inform(doc) \in Seq(PumpReports)
           /\ peer.subscribed => Latest(had, reports \o Pump!Inform(doc)) = doc
           /\ ~peer.subscribed => reports \o Pump!Inform(doc) = reports
<1> DEFINE r == [kind |-> "data", doc |-> doc]
<1>1. r \in PumpReports
    BY DEF PumpReports
<1>2. CASE peer.subscribed
  <2>1. Pump!Inform(doc) = <<r>>
      BY <1>2 DEF Pump!Inform
  <2>2. reports \o <<r>> = Append(reports, r)
      BY <1>1, AppendIsConcat
  <2> QED BY <1>2, <2>1, <2>2, ReportAdded
<1>3. CASE ~peer.subscribed
  <2>1. Pump!Inform(doc) = <<>>
      BY <1>3 DEF Pump!Inform
  <2>2. reports \o <<>> = reports
      OBVIOUS
  <2> QED BY <1>3, <2>1, <2>2
<1> QED BY <1>2, <1>3

\* A manager that follows subscribes before it reads.
LEMMA FollowReads == Pump!Follow \in Seq(PumpOrders) /\ WillSubscribe(Pump!Follow)
<1> DEFINE kinds == <<"bind", "subscribe", "read">>
<1>1. /\ DOMAIN kinds = 1 .. 3 /\ kinds[1] = "bind" /\ kinds[2] = "subscribe"
      /\ kinds[3] = "read"
    OBVIOUS
<1> HIDE DEF kinds
<1>2. Pump!Follow = [i \in 1 .. 3 |-> [kind |-> kinds[i]]]
    BY <1>1 DEF Pump!Follow, Pump!Requests, kinds
<1>3. \A i \in 1 .. 3 : [kind |-> kinds[i]] \in PumpOrders
    BY <1>1 DEF PumpOrders
<1>4. Pump!Follow \in Seq(PumpOrders)
    BY <1>2, <1>3
<1>5. /\ 2 \in DOMAIN Pump!Follow /\ 3 \in DOMAIN Pump!Follow /\ 2 < 3
      /\ Pump!Follow[2].kind = "subscribe" /\ Pump!Follow[3].kind = "read"
    BY <1>1, <1>2
<1> QED BY <1>4, <1>5 DEF WillSubscribe

LEMMA OInitFollowed == Pump!OInit => PumpInv
<1> SUFFICES ASSUME Pump!OInit PROVE PumpInv
    OBVIOUS
<1>1. PICK allows \in Interrupts :
        flexibility = [offered |-> TRUE, state |-> "Inactive", start |-> Pump!NoTime,
                       allows |-> allows]
    BY DEF Pump!OInit
<1>2. flexibility \in Flexibilities
    BY <1>1 DEF Flexibilities, PumpStates, StartsAt
<1>3. PumpTypes
    BY <1>2, FollowReads DEF Pump!OInit, PumpTypes
<1> QED BY <1>3, FollowReads DEF Pump!OInit, PumpInv, OfferFollows

\* Whatever the compressor makes of itself is served, and the subscriber hears of it.
LEMMA TellingFollows ==
    ASSUME PumpInv, NEW f \in Flexibilities, NEW orders \in Seq(PumpOrders), NEW n \in Nat,
           flexibility' = f, feature' = Pump!Data(f),
           toManager' = toManager \o Pump!Inform(Pump!Data(f)),
           toCompressor' = orders, changes' = n, UNCHANGED <<peer, offer>>,
           WillSubscribe(toCompressor) => WillSubscribe(orders)
    PROVE  PumpInv'
<1>1. /\ Pump!Data(f) \in OfferDocs
      /\ peer.subscribed \in BOOLEAN /\ toManager \in Seq(PumpReports)
    BY DataTyped DEF PumpInv, PumpTypes
<1>2. /\ toManager' \in Seq(PumpReports)
      /\ peer.subscribed => Latest(offer, toManager') = Pump!Data(f)
    BY <1>1, SubscriberInformed
<1>3. PumpTypes'
    BY <1>2 DEF PumpInv, PumpTypes
<1>4. OfferFollows(peer.subscribed, orders, offer, toManager', Pump!Data(f))
    BY <1>1, <1>2 DEF PumpInv, OfferFollows
<1>5. OfferFollows(peer.subscribed, toCompressor, offer, toManager, feature)'
    BY <1>4
<1> QED BY <1>3, <1>5 DEF PumpInv

LEMMA OwnChangeFollows == PumpInv /\ Pump!OwnChange => PumpInv'
<1> SUFFICES ASSUME PumpInv, Pump!OwnChange PROVE PumpInv'
    OBVIOUS
<1>1. /\ flexibility \in Flexibilities /\ toCompressor \in Seq(PumpOrders) /\ changes \in Nat
      /\ changes + 1 \in Nat
    BY DEF PumpInv, PumpTypes
<1>2. ASSUME NEW f \in Flexibilities, Pump!Notify(f) PROVE PumpInv'
  <2>1. /\ flexibility' = f /\ feature' = Pump!Data(f)
        /\ toManager' = toManager \o Pump!Inform(Pump!Data(f)) /\ toCompressor' = toCompressor
        /\ changes' = changes + 1 /\ UNCHANGED <<peer, offer>>
      BY <1>2 DEF Pump!Notify
  <2> QED BY <1>1, <2>1, TellingFollows
<1>3. ASSUME NEW offered \in BOOLEAN, NEW state \in PumpStates, NEW start \in StartsAt
      PROVE  [flexibility EXCEPT !.offered = offered, !.state = state, !.start = start]
               \in Flexibilities
    BY <1>1 DEF Flexibilities
<1>4. ASSUME NEW state \in PumpStates, NEW start \in StartsAt
      PROVE  /\ [flexibility EXCEPT !.state = state, !.start = start] \in Flexibilities
             /\ [flexibility EXCEPT !.state = state] \in Flexibilities
    BY <1>1 DEF Flexibilities
<1>5. /\ "Inactive" \in PumpStates /\ "Running" \in PumpStates /\ "Completed" \in PumpStates
      /\ "Invalid" \in PumpStates /\ Pump!NoTime \in StartsAt
    BY DEF PumpStates, Pump!Ended, StartsAt
<1>6. CASE Pump!Withdraw
    BY <1>2, <1>3, <1>5, <1>6 DEF Pump!Withdraw
<1>7. CASE Pump!OfferAgain
    BY <1>2, <1>3, <1>5, <1>7 DEF Pump!OfferAgain
<1>8. CASE Pump!Start
    BY <1>2, <1>4, <1>5, <1>8 DEF Pump!Start
<1>9. CASE Pump!Complete
    BY <1>2, <1>4, <1>5, <1>9 DEF Pump!Complete
<1>10. CASE Pump!Abort
    BY <1>2, <1>4, <1>5, <1>10 DEF Pump!Abort
<1> QED BY <1>6, <1>7, <1>8, <1>9, <1>10 DEF Pump!OwnChange

\* A write is decided on a compressor that stays what it is.
LEMMA WriteApplied ==
    ASSUME NEW f \in Flexibilities, NEW write \in PumpWrites
    PROVE  Pump!Apply(f, write).flexibility \in Flexibilities
<1>1. f.offered \in BOOLEAN /\ f.state \in PumpStates /\ f.start \in StartsAt
    BY DEF Flexibilities
<1>2. write.state \in PumpStates \cup {"Unstated"} /\ write.start \in StartsAt
    BY DEF PumpWrites, Pump!Activate, Pump!StateWrite, Pump!StopWrite, Pump!PauseWrite,
           Pump!ResumeWrite, PumpStates, Pump!Ended, StartsAt
<1>3. /\ Pump!Ok(f).flexibility = f /\ Pump!Refused(f).flexibility = f
      /\ \A g : Pump!Ok(g).flexibility = g
    BY DEF Pump!Ok, Pump!Refused
<1>4. Pump!Schedule(f, write.start).flexibility \in Flexibilities
  <2>1. [f EXCEPT !.start = write.start, !.state = "Scheduled"] \in Flexibilities
      BY <1>1, <1>2 DEF Flexibilities, PumpStates
  <2> QED BY <1>3, <2>1 DEF Pump!Schedule
<1>5. ASSUME write.state # "Unstated"
      PROVE  Pump!ChangeState(f, write.state).flexibility \in Flexibilities
  <2> DEFINE s == IF write.state = "Invalid" THEN Pump!NoTime ELSE f.start
             g == [f EXCEPT !.state = write.state, !.start = s]
  <2>1. s \in StartsAt /\ write.state \in PumpStates
      BY <1>1, <1>2, <1>5 DEF StartsAt
  <2>2. g \in Flexibilities
    <3> HIDE DEF s
    <3> QED BY <2>1 DEF Flexibilities
  <2>3. Pump!ChangeState(f, write.state) \in {Pump!Refused(f), Pump!Ok(g)}
      BY DEF Pump!ChangeState
  <2> HIDE DEF g
  <2> QED BY <1>3, <2>2, <2>3
<1> QED BY <1>3, <1>4, <1>5 DEF Pump!Apply

\* The first order is taken and nothing is told.
LEMMA QuietTaking ==
    ASSUME PumpInv, toCompressor # <<>>, toCompressor' = Tail(toCompressor),
           NEW b \in BOOLEAN, NEW s \in BOOLEAN, peer' = [bound |-> b, subscribed |-> s],
           s = (peer.subscribed \/ Head(toCompressor).kind = "subscribe"),
           Head(toCompressor).kind # "read",
           UNCHANGED <<flexibility, feature, offer, toManager, changes>>
    PROVE  PumpInv'
<1>1. peer'.subscribed = s /\ peer' \in [bound : BOOLEAN, subscribed : BOOLEAN]
    OBVIOUS
<1>2. /\ Tail(toCompressor) \in Seq(PumpOrders)
      /\ WillRead(toCompressor) => WillRead(Tail(toCompressor))
      /\ WillSubscribe(toCompressor) =>
           \/ WillSubscribe(Tail(toCompressor))
           \/ Head(toCompressor).kind = "subscribe" /\ WillRead(Tail(toCompressor))
    BY OrderTaken DEF PumpInv, PumpTypes
<1>3. PumpTypes'
    BY <1>1, <1>2 DEF PumpInv, PumpTypes
<1>4. OfferFollows(s, Tail(toCompressor), offer, toManager, feature)
  <2>1. OfferFollows(peer.subscribed, toCompressor, offer, toManager, feature)
      BY DEF PumpInv
  <2>2. (s <=> (peer.subscribed \/ Head(toCompressor).kind = "subscribe"))
      OBVIOUS
  <2> QED BY <1>2, <2>1, <2>2 DEF OfferFollows
<1>5. OfferFollows(peer.subscribed, toCompressor, offer, toManager, feature)'
    BY <1>1, <1>4
<1> QED BY <1>3, <1>5 DEF PumpInv

LEMMA TakingFollows ==
    ASSUME PumpInv, Pump!TakeBinding \/ Pump!TakeSubscription
    PROVE  PumpInv'
<1>1. peer \in [bound : BOOLEAN, subscribed : BOOLEAN]
    BY DEF PumpInv, PumpTypes
<1>2. CASE Pump!TakeBinding
  <2>1. /\ toCompressor # <<>> /\ Head(toCompressor).kind = "bind"
        /\ toCompressor' = Tail(toCompressor)
        /\ UNCHANGED <<flexibility, feature, offer, toManager, changes>>
      BY <1>2 DEF Pump!TakeBinding, Pump!Hears
  <2>2. peer' = [bound |-> TRUE, subscribed |-> peer.subscribed] /\ peer.subscribed \in BOOLEAN
      BY <1>1, <1>2 DEF Pump!TakeBinding
  <2>3. peer.subscribed = (peer.subscribed \/ Head(toCompressor).kind = "subscribe")
      BY <2>1, <2>2
  <2> QED BY <2>1, <2>2, <2>3, QuietTaking
<1>3. CASE Pump!TakeSubscription
  <2>1. /\ toCompressor # <<>> /\ Head(toCompressor).kind = "subscribe"
        /\ toCompressor' = Tail(toCompressor)
        /\ UNCHANGED <<flexibility, feature, offer, toManager, changes>>
      BY <1>3 DEF Pump!TakeSubscription, Pump!Hears
  <2>2. peer' = [bound |-> peer.bound, subscribed |-> TRUE] /\ peer.bound \in BOOLEAN
      BY <1>1, <1>3 DEF Pump!TakeSubscription
  <2>3. TRUE = (peer.subscribed \/ Head(toCompressor).kind = "subscribe")
      BY <2>1
  <2> QED BY <2>1, <2>2, <2>3, QuietTaking
<1> QED BY <1>2, <1>3

LEMMA AnswerFollows ==
    ASSUME PumpInv, Pump!AnswerRead
    PROVE  PumpInv'
<1>1. /\ toCompressor # <<>> /\ Head(toCompressor).kind = "read"
      /\ toCompressor' = Tail(toCompressor)
      /\ toManager' = Append(toManager, [kind |-> "data", doc |-> feature])
      /\ UNCHANGED <<flexibility, feature, peer, offer, changes>>
    BY DEF Pump!AnswerRead, Pump!Hears
<1>2. /\ flexibility \in Flexibilities /\ toManager \in Seq(PumpReports)
      /\ feature = Pump!Data(flexibility) /\ feature \in OfferDocs
    BY DataTyped DEF PumpInv, PumpTypes
<1>3. toManager' \in Seq(PumpReports) /\ Latest(offer, toManager') = feature
    BY <1>1, <1>2, ReportAdded
<1>4. /\ Tail(toCompressor) \in Seq(PumpOrders)
      /\ WillSubscribe(toCompressor) => WillSubscribe(Tail(toCompressor))
    BY <1>1, OrderTaken DEF PumpInv, PumpTypes
<1>5. PumpTypes'
    BY <1>1, <1>3, <1>4 DEF PumpInv, PumpTypes
<1>6. OfferFollows(peer.subscribed, Tail(toCompressor), offer, toManager', feature)
    BY <1>3, <1>4 DEF PumpInv, OfferFollows
<1>7. OfferFollows(peer.subscribed, toCompressor, offer, toManager, feature)'
    BY <1>1, <1>6
<1>8. feature' = Pump!Data(flexibility')
    BY <1>1, <1>2
<1> QED BY <1>5, <1>7, <1>8 DEF PumpInv

LEMMA WriteFollows ==
    ASSUME PumpInv, Pump!TakeWrite
    PROVE  PumpInv'
<1> DEFINE write == Head(toCompressor).write
           decision == Pump!Apply(flexibility, write)
           accepted == peer.bound /\ decision.ok
<1>1. /\ toCompressor # <<>> /\ Head(toCompressor).kind = "write"
      /\ toCompressor' = Tail(toCompressor)
      /\ flexibility' = IF accepted THEN decision.flexibility ELSE flexibility
      /\ feature' = IF accepted THEN Pump!Data(flexibility') ELSE feature
      /\ toManager' = toManager \o (IF accepted THEN Pump!Inform(feature') ELSE <<>>)
      /\ UNCHANGED <<peer, offer, changes>>
    BY DEF Pump!TakeWrite, Pump!Hears, Pump!Stored
<1>2. /\ flexibility \in Flexibilities /\ toCompressor \in Seq(PumpOrders) /\ changes \in Nat
      /\ toManager \in Seq(PumpReports) /\ peer \in [bound : BOOLEAN, subscribed : BOOLEAN]
    BY DEF PumpInv, PumpTypes
<1>3. write \in PumpWrites
  <2>1. Head(toCompressor) \in PumpOrders
      BY SMTT(20), <1>1, <1>2
  <2> QED BY <1>1, <2>1 DEF PumpOrders
<1>4. decision.flexibility \in Flexibilities
    BY <1>2, <1>3, WriteApplied
<1>5. /\ Tail(toCompressor) \in Seq(PumpOrders)
      /\ WillSubscribe(toCompressor) => WillSubscribe(Tail(toCompressor))
    BY <1>1, <1>2, OrderTaken
<1> HIDE DEF decision
<1>6. CASE accepted
  <2> DEFINE f == decision.flexibility
  <2>1. /\ flexibility' = f /\ feature' = Pump!Data(f)
        /\ toManager' = toManager \o Pump!Inform(Pump!Data(f))
        /\ f \in Flexibilities
      BY <1>1, <1>4, <1>6
  <2> HIDE DEF f
  <2> QED BY <1>1, <1>2, <1>5, <2>1, TellingFollows
<1>7. CASE ~accepted
  <2>1. UNCHANGED <<flexibility, feature, offer, toManager, changes>>
      BY <1>1, <1>2, <1>7
  <2>2. /\ peer' = [bound |-> peer.bound, subscribed |-> peer.subscribed]
        /\ peer.bound \in BOOLEAN /\ peer.subscribed \in BOOLEAN
      BY <1>1, <1>2
  <2>3. peer.subscribed = (peer.subscribed \/ Head(toCompressor).kind = "subscribe")
      BY <1>1, <2>2
  <2> HIDE DEF accepted
  <2> QED BY <1>1, <2>1, <2>2, <2>3, QuietTaking
<1> QED BY <1>6, <1>7

LEMMA ReconnectFollows ==
    ASSUME PumpInv, Pump!Reconnect
    PROVE  PumpInv'
<1>1. /\ peer' = [bound |-> FALSE, subscribed |-> FALSE] /\ toCompressor' = Pump!Follow
      /\ toManager' = <<>> /\ changes' = changes + 1
      /\ UNCHANGED <<flexibility, feature, offer>>
    BY DEF Pump!Reconnect
<1>2. PumpTypes'
    BY <1>1, FollowReads DEF PumpInv, PumpTypes
<1>3. OfferFollows(peer.subscribed, toCompressor, offer, toManager, feature)'
    BY <1>1, FollowReads DEF OfferFollows
<1>4. feature' = Pump!Data(flexibility')
    BY <1>1 DEF PumpInv
<1> QED BY <1>2, <1>3, <1>4 DEF PumpInv

LEMMA HearingFollows ==
    ASSUME PumpInv, Pump!HearOffer
    PROVE  PumpInv'
<1> DEFINE rest == Tail(toManager)
<1>1. /\ toManager # <<>> /\ offer' = Pump!Read(Head(toManager).doc) /\ toManager' = rest
      /\ UNCHANGED <<flexibility, feature, peer, toCompressor, changes>>
    BY DEF Pump!HearOffer
<1>2. /\ flexibility \in Flexibilities /\ toManager \in Seq(PumpReports)
      /\ feature = Pump!Data(flexibility) /\ Pump!Read(feature) = feature
    BY DataTyped DEF PumpInv, PumpTypes
<1>3. /\ rest \in Seq(PumpReports)
      /\ rest = <<>> => Head(toManager) = toManager[Len(toManager)]
      /\ rest # <<>> => rest[Len(rest)] = toManager[Len(toManager)]
    BY <1>1, <1>2
<1> HIDE DEF rest
<1>4. Latest(offer, toManager) = feature => Latest(offer', rest) = feature
    BY <1>1, <1>2, <1>3 DEF Latest
<1>5. PumpTypes'
    BY <1>1, <1>3 DEF PumpInv, PumpTypes
<1>6. OfferFollows(peer.subscribed, toCompressor, offer', rest, feature)
    BY <1>4 DEF PumpInv, OfferFollows
<1>7. OfferFollows(peer.subscribed, toCompressor, offer, toManager, feature)'
    BY <1>1, <1>6
<1>8. feature' = Pump!Data(flexibility')
    BY <1>1, <1>2
<1> QED BY <1>5, <1>7, <1>8 DEF PumpInv

LEMMA CommandFollows ==
    ASSUME PumpInv, Pump!Command
    PROVE  PumpInv'
<1>1. PICK write \in Pump!Commands(offer) :
        toCompressor' = Append(toCompressor, [kind |-> "write", write |-> write])
    BY DEF Pump!Command
<1>2. UNCHANGED <<flexibility, feature, peer, offer, toManager, changes>>
    BY DEF Pump!Command
<1>3. write \in PumpWrites
    BY DEF Pump!Commands, PumpWrites
<1> DEFINE o == [kind |-> "write", write |-> write]
<1>4. o \in PumpOrders
    BY <1>3 DEF PumpOrders
<1> HIDE DEF o
<1>5. /\ toCompressor' \in Seq(PumpOrders)
      /\ WillRead(toCompressor) => WillRead(toCompressor')
      /\ WillSubscribe(toCompressor) => WillSubscribe(toCompressor')
  <2>1. toCompressor' = Append(toCompressor, o)
      BY <1>1 DEF o
  <2> QED BY <1>4, <2>1, OrderAdded DEF PumpInv, PumpTypes
<1>6. PumpTypes'
    BY <1>2, <1>5 DEF PumpInv, PumpTypes
<1>7. OfferFollows(peer.subscribed, toCompressor', offer, toManager, feature)
    BY <1>5 DEF PumpInv, OfferFollows
<1>8. OfferFollows(peer.subscribed, toCompressor, offer, toManager, feature)'
    BY <1>2, <1>7
<1>9. feature' = Pump!Data(flexibility')
    BY <1>2 DEF PumpInv
<1> QED BY <1>6, <1>8, <1>9 DEF PumpInv

LEMMA ONextFollowed == ASSUME PumpInv, [Pump!ONext]_(Pump!ovars) PROVE PumpInv'
<1>1. CASE UNCHANGED Pump!ovars
    BY <1>1 DEF Pump!ovars, PumpInv, PumpTypes
<1>2. CASE Pump!OwnChange
    BY <1>2, OwnChangeFollows
<1>3. CASE Pump!TakeBinding \/ Pump!TakeSubscription
    BY <1>3, TakingFollows
<1>4. CASE Pump!AnswerRead
    BY <1>4, AnswerFollows
<1>5. CASE Pump!TakeWrite
    BY <1>5, WriteFollows
<1>6. CASE Pump!Reconnect
    BY <1>6, ReconnectFollows
<1>7. CASE Pump!HearOffer
    BY <1>7, HearingFollows
<1>8. CASE Pump!Command
    BY <1>8, CommandFollows
<1> QED BY <1>1, <1>2, <1>3, <1>4, <1>5, <1>6, <1>7, <1>8 DEF Pump!ONext

LEMMA FollowedIsSeen == PumpInv => Pump!OfferIsSeen
<1> SUFFICES ASSUME PumpInv, toCompressor = <<>>, toManager = <<>>
             PROVE  /\ offer = Pump!Data(flexibility)
                    /\ (Pump!IsAbsent(offer) <=> ~flexibility.offered)
    BY DEF Pump!OfferIsSeen
<1>1. ~WillRead(toCompressor) /\ ~WillSubscribe(toCompressor)
    BY DEF WillRead, WillSubscribe
<1>2. offer = Pump!Data(flexibility)
    BY <1>1 DEF PumpInv, OfferFollows, Latest
<1> QED BY <1>2, DataTyped DEF PumpInv, PumpTypes


\* What a write does to a compressor whose process has ended, or has started.
LEMMA WriteTooLate ==
    ASSUME NEW f \in Flexibilities, NEW write \in PumpWrites, Pump!Apply(f, write).ok
    PROVE  LET g == Pump!Apply(f, write).flexibility
           IN  /\ ~(f.offered /\ f.state \in Pump!Ended)
               /\ f.state \in {"Running", "Paused"} /\ g.start # f.start =>
                    g.state \in Pump!Ended
<1>1. f.state \in PumpStates /\ f \in Flexibilities
    BY DEF Flexibilities
<1>2. ~Pump!Refused(f).ok /\ \A g : Pump!Ok(g).flexibility = g
    BY DEF Pump!Ok, Pump!Refused
<1>3. f.offered
    BY <1>2 DEF Pump!Apply
<1>4. CASE write.state # "Unstated"
  <2> DEFINE s == IF write.state = "Invalid" THEN Pump!NoTime ELSE f.start
             g == [f EXCEPT !.state = write.state, !.start = s]
  <2>1. Pump!Apply(f, write) = Pump!ChangeState(f, write.state)
      BY <1>2, <1>4 DEF Pump!Apply
  <2>2. f.state \notin Pump!Ended
      BY <1>2, <2>1 DEF Pump!ChangeState
  <2>3. Pump!Apply(f, write) = Pump!Ok(g)
      BY <1>2, <2>1 DEF Pump!ChangeState
  <2>4. g.state = write.state /\ g.start = s
      BY <1>1 DEF Flexibilities
  <2> HIDE DEF g
  <2> QED BY <1>2, <2>2, <2>3, <2>4 DEF Pump!Ended
<1>5. CASE write.state = "Unstated"
  <2>1. Pump!Apply(f, write) = Pump!Schedule(f, write.start)
      BY <1>2, <1>5 DEF Pump!Apply
  <2>2. f.state \in {"Inactive", "Scheduled"}
      BY <1>2, <2>1 DEF Pump!Schedule
  <2> QED BY <2>2 DEF Pump!Ended
<1> QED BY <1>4, <1>5

LEMMA LateCommandsChangeNothing ==
    ASSUME PumpTypes, [Pump!ONext]_(Pump!ovars)
    PROVE  Pump!CommandComesTooLate
<1> DEFINE f == flexibility
<1>1. f \in Flexibilities /\ changes \in Nat /\ toCompressor \in Seq(PumpOrders)
    BY DEF PumpTypes
<1>2. CASE Pump!OwnChange
  <2>1. changes' > changes
    <3>1. changes' = changes + 1
        BY <1>2 DEF Pump!OwnChange, Pump!Withdraw, Pump!OfferAgain, Pump!Start,
                    Pump!Complete, Pump!Abort, Pump!Notify
    <3> QED BY <1>1, <3>1
  <2>2. f.offered /\ f.state \in Pump!Ended => flexibility'.state = "Inactive"
    <3> SUFFICES ASSUME f.offered, f.state \in Pump!Ended PROVE flexibility'.state = "Inactive"
        OBVIOUS
    <3>1. ~Pump!Start /\ ~Pump!Complete /\ ~Pump!Abort
        BY DEF Pump!Start, Pump!Complete, Pump!Abort, Pump!Ended
    <3>2. CASE Pump!Withdraw
        BY <1>1, <3>2 DEF Pump!Withdraw, Pump!Notify, Flexibilities
    <3>3. CASE Pump!OfferAgain
        BY <1>1, <3>3 DEF Pump!OfferAgain, Pump!Notify, Flexibilities
    <3> QED BY <1>2, <3>1, <3>2, <3>3 DEF Pump!OwnChange
  <2> QED BY <2>1, <2>2 DEF Pump!CommandComesTooLate
<1>3. CASE Pump!TakeWrite
  <2> DEFINE write == Head(toCompressor).write
             decision == Pump!Apply(f, write)
  <2>1. /\ toCompressor # <<>> /\ Head(toCompressor).kind = "write"
        /\ \/ flexibility' = f
           \/ decision.ok /\ flexibility' = decision.flexibility
      BY <1>3 DEF Pump!TakeWrite, Pump!Hears
  <2>2. write \in PumpWrites
    <3>1. Head(toCompressor) \in PumpOrders
        BY <1>1, <2>1
    <3> QED BY <2>1, <3>1 DEF PumpOrders
  <2>3. CASE flexibility' = f
      BY <2>3 DEF Pump!CommandComesTooLate
  <2>4. CASE decision.ok /\ flexibility' = decision.flexibility
    <3>1. /\ ~(f.offered /\ f.state \in Pump!Ended)
          /\ f.state \in {"Running", "Paused"} /\ flexibility'.start # f.start =>
               flexibility'.state \in Pump!Ended
      <4> HIDE DEF write
      <4> QED BY <1>1, <2>2, <2>4, WriteTooLate
    <3> QED BY <3>1 DEF Pump!CommandComesTooLate
  <2> QED BY <2>1, <2>3, <2>4
<1>4. CASE flexibility' = f
    BY <1>4 DEF Pump!CommandComesTooLate
<1>5. Pump!OwnChange \/ Pump!TakeWrite \/ flexibility' = f
    BY DEF Pump!ONext, Pump!ovars, Pump!TakeBinding, Pump!TakeSubscription,
           Pump!AnswerRead, Pump!Reconnect, Pump!HearOffer, Pump!Command
<1> QED BY <1>2, <1>3, <1>4, <1>5

\* An energy manager that heard everything sees the compressor's offer as it is,
\* whoever changed it last. (ohpcf.rs follow, accept_write_with, notify)
THEOREM OfferFollowed == Pump!OInit /\ [][Pump!ONext]_(Pump!ovars) => []Pump!OfferIsSeen
BY OInitFollowed, ONextFollowed, FollowedIsSeen, PTL

\* A command that comes after the end, or after the start, changes nothing.
\* (ohpcf.rs change_state, schedule)
THEOREM LateCommandsAreRefused ==
    Pump!OInit /\ [][Pump!ONext]_(Pump!ovars) => [][Pump!CommandComesTooLate]_(Pump!ovars)
<1>1. PumpInv => PumpTypes
    BY DEF PumpInv
<1>2. Pump!OInit => PumpInv
    BY OInitFollowed
<1>3. PumpInv /\ [Pump!ONext]_(Pump!ovars) => PumpInv'
    BY ONextFollowed
<1>4. PumpInv /\ [Pump!ONext]_(Pump!ovars) => [Pump!CommandComesTooLate]_(Pump!ovars)
    BY <1>1, LateCommandsChangeNothing
<1> QED BY <1>2, <1>3, <1>4, PTL

-----------------------------------------------------------------------------
(* EvCharging: what the car charges at, what it publishes and what its      *)
(* guard reports as applied, for any set of phases, every band and any      *)
(* requirements, with messages late and writes given up.                    *)

CarConstants ==
    /\ CarPhases \subseteq PHASES
    /\ \A p, q \in PHASES : LimitId[p] = LimitId[q] => p = q
    /\ Permitted[1] \in Nat \ {0} /\ Permitted[2] \in Nat /\ Permitted[1] <= Permitted[2]
    /\ Requirements \subseteq [PHASES -> Nat]
    /\ CAR_TIMEOUT \in Nat /\ MaxWrites \in Nat

Sources == {"GuardFailed", "NotYetCurtailed", "GuardSilent", "Curtailed"}
Ids == {LimitId[p] : p \in CarPhases}
Limits == [active : BOOLEAN, value : Nat]
Lists == UNION {[D -> Limits] : D \in SUBSET Ids}
Wanted == [set : BOOLEAN, amps : [PHASES -> Nat]]
Cars == [ limit : [set : BOOLEAN, amps : Car!Currents], failed : BOOLEAN, source : Sources,
          heard : {Car!None} \cup 0 .. CAR_TIMEOUT, unstored : BOOLEAN,
          behind : BOOLEAN ]
CarGuards == [ bound : BOOLEAN, known : SUBSET Car!Everything, required : Wanted,
            outstanding : Nat, asking : Wanted, applied : Wanted, ready : BOOLEAN,
            failed : BOOLEAN, missed : BOOLEAN ]
CarOrders == [kind : {"beat"}] \cup [kind : {"state"}, failed : BOOLEAN]
             \cup [kind : {"write"}, id : Nat, entries : Lists]
CarAnswers == [id : Nat, ok : BOOLEAN]

EvTypes ==
    /\ car \in Cars /\ data \in Lists /\ age \in 0 .. CAR_TIMEOUT
    /\ guard \in CarGuards /\ asked \subseteq {"bind"} \cup Car!Everything
    /\ toCar \in Seq(CarOrders) /\ toGuard \in Seq(CarAnswers) /\ sent \in 0 .. MaxWrites

\* What a car that was read as c has published as list.
Shown(c, list) ==
    /\ Car!Named(c.limit.amps) \subseteq CarPhases
    /\ ~c.limit.set => Car!Named(c.limit.amps) = {}
    /\ \A p \in CarPhases :
         LimitId[p] \in DOMAIN list /\ list[LimitId[p]].active
           => Car!Source(c) = "Curtailed" /\ c.limit.amps[p] # Car!NoAmps
    /\ \A p \in Car!Named(c.limit.amps) : list[LimitId[p]].value = c.limit.amps[p]
    /\ ~c.behind /\ Car!Source(c) = "Curtailed" =>
         \A p \in Car!Named(c.limit.amps) : list[LimitId[p]].active

\* The source published last is the source, or one that the car never returns to, or a
\* write has met a silence and was published by it.
SourceFits(c) ==
    \/ c.source = Car!Source(c)
    \/ c.source = "NotYetCurtailed" /\ c.limit.set /\ c.heard # Car!None
    \/ c.source = "Curtailed" /\ Car!Source(c) = "GuardSilent" /\ c.behind

CarFits == Shown(car, data) /\ SourceFits(car) /\ (car.heard = Car!None \/ car.heard <= age)

\* Writes and answers on their way have ascending numbers.
InOrder(orders, answers, n) ==
    /\ \A i \in DOMAIN orders :
         orders[i].kind = "write" => orders[i].id >= 1 /\ orders[i].id <= n
    /\ \A j \in DOMAIN answers : answers[j].id >= 1 /\ answers[j].id <= n
    /\ \A i, j \in DOMAIN orders :
         i < j /\ orders[i].kind = "write" /\ orders[j].kind = "write" =>
           orders[i].id < orders[j].id
    /\ \A i, j \in DOMAIN answers : i < j => answers[i].id < answers[j].id
    /\ \A i \in DOMAIN orders, j \in DOMAIN answers :
         orders[i].kind = "write" => answers[j].id < orders[i].id

Holds(limit, wanted) ==
    \A p \in Car!Named(wanted.amps) \cap CarPhases :
      limit.amps[p] = Car!Clamp(wanted.amps[p], Permitted)
Carries(list, wanted) ==
    \A p \in Car!Named(wanted.amps) \cap CarPhases :
      /\ LimitId[p] \in DOMAIN list
      /\ list[LimitId[p]] = [active |-> TRUE, value |-> wanted.amps[p]]

\* A write on its way for g carries what g asks for, a confirmation on its way is of what
\* the car holds, and unless a write was given up no other write is on its way and the
\* car holds what is applied until it confirms another.
Confirmed(g, answers) ==
    \E j \in DOMAIN answers : answers[j].id = g.outstanding /\ answers[j].ok
AloneOrders(g, orders) ==
    \A i \in DOMAIN orders : orders[i].kind = "write" => orders[i].id = g.outstanding
AloneAnswers(g, answers) == \A j \in DOMAIN answers : answers[j].id = g.outstanding
CarriesAll(g, orders) ==
    \A i \in DOMAIN orders :
      orders[i].kind = "write" /\ orders[i].id = g.outstanding =>
        Carries(orders[i].entries, g.asking)
GuardFits(g, limit, unstored, orders, answers, n) ==
    /\ g.outstanding \in {0, n}
    /\ CarriesAll(g, orders)
    /\ Confirmed(g, answers) => ~unstored /\ Holds(limit, g.asking)
    /\ ~g.missed => AloneOrders(g, orders) /\ AloneAnswers(g, answers)
    /\ g.applied.set /\ ~unstored /\ ~g.missed /\ ~Confirmed(g, answers) =>
         Holds(limit, g.applied)

-----------------------------------------------------------------------------
\* How the car numbers its phases, as far as a guard knows.
LEMMA LimitsKnown ==
    ASSUME CarConstants, NEW told, NEW p \in PHASES
    PROVE  Car!LimitsFor(told, p)
             = IF "limits" \in told /\ "params" \in told /\ p \in CarPhases
               THEN {LimitId[p]} ELSE {}
<1> DEFINE mine(q) == [limit |-> LimitId[q], measurement |-> LimitId[q], ours |-> TRUE]
           param(q) == [measurement |-> LimitId[q], phase |-> q]
<1>1. CarPhases \subseteq PHASES /\ \A q, r \in PHASES : LimitId[q] = LimitId[r] => q = r
    BY DEF CarConstants
<1>2. Car!Learn(told) = IF "limits" \in told THEN {mine(q) : q \in CarPhases} ELSE {}
    BY DEF Car!Learn, Car!LimitDescriptions
<1>3. Car!Parameters(told) = IF "params" \in told THEN {param(q) : q \in CarPhases} ELSE {}
    BY DEF Car!Parameters, Car!ParameterDescriptions
<1>4. \A q : /\ mine(q).limit = LimitId[q] /\ mine(q).measurement = LimitId[q]
             /\ param(q).measurement = LimitId[q] /\ param(q).phase = q
    OBVIOUS
<1> DEFINE chosen == {e \in Car!Learn(told) :
                        \E q \in Car!Parameters(told) :
                          q.measurement = e.measurement /\ q.phase = p}
<1>5. Car!LimitsFor(told, p) = {d.limit : d \in chosen}
    BY DEF Car!LimitsFor
<1> HIDE DEF mine, param
<1>6. CASE "limits" \in told /\ "params" \in told /\ p \in CarPhases
  <2>1. chosen = {mine(p)}
    <3>1. mine(p) \in chosen
        BY <1>2, <1>3, <1>4, <1>6
    <3>2. ASSUME NEW e \in chosen PROVE e = mine(p)
        BY <1>1, <1>2, <1>3, <1>4, <1>6, <3>2
    <3> QED BY <3>1, <3>2
  <2> QED BY <1>4, <1>5, <1>6, <2>1
<1>7. CASE ~("limits" \in told /\ "params" \in told /\ p \in CarPhases)
  <2>1. chosen = {}
      BY <1>1, <1>2, <1>3, <1>4, <1>7
  <2> QED BY <1>5, <1>7, <2>1
<1> QED BY <1>6, <1>7

\* What a list of limits says, for a reader that knows the numbers.
LEMMA DataSays ==
    ASSUME CarConstants, NEW told, "limits" \in told, "params" \in told,
           NEW currents \in [PHASES -> Nat], NEW active \in BOOLEAN
    PROVE  /\ Car!LimitData(currents, active, told) \in Lists
           /\ \A p \in CarPhases :
                /\ LimitId[p] \in DOMAIN Car!LimitData(currents, active, told)
                     <=> p \in Car!Named(currents)
                /\ p \in Car!Named(currents) =>
                     Car!LimitData(currents, active, told)[LimitId[p]]
                       = [active |-> active, value |-> currents[p]]
<1> DEFINE at(id) == CHOOSE p \in PHASES : id \in Car!LimitsFor(told, p)
           D == UNION {Car!LimitsFor(told, p) : p \in Car!Named(currents)}
           list == [id \in D |-> [active |-> active, value |-> currents[at(id)]]]
<1>1. Car!LimitData(currents, active, told) = list
    BY DEF Car!LimitData
<1>2. CarPhases \subseteq PHASES /\ \A q, r \in PHASES : LimitId[q] = LimitId[r] => q = r
    BY DEF CarConstants
<1>3. \A p \in PHASES : Car!LimitsFor(told, p) = IF p \in CarPhases THEN {LimitId[p]} ELSE {}
    BY LimitsKnown
<1>4. D = {LimitId[p] : p \in Car!Named(currents) \cap CarPhases}
    BY <1>3 DEF Car!Named
<1>5. \A p \in CarPhases : at(LimitId[p]) = p
  <2> TAKE p \in CarPhases
  <2>1. p \in PHASES /\ LimitId[p] \in Car!LimitsFor(told, p)
      BY <1>2, <1>3
  <2>2. at(LimitId[p]) \in PHASES /\ LimitId[p] \in Car!LimitsFor(told, at(LimitId[p]))
      BY <2>1
  <2> HIDE DEF at
  <2> QED BY <1>2, <1>3, <2>1, <2>2
<1> HIDE DEF at
<1>6. \A p \in Car!Named(currents) \cap CarPhases : LimitId[p] \in D /\ list[LimitId[p]]
        = [active |-> active, value |-> currents[p]]
    BY <1>4, <1>5
<1>7. D \in SUBSET Ids
    BY <1>4 DEF Ids
<1>8. list \in [D -> Limits]
  <2>1. \A id \in D : currents[at(id)] \in Nat
      BY <1>2, <1>4, <1>5
  <2> QED BY <2>1 DEF Limits
<1>9. list \in Lists
  <2> HIDE DEF list, D
  <2> QED BY <1>7, <1>8 DEF Lists
<1>10. \A p \in CarPhases : LimitId[p] \in D => p \in Car!Named(currents)
    BY <1>2, <1>4
<1>11. DOMAIN list = D
    OBVIOUS
<1> HIDE DEF list, D
<1> QED BY <1>1, <1>6, <1>9, <1>10, <1>11

LEMMA DeactivatedSays ==
    ASSUME CarConstants, NEW told, NEW phases \in SUBSET PHASES
    PROVE  /\ Car!Deactivated(phases, told) \in Lists
           /\ \A id \in DOMAIN Car!Deactivated(phases, told) :
                ~Car!Deactivated(phases, told)[id].active
<1> DEFINE D == UNION {Car!LimitsFor(told, p) : p \in phases}
           list == [id \in D |-> [active |-> FALSE, value |-> Car!NoAmps]]
<1>1. Car!Deactivated(phases, told) = list
    BY DEF Car!Deactivated
<1>2. D \in SUBSET Ids
    BY LimitsKnown DEF Ids
<1> HIDE DEF D
<1>3. list \in [D -> Limits] /\ DOMAIN list = D /\ \A id \in D : ~list[id].active
    BY DEF Limits, Car!NoAmps
<1>4. list \in Lists
  <2> HIDE DEF list
  <2> QED BY <1>2, <1>3 DEF Lists
<1> HIDE DEF list
<1> QED BY <1>1, <1>3, <1>4


-----------------------------------------------------------------------------
\* Currents.
LEMMA ClampInBand ==
    ASSUME CarConstants, NEW value \in Nat
    PROVE  /\ Car!Clamp(value, Permitted) \in Permitted[1] .. Permitted[2]
           /\ Car!Clamp(value, Permitted) \in Nat \ {0}
BY DEF CarConstants, Car!Clamp

LEMMA AskedTyped ==
    ASSUME CarConstants, NEW g \in CarGuards
    PROVE  Car!Asked(g) \in [PHASES -> Nat]
<1> DEFINE bands == Car!ResolveBand(g.known)
           currents == g.required.amps
<1>1. currents \in [PHASES -> Nat]
    BY DEF CarGuards, Wanted
<1>2. Car!Asked(g) = Car!Clamped(currents, bands)
    BY DEF Car!Asked
<1>3. CASE DOMAIN bands = {}
  <2>1. Car!Asked(g) = [p \in PHASES |-> currents[p]]
      BY <1>2, <1>3 DEF Car!Clamped
  <2> QED BY <1>1, <2>1
<1>4. CASE DOMAIN bands # {}
  <2>1. bands = [p \in CarPhases |-> Permitted] /\ CarPhases # {}
    <3>1. bands = [p \in CarPhases |-> Permitted] \/ bands = [p \in {} |-> Permitted]
        BY DEF Car!ResolveBand, Car!PermittedValueSets
    <3> QED BY <1>4, <3>1
  <2> DEFINE N == Car!Narrowest(bands)
  <2>2. N[1] = Permitted[1] /\ N[2] = Permitted[2]
    <3>1. /\ {bands[p][1] : p \in DOMAIN bands} = {Permitted[1]}
          /\ {bands[p][2] : p \in DOMAIN bands} = {Permitted[2]}
          /\ \A p \in DOMAIN bands : bands[p][1] = Permitted[1] /\ bands[p][2] = Permitted[2]
        BY <2>1
    <3> DEFINE lo == CHOOSE x \in {Permitted[1]} : \A p \in DOMAIN bands : x >= bands[p][1]
               hi == CHOOSE x \in {Permitted[2]} : \A p \in DOMAIN bands : x <= bands[p][2]
    <3>2. N = <<lo, hi>>
        BY <3>1 DEF Car!Narrowest
    <3>3. lo = Permitted[1] /\ hi = Permitted[2]
      <4>1. Permitted[1] \in Nat /\ Permitted[2] \in Nat
          BY DEF CarConstants
      <4>2. \A p \in DOMAIN bands : Permitted[1] >= bands[p][1] /\ Permitted[2] <= bands[p][2]
          BY <3>1, <4>1
      <4> HIDE DEF bands
      <4> QED BY <4>2
    <3> HIDE DEF N, lo, hi
    <3> QED BY <3>2, <3>3
  <2>3. \A v : Car!Clamp(v, N) = Car!Clamp(v, Permitted)
      BY <2>2 DEF Car!Clamp
  <2>4. \A p \in PHASES :
          Car!Asked(g)[p] = currents[p] \/ Car!Asked(g)[p] = Car!Clamp(currents[p], Permitted)
    <3> HIDE DEF N
    <3>1. \A p \in DOMAIN bands : bands[p] = Permitted
        BY <2>1
    <3> QED BY <1>2, <2>3, <3>1 DEF Car!Clamped, N
  <2>5. Car!Asked(g) = [p \in PHASES |-> Car!Asked(g)[p]]
      BY <1>2 DEF Car!Clamped
  <2>6. \A p \in PHASES : Car!Asked(g)[p] \in Nat
      BY <1>1, <2>4, ClampInBand
  <2> HIDE DEF bands, currents
  <2> QED BY <2>5, <2>6
<1> QED BY <1>3, <1>4

\* What the guard writes.
LEMMA PayloadCarries ==
    ASSUME CarConstants, NEW g \in CarGuards, Car!Due(g)
    PROVE  Car!Payload(g) \in Lists /\ Carries(Car!Payload(g), Car!Set(Car!Asked(g)))
<1>1. Car!Asked(g) \in [PHASES -> Nat] /\ Car!Set(Car!Asked(g)).amps = Car!Asked(g)
    BY AskedTyped DEF Car!Set
<1>2. "limits" \in g.known /\ "params" \in g.known
  <2>1. PICK p \in PHASES : Car!LimitsFor(g.known, p) # {}
      BY DEF Car!Due, Car!IsKnown
  <2> QED BY <2>1, LimitsKnown
<1>3. CASE Car!Named(Car!Asked(g)) # {}
  <2>1. Car!Payload(g) = Car!LimitData(Car!Asked(g), TRUE, g.known)
      BY <1>3 DEF Car!Payload
  <2>2. /\ Car!LimitData(Car!Asked(g), TRUE, g.known) \in Lists
        /\ \A p \in CarPhases :
             p \in Car!Named(Car!Asked(g)) =>
               /\ LimitId[p] \in DOMAIN Car!LimitData(Car!Asked(g), TRUE, g.known)
               /\ Car!LimitData(Car!Asked(g), TRUE, g.known)[LimitId[p]]
                    = [active |-> TRUE, value |-> Car!Asked(g)[p]]
      BY <1>1, <1>2, DataSays
  <2> QED BY <1>1, <2>1, <2>2 DEF Carries
<1>4. CASE Car!Named(Car!Asked(g)) = {}
  <2>1. Car!ReadPhases(g.known) \in SUBSET PHASES
    <3>1. \A q \in Car!ParameterDescriptions : q.phase \in CarPhases
        BY DEF Car!ParameterDescriptions
    <3>2. CarPhases \subseteq PHASES
        BY DEF CarConstants
    <3> QED BY <3>1, <3>2 DEF Car!ReadPhases
  <2>2. Car!Payload(g) = Car!Deactivated(Car!ReadPhases(g.known), g.known)
      BY <1>4 DEF Car!Payload
  <2> QED BY <1>1, <1>4, <2>1, <2>2, DeactivatedSays DEF Carries
<1> QED BY <1>3, <1>4

\* What the car publishes says what it follows.
LEMMA PublishedShows ==
    ASSUME CarConstants, NEW c \in Cars,
           Car!Named(c.limit.amps) \subseteq CarPhases,
           ~c.limit.set => Car!Named(c.limit.amps) = {}
    PROVE  Car!Published(c) \in Lists /\ Shown(c, Car!Published(c))
<1>1. c.limit.amps \in [PHASES -> Nat]
    BY DEF Cars, Car!Currents, Car!NoAmps, CarConstants
<1>2. "limits" \in Car!Everything /\ "params" \in Car!Everything
    BY DEF Car!Everything
<1>3. CarPhases \subseteq PHASES
    BY DEF CarConstants
<1>4. CASE c.limit.set /\ Car!Named(c.limit.amps) # {}
  <2> DEFINE active == Car!Source(c) = "Curtailed"
             list == Car!LimitData(c.limit.amps, active, Car!Everything)
  <2>1. Car!Published(c) = list
      BY <1>4 DEF Car!Published
  <2>2. active \in BOOLEAN
      OBVIOUS
  <2>3. /\ list \in Lists
        /\ \A p \in CarPhases :
             /\ LimitId[p] \in DOMAIN list <=> p \in Car!Named(c.limit.amps)
             /\ p \in Car!Named(c.limit.amps) =>
                  list[LimitId[p]] = [active |-> active, value |-> c.limit.amps[p]]
    <3> HIDE DEF active
    <3> QED BY <1>1, <1>2, <2>2, DataSays
  <2>4. \A p \in Car!Named(c.limit.amps) : c.limit.amps[p] # Car!NoAmps
      BY DEF Car!Named
  <2>5. ASSUME NEW p \in CarPhases, LimitId[p] \in DOMAIN list, list[LimitId[p]].active
        PROVE  active /\ c.limit.amps[p] # Car!NoAmps
    <3>1. p \in Car!Named(c.limit.amps)
        BY <2>3, <2>5
    <3>2. list[LimitId[p]] = [active |-> active, value |-> c.limit.amps[p]]
        BY <2>3, <3>1
    <3> HIDE DEF list, active
    <3>3. list[LimitId[p]].active = active
        BY <3>2
    <3> QED BY <2>4, <2>5, <3>1, <3>3
  <2>6. \A p \in Car!Named(c.limit.amps) : list[LimitId[p]].value = c.limit.amps[p]
    <3> TAKE p \in Car!Named(c.limit.amps)
    <3>1. list[LimitId[p]] = [active |-> active, value |-> c.limit.amps[p]]
        BY <2>3
    <3> HIDE DEF list, active
    <3> QED BY <3>1
  <2>7. active => \A p \in Car!Named(c.limit.amps) : list[LimitId[p]].active
    <3> SUFFICES ASSUME active, NEW p \in Car!Named(c.limit.amps) PROVE list[LimitId[p]].active
        OBVIOUS
    <3>1. list[LimitId[p]] = [active |-> active, value |-> c.limit.amps[p]]
        BY <2>3
    <3> HIDE DEF list, active
    <3> QED BY <3>1
  <2> HIDE DEF list
  <2> QED BY <1>4, <2>1, <2>3, <2>5, <2>6, <2>7 DEF Shown
<1>5. CASE ~(c.limit.set /\ Car!Named(c.limit.amps) # {})
  <2> DEFINE list == Car!Deactivated(CarPhases, Car!Everything)
  <2>1. Car!Published(c) = list /\ Car!Named(c.limit.amps) = {}
      BY <1>5 DEF Car!Published
  <2>2. list \in Lists /\ \A id \in DOMAIN list : ~list[id].active
      BY <1>3, DeactivatedSays
  <2> HIDE DEF list
  <2> QED BY <2>1, <2>2 DEF Shown
<1> QED BY <1>4, <1>5

-----------------------------------------------------------------------------
\* A limit that is in force when it is published is published as active.
LEMMA PublishedActive ==
    ASSUME CarConstants, NEW c \in Cars,
           Car!Named(c.limit.amps) \subseteq CarPhases,
           ~c.limit.set => Car!Named(c.limit.amps) = {}, Car!Source(c) = "Curtailed"
    PROVE  \A p \in Car!Named(c.limit.amps) : Car!Published(c)[LimitId[p]].active
<1> DEFINE e == [c EXCEPT !.behind = FALSE]
<1>1. /\ e \in Cars /\ e.limit = c.limit /\ e.failed = c.failed /\ e.heard = c.heard
      /\ ~e.behind
    BY DEF Cars
<1> HIDE DEF e
<1>2. Car!Source(e) = Car!Source(c) /\ Car!Published(e) = Car!Published(c)
    BY <1>1 DEF Car!Published, Car!Source
<1>3. Shown(e, Car!Published(e))
    BY <1>1, PublishedShows
<1> QED BY <1>1, <1>2, <1>3 DEF Shown

\* The car. What a limit makes of it.
LEMMA LimitTaken ==
    ASSUME CarConstants, NEW c \in Cars, age \in 0 .. CAR_TIMEOUT,
           NEW currents \in [PHASES -> Nat]
    PROVE  LET d == Car!OnLimit(c, currents) IN
           /\ d \in Cars /\ d.limit.set /\ d.failed = c.failed /\ d.source = c.source
           /\ d.unstored = c.unstored
           /\ c.heard = Car!None => d.heard \in {Car!None, 0}
           /\ c.heard # Car!None => d.heard = age
           /\ Car!Named(d.limit.amps) = Car!Named(currents)
           /\ \A p \in Car!Named(currents) : d.limit.amps[p] = Car!Clamp(currents[p], Permitted)
<1> DEFINE bands == [p \in PHASES |-> Permitted]
           within == Car!Clamped(currents, bands)
           d == Car!OnLimit(c, currents)
<1>1. /\ Permitted[1] \in Nat /\ Permitted[2] \in Nat /\ CAR_TIMEOUT \in Nat
      /\ 0 \in 0 .. CAR_TIMEOUT /\ Car!None # age /\ Car!None # 0
    BY DEF CarConstants, Car!None
<1>2. /\ within = [p \in PHASES |-> within[p]]
      /\ \A p \in PHASES : within[p] = IF currents[p] = Car!NoAmps THEN Car!NoAmps
                                       ELSE Car!Clamp(currents[p], Permitted)
    BY DEF Car!Clamped
<1> HIDE DEF within
<1>3. within \in Car!Currents
  <2>1. \A p \in PHASES : within[p] \in {Car!NoAmps} \cup (Permitted[1] .. Permitted[2])
      BY <1>2, ClampInBand
  <2> QED BY <1>2, <2>1 DEF Car!Currents
<1>4. Car!Named(within) = Car!Named(currents)
  <2>1. \A p \in PHASES : within[p] # Car!NoAmps <=> currents[p] # Car!NoAmps
      BY <1>2, ClampInBand DEF Car!NoAmps
  <2> QED BY <2>1 DEF Car!Named
<1>5. CASE Car!Named(currents) = {}
  <2> DEFINE h == IF c.heard = Car!None THEN 0 ELSE age
  <2>1. d = [c EXCEPT !.limit = Car!Set(currents), !.heard = h]
      BY <1>5 DEF Car!OnLimit
  <2>2. currents \in Car!Currents
    <3>1. \A p \in PHASES : currents[p] = Car!NoAmps
        BY <1>5 DEF Car!Named
    <3> QED BY <3>1 DEF Car!Currents
  <2>3. /\ Car!Set(currents) \in [set : BOOLEAN, amps : Car!Currents]
        /\ Car!Set(currents).set /\ Car!Set(currents).amps = currents
      BY <2>2 DEF Car!Set
  <2>4. h \in {Car!None} \cup 0 .. CAR_TIMEOUT
      BY <1>1
  <2> HIDE DEF h, d
  <2>5. /\ d \in Cars /\ d.limit = Car!Set(currents) /\ d.heard = h /\ d.failed = c.failed
        /\ d.source = c.source /\ d.unstored = c.unstored
      BY <2>1, <2>3, <2>4 DEF Cars
  <2> QED BY <1>1, <1>5, <2>3, <2>5 DEF d, h
<1>6. CASE Car!Named(currents) # {}
  <2> DEFINE h == IF c.heard = Car!None THEN Car!None ELSE age
  <2>1. d = [c EXCEPT !.limit = Car!Set(within), !.heard = h]
      BY <1>6 DEF Car!OnLimit, within
  <2>3. /\ Car!Set(within) \in [set : BOOLEAN, amps : Car!Currents]
        /\ Car!Set(within).set /\ Car!Set(within).amps = within
      BY <1>3 DEF Car!Set
  <2>4. h \in {Car!None} \cup 0 .. CAR_TIMEOUT
      BY <1>1
  <2> HIDE DEF h, d
  <2>5. /\ d \in Cars /\ d.limit = Car!Set(within) /\ d.heard = h /\ d.failed = c.failed
        /\ d.source = c.source /\ d.unstored = c.unstored
      BY <2>1, <2>3, <2>4 DEF Cars
  <2>6. \A p \in Car!Named(currents) : within[p] = Car!Clamp(currents[p], Permitted)
      BY <1>2 DEF Car!Named
  <2> QED BY <1>1, <1>4, <2>3, <2>5, <2>6 DEF d, h
<1> QED BY <1>5, <1>6

\* Where a write ends up.
Follows(entries) ==
    [p \in PHASES |->
       IF p \in CarPhases THEN Car!ReadLimitWrite(Car!Resolved(entries))[p] ELSE Car!NoAmps]

LEMMA FollowsWrite ==
    ASSUME CarConstants, NEW entries \in Lists, data \in Lists
    PROVE  /\ Follows(entries) \in [PHASES -> Nat]
           /\ Car!Named(Follows(entries)) \subseteq CarPhases
           /\ \A p \in CarPhases :
                LimitId[p] \in DOMAIN entries /\ entries[LimitId[p]].active =>
                  Follows(entries)[p] = entries[LimitId[p]].value
<1> DEFINE all == Car!Resolved(entries)
<1>1. CarPhases \subseteq PHASES
    BY DEF CarConstants
<1>2. ASSUME NEW list \in Lists, NEW id \in DOMAIN list PROVE list[id].value \in Nat
    BY <1>2 DEF Lists, Limits
<1>3. /\ DOMAIN all = DOMAIN entries \cup DOMAIN data
      /\ \A id \in DOMAIN all : all[id] = IF id \in DOMAIN entries THEN entries[id] ELSE data[id]
    BY DEF Car!Resolved
<1> HIDE DEF all
<1>4. \A id \in DOMAIN all : all[id].value \in Nat
    BY <1>2, <1>3
<1>5. \A p \in PHASES :
        Follows(entries)[p]
          = IF p \in CarPhases /\ LimitId[p] \in DOMAIN all /\ all[LimitId[p]].active
            THEN all[LimitId[p]].value ELSE Car!NoAmps
    BY DEF Follows, Car!ReadLimitWrite, all
<1>6. Follows(entries) = [p \in PHASES |-> Follows(entries)[p]]
    BY DEF Follows
<1>7. \A p \in PHASES : Follows(entries)[p] \in Nat
    BY <1>4, <1>5 DEF Car!NoAmps
<1>8. Car!Named(Follows(entries)) \subseteq CarPhases
    BY <1>5 DEF Car!Named
<1>9. Follows(entries) \in [PHASES -> Nat]
    BY <1>6, <1>7
<1> QED BY <1>1, <1>3, <1>5, <1>8, <1>9

\* A change of source is published: Settle for a car whose limit stays.
LEMMA SettleFits ==
    ASSUME CarConstants, CarFits, data \in Lists, car \in Cars,
           NEW c \in Cars, c.limit = car.limit, c.source = car.source, c.behind = car.behind,
           car.heard # Car!None => c.heard # Car!None, Car!Settle(c)
    PROVE  /\ car' \in Cars /\ data' \in Lists /\ car'.limit = car.limit
           /\ car'.unstored = c.unstored /\ car'.heard = c.heard
           /\ Shown(car', data') /\ SourceFits(car')
<1> DEFINE d == Car!Settled(c)
<1>1. Car!Source(c) \in Sources
    BY DEF Car!Source, Sources
<1>2. /\ d \in Cars /\ d.limit = c.limit /\ d.heard = c.heard /\ d.failed = c.failed
      /\ d.unstored = c.unstored /\ d.source = Car!Source(c)
      /\ d.behind = (c.behind /\ Car!Source(c) = c.source)
    BY <1>1 DEF Car!Settled, Cars
<1> HIDE DEF d
<1>3. Car!Source(d) = Car!Source(c)
    BY <1>2 DEF Car!Source
<1>4. car' = d
    BY DEF Car!Settle, d
<1>5. SourceFits(d)
    BY <1>2, <1>3 DEF SourceFits
<1>6. CASE Car!Source(c) # c.source
  <2>1. data' = Car!Published(c)
      BY <1>6 DEF Car!Settle
  <2>2. Car!Published(c) \in Lists /\ Shown(c, Car!Published(c))
      BY PublishedShows DEF CarFits, Shown
  <2>3. Shown(d, Car!Published(c))
      BY <1>2, <1>3, <2>2, PublishedActive DEF Shown
  <2> QED BY <1>2, <1>4, <1>5, <2>1, <2>2, <2>3
<1>7. CASE Car!Source(c) = c.source
  <2>1. data' = data
      BY <1>7 DEF Car!Settle
  <2>2. Car!Source(car) = "Curtailed" => Car!Source(c) = "Curtailed"
    <3> SUFFICES ASSUME Car!Source(car) = "Curtailed" PROVE Car!Source(c) = "Curtailed"
        OBVIOUS
    <3>1. CASE car.source = Car!Source(car)
        BY <1>7, <3>1
    <3>2. CASE car.source = "NotYetCurtailed" /\ car.limit.set /\ car.heard # Car!None
        BY <1>7, <3>2 DEF Car!Source
    <3> QED BY <3>1, <3>2 DEF CarFits, SourceFits
  <2>3. ~car.behind /\ Car!Source(c) = "Curtailed" => Car!Source(car) = "Curtailed"
      BY <1>7 DEF CarFits, SourceFits
  <2>4. d.behind = car.behind
      BY <1>2, <1>7 DEF Cars
  <2>5. Shown(d, data)
      BY <1>2, <1>3, <2>2, <2>3, <2>4 DEF CarFits, Shown
  <2> QED BY <1>2, <1>4, <1>5, <2>1, <2>5
<1> QED BY <1>6, <1>7

\* A write that is taken leaves a source that fits.
LEMMA WriteKeepsSource ==
    ASSUME CarConstants, car \in Cars, age \in 0 .. CAR_TIMEOUT, CarFits,
           NEW d \in Cars, d.limit.set, d.failed = car.failed, d.source = car.source,
           car.heard = Car!None => d.heard \in {Car!None, 0},
           car.heard # Car!None => d.heard = age,
           Car!Source(d) = "GuardSilent" /\ car.source = "Curtailed" => d.behind
    PROVE  SourceFits(d)
<1>1. /\ SourceFits(car) /\ (car.heard = Car!None \/ car.heard <= age)
      /\ CAR_TIMEOUT \in Nat /\ age \in Nat /\ car.heard \in {Car!None} \cup Nat
      /\ Car!None = -1
    BY DEF CarFits, CarConstants, Cars, Car!None
<1>2. CASE car.heard = Car!None
  <2>1. Car!Source(car) \in {"GuardFailed", "NotYetCurtailed"}
      BY <1>2 DEF Car!Source
  <2>2. car.source = Car!Source(car)
      BY <1>1, <1>2, <2>1 DEF SourceFits
  <2>3. CASE car.failed
      BY <2>2, <2>3 DEF Car!Source, SourceFits
  <2>4. CASE ~car.failed /\ d.heard = Car!None
      BY <1>2, <2>2, <2>4 DEF Car!Source, SourceFits
  <2>5. CASE ~car.failed /\ d.heard # Car!None
      BY <1>2, <2>2, <2>5 DEF Car!Source, SourceFits
  <2> QED BY <2>3, <2>4, <2>5
<1>3. CASE car.heard # Car!None
  <2>1. d.heard = age /\ d.heard # Car!None /\ car.heard <= age /\ car.heard \in Nat
      BY <1>1, <1>3
  <2>2. CASE car.source = "NotYetCurtailed"
      BY <2>1, <2>2 DEF SourceFits
  <2>3. CASE car.source # "NotYetCurtailed" /\ car.failed
      BY <1>1, <2>1, <2>3 DEF Car!Source, SourceFits
  <2>4. CASE car.source # "NotYetCurtailed" /\ ~car.failed
    <3>1. Car!Source(d) = IF age >= CAR_TIMEOUT THEN "GuardSilent" ELSE "Curtailed"
        BY <2>1, <2>4 DEF Car!Source
    <3>2. Car!Source(car) = IF car.heard >= CAR_TIMEOUT THEN "GuardSilent"
                        ELSE IF car.limit.set THEN "Curtailed" ELSE "NotYetCurtailed"
        BY <1>3, <2>4 DEF Car!Source
    <3>3. car.source \in {"GuardSilent", "Curtailed"}
        BY <1>1, <2>4, <3>2 DEF SourceFits
    <3>4. car.source = "GuardSilent" => car.heard >= CAR_TIMEOUT
        BY <1>1, <2>4, <3>2 DEF SourceFits
    <3>5. CASE car.source = "GuardSilent"
        BY <1>1, <2>1, <3>1, <3>4, <3>5 DEF SourceFits
    <3>6. CASE car.source = "Curtailed"
        BY <3>1, <3>6 DEF SourceFits
    <3> QED BY <3>3, <3>5, <3>6
  <2> QED BY <2>2, <2>3, <2>4
<1> QED BY <1>2, <1>3

\* A write that is decided: a refusal changes nothing, and what is taken is published.
LEMMA DecideFits ==
    ASSUME CarConstants, EvTypes, CarFits, NEW stored \in BOOLEAN, Car!Decide(stored),
           toCar # <<>>, Head(toCar).kind = "write"
    PROVE  LET entries == Head(toCar).entries
               answer == [id |-> Head(toCar).id, ok |-> ~Car!Decided(car).refused /\ stored]
           IN  /\ car' \in Cars /\ data' \in Lists /\ age' \in 0 .. CAR_TIMEOUT
               /\ CarFits' /\ answer \in CarAnswers
               /\ Car!Decided(car).refused => car' = car
               /\ ~Car!Decided(car).refused =>
                    /\ car'.unstored = ~stored
                    /\ \A p \in CarPhases :
                         LimitId[p] \in DOMAIN entries /\ entries[LimitId[p]].active
                         /\ entries[LimitId[p]].value # Car!NoAmps =>
                           car'.limit.amps[p] = Car!Clamp(entries[LimitId[p]].value,
                           Permitted)
<1> DEFINE entries == Head(toCar).entries
           refused == Car!Decided(car).refused
           d == Car!OnLimit(car, Follows(entries))
           unknown == Car!Source(d) = "GuardSilent" /\ car.source = "Curtailed"
           n == [d EXCEPT !.unstored = ~stored, !.behind = unknown]
<1>1. /\ car \in Cars /\ data \in Lists /\ age \in 0 .. CAR_TIMEOUT
      /\ entries \in Lists /\ Head(toCar).id \in Nat /\ CAR_TIMEOUT \in Nat
      /\ CarPhases \subseteq PHASES
  <2>1. Head(toCar) \in CarOrders
      BY DEF EvTypes
  <2> QED BY <2>1 DEF EvTypes, CarOrders, CarConstants
<1>2. refused \in BOOLEAN
    BY DEF Car!Decided
<1>3. Car!Decided(car).car = d
    BY DEF Car!Decided, Follows
<1>4. /\ car' = IF refused THEN car ELSE n
      /\ data' = IF refused THEN data ELSE Car!Published(d)
      /\ age' = IF car'.heard = Car!None \/ car.heard # Car!None THEN age ELSE 0
    BY <1>3 DEF Car!Decide
<1> HIDE DEF refused
<1>5. [id |-> Head(toCar).id, ok |-> ~refused /\ stored] \in CarAnswers
    BY <1>1, <1>2 DEF CarAnswers
<1>6. CASE refused
  <2>1. car' = car /\ data' = data /\ age' = age
      BY <1>4, <1>6
  <2>2. CarFits'
      BY <2>1 DEF CarFits, Shown, SourceFits, Car!Source, Car!Named
  <2> QED BY <1>1, <1>5, <1>6, <2>1, <2>2 DEF refused
<1>7. CASE ~refused
  <2>1. /\ Follows(entries) \in [PHASES -> Nat] /\ Car!Named(Follows(entries)) \subseteq CarPhases
        /\ \A p \in CarPhases :
             LimitId[p] \in DOMAIN entries /\ entries[LimitId[p]].active =>
               Follows(entries)[p] = entries[LimitId[p]].value
    <3> HIDE DEF entries
    <3> QED BY <1>1, FollowsWrite
  <2> HIDE DEF entries
  <2>2. /\ d \in Cars /\ d.limit.set /\ d.failed = car.failed /\ d.source = car.source
        /\ car.heard = Car!None => d.heard \in {Car!None, 0}
        /\ car.heard # Car!None => d.heard = age
        /\ Car!Named(d.limit.amps) = Car!Named(Follows(entries))
        /\ \A p \in Car!Named(Follows(entries)) :
             d.limit.amps[p] = Car!Clamp(Follows(entries)[p], Permitted)
      BY <1>1, <2>1, LimitTaken
  <2> HIDE DEF d
  <2>3. /\ n \in Cars /\ n.limit = d.limit /\ n.failed = d.failed /\ n.source = d.source
        /\ n.heard = d.heard /\ n.unstored = ~stored /\ n.behind = unknown
    <3>1. unknown \in BOOLEAN
        OBVIOUS
    <3> HIDE DEF unknown
    <3> QED BY <2>2, <3>1 DEF Cars
  <2> HIDE DEF n
  <2>4. Car!Source(n) = Car!Source(d)
      BY <2>3 DEF Car!Source
  <2>5. car' = n /\ data' = Car!Published(d)
      BY <1>4, <1>7
  <2>6. Car!Published(d) \in Lists /\ Shown(d, Car!Published(d))
      BY <2>1, <2>2, PublishedShows
  <2>7. SourceFits(n)
      BY <1>1, <2>2, <2>3, <2>4, WriteKeepsSource
  <2>8. Shown(n, Car!Published(d))
      BY <2>1, <2>2, <2>3, <2>4, <2>6, PublishedActive DEF Shown
  <2>9. age' \in 0 .. CAR_TIMEOUT /\ (n.heard = Car!None \/ n.heard <= age')
      BY <1>1, <1>4, <2>2, <2>3, <2>5 DEF Car!None
  <2>10. CarFits'
      BY <2>5, <2>7, <2>8, <2>9 DEF CarFits, Shown, SourceFits, Car!Source, Car!Named
  <2>11. \A p \in CarPhases :
           LimitId[p] \in DOMAIN entries /\ entries[LimitId[p]].active
             /\ entries[LimitId[p]].value # Car!NoAmps =>
               n.limit.amps[p] = Car!Clamp(entries[LimitId[p]].value, Permitted)
      BY <1>1, <2>1, <2>2, <2>3 DEF Car!Named
  <2> QED BY <1>5, <1>7, <2>3, <2>5, <2>6, <2>9, <2>10, <2>11 DEF refused, entries
<1> QED BY <1>6, <1>7

-----------------------------------------------------------------------------
\* What is on its way. The first order is taken.
LEMMA FirstTaken ==
    ASSUME NEW orders \in Seq(CarOrders), orders # <<>>, NEW answers \in Seq(CarAnswers),
           NEW n \in Nat, NEW g, InOrder(orders, answers, n)
    PROVE  /\ Tail(orders) \in Seq(CarOrders) /\ InOrder(Tail(orders), answers, n)
           /\ CarriesAll(g, orders) => CarriesAll(g, Tail(orders))
           /\ AloneOrders(g, orders) => AloneOrders(g, Tail(orders))
           /\ Head(orders) = orders[1] /\ 1 \in DOMAIN orders
           /\ \A i \in DOMAIN Tail(orders) :
                Head(orders).kind = "write" /\ Tail(orders)[i].kind = "write" =>
                  Head(orders).id < Tail(orders)[i].id
<1> DEFINE rest == Tail(orders)
<1>1. /\ rest \in Seq(CarOrders) /\ Head(orders) = orders[1] /\ 1 \in DOMAIN orders
      /\ \A i \in DOMAIN rest : /\ i + 1 \in DOMAIN orders /\ rest[i] = orders[i + 1]
                                /\ i \in Nat /\ 1 < i + 1
    OBVIOUS
<1> HIDE DEF rest
<1>2. InOrder(rest, answers, n)
  <2>1. \A i, j \in DOMAIN rest : i < j => i + 1 < j + 1
      BY <1>1
  <2>2. \A i, j \in DOMAIN rest :
          i < j /\ rest[i].kind = "write" /\ rest[j].kind = "write" => rest[i].id < rest[j].id
      BY <1>1, <2>1 DEF InOrder
  <2> QED BY <1>1, <2>2 DEF InOrder
<1>3. CarriesAll(g, orders) => CarriesAll(g, rest)
    BY <1>1 DEF CarriesAll
<1>4. AloneOrders(g, orders) => AloneOrders(g, rest)
    BY <1>1 DEF AloneOrders
<1>5. \A i \in DOMAIN rest :
        orders[1].kind = "write" /\ rest[i].kind = "write" => orders[1].id < rest[i].id
    BY <1>1 DEF InOrder
<1> QED BY <1>1, <1>2, <1>3, <1>4, <1>5 DEF rest

\* A heartbeat or a state is sent.
LEMMA OtherSent ==
    ASSUME NEW orders \in Seq(CarOrders), NEW answers, NEW n, NEW g, NEW m \in CarOrders,
           m.kind # "write", InOrder(orders, answers, n)
    PROVE  /\ Append(orders, m) \in Seq(CarOrders) /\ InOrder(Append(orders, m), answers, n)
           /\ CarriesAll(g, orders) => CarriesAll(g, Append(orders, m))
           /\ AloneOrders(g, orders) => AloneOrders(g, Append(orders, m))
<1> DEFINE more == Append(orders, m)
<1>1. /\ more \in Seq(CarOrders)
      /\ \A i \in DOMAIN more : more[i].kind = "write" =>
           i \in DOMAIN orders /\ more[i] = orders[i]
    OBVIOUS
<1> HIDE DEF more
<1>2. InOrder(more, answers, n)
    BY <1>1 DEF InOrder
<1>3. CarriesAll(g, orders) => CarriesAll(g, more)
    BY <1>1 DEF CarriesAll
<1>4. AloneOrders(g, orders) => AloneOrders(g, more)
    BY <1>1 DEF AloneOrders
<1> QED BY <1>1, <1>2, <1>3, <1>4 DEF more

\* A write with the next number is sent.
LEMMA WriteSent ==
    ASSUME NEW orders \in Seq(CarOrders), NEW answers \in Seq(CarAnswers), NEW n \in Nat,
           NEW w \in CarOrders, w.kind = "write", w.id = n + 1, InOrder(orders, answers, n)
    PROVE  LET more == Append(orders, w) IN
           /\ more \in Seq(CarOrders) /\ InOrder(more, answers, n + 1)
           /\ \A i \in DOMAIN more : more[i].kind = "write" /\ more[i].id = n + 1 => more[i] = w
           /\ \A i \in DOMAIN more : more[i].kind = "write" /\ more[i].id # n + 1 =>
                i \in DOMAIN orders /\ more[i] = orders[i]
           /\ \A j \in DOMAIN answers : answers[j].id # n + 1
<1> DEFINE more == Append(orders, w)
           last == Len(orders) + 1
<1>1. /\ more \in Seq(CarOrders) /\ more[last] = w /\ last \in Nat
      /\ \A i \in DOMAIN more : i # last => i \in DOMAIN orders /\ more[i] = orders[i]
      /\ \A i \in DOMAIN more : i \in Nat /\ i <= last
      /\ \A i \in DOMAIN orders : i < last
    OBVIOUS
<1> HIDE DEF more, last
<1>2. \A i \in DOMAIN orders : orders[i].kind = "write" =>
        orders[i].id \in Nat /\ orders[i].id <= n /\ orders[i].id >= 1
  <2>1. \A i \in DOMAIN orders : orders[i] \in CarOrders
      OBVIOUS
  <2>2. \A m \in CarOrders : m.kind = "write" => m.id \in Nat
      BY DEF CarOrders
  <2> QED BY <2>1, <2>2 DEF InOrder
<1>3. \A j \in DOMAIN answers : answers[j].id \in Nat /\ answers[j].id <= n /\ answers[j].id >= 1
  <2>1. \A j \in DOMAIN answers : answers[j] \in CarAnswers
      OBVIOUS
  <2> QED BY <2>1 DEF InOrder, CarAnswers
<1>4. \A i \in DOMAIN more : more[i].kind = "write" => more[i].id >= 1 /\ more[i].id <= n + 1
    BY <1>1, <1>2
<1>5. \A i, j \in DOMAIN more :
        i < j /\ more[i].kind = "write" /\ more[j].kind = "write" => more[i].id < more[j].id
  <2> TAKE i, j \in DOMAIN more
  <2>1. CASE i < j /\ j = last /\ more[i].kind = "write"
    <3>1. i \in DOMAIN orders /\ more[i] = orders[i]
        BY <1>1, <2>1
    <3> QED BY <1>1, <1>2, <2>1, <3>1
  <2>2. CASE i < j /\ j # last
    <3>1. i # last
        BY <1>1, <2>2
    <3> QED BY <1>1, <2>2, <3>1 DEF InOrder
  <2> QED BY <2>1, <2>2
<1>6. \A i \in DOMAIN more, j \in DOMAIN answers :
        more[i].kind = "write" => answers[j].id < more[i].id
  <2> TAKE i \in DOMAIN more, j \in DOMAIN answers
  <2>1. CASE i = last
      BY <1>1, <1>3, <2>1
  <2>2. CASE i # last
      BY <1>1, <2>2 DEF InOrder
  <2> QED BY <2>1, <2>2
<1>7. \A j \in DOMAIN answers : answers[j].id >= 1 /\ answers[j].id <= n + 1 /\ answers[j].id # n + 1
    BY <1>3
<1>8. InOrder(more, answers, n + 1)
    BY <1>4, <1>5, <1>6, <1>7 DEF InOrder
<1>9. \A i \in DOMAIN more : more[i].kind = "write" /\ more[i].id = n + 1 => more[i] = w
    BY <1>1, <1>2
<1>10. \A i \in DOMAIN more : more[i].kind = "write" /\ more[i].id # n + 1 =>
                i \in DOMAIN orders /\ more[i] = orders[i]
    BY <1>1
<1> QED BY <1>1, <1>7, <1>8, <1>9, <1>10 DEF more

\* The write that is taken is answered under its number.
LEMMA AnswerSent ==
    ASSUME NEW orders \in Seq(CarOrders), NEW answers \in Seq(CarAnswers), NEW n \in Nat,
           orders # <<>>, Head(orders).kind = "write", NEW a \in CarAnswers,
           a.id = Head(orders).id, InOrder(orders, answers, n)
    PROVE  LET more == Append(answers, a) IN
           /\ more \in Seq(CarAnswers) /\ InOrder(Tail(orders), more, n)
           /\ a.id >= 1 /\ a.id <= n
           /\ \A j \in DOMAIN more : more[j] = a \/ \E i \in DOMAIN answers : more[j] = answers[i]
           /\ \A i \in DOMAIN answers : i \in DOMAIN more /\ more[i] = answers[i]
           /\ \A i \in DOMAIN answers : answers[i].id < a.id
           /\ \E j \in DOMAIN more : more[j] = a
<1> DEFINE more == Append(answers, a)
           last == Len(answers) + 1
           rest == Tail(orders)
<1>1. /\ more \in Seq(CarAnswers) /\ more[last] = a /\ last \in DOMAIN more /\ last \in Nat
      /\ \A j \in DOMAIN more : j # last => j \in DOMAIN answers /\ more[j] = answers[j]
      /\ \A j \in DOMAIN more : j \in Nat /\ j <= last
      /\ \A j \in DOMAIN answers : j < last /\ j \in DOMAIN more /\ more[j] = answers[j]
    OBVIOUS
<1>2. /\ InOrder(rest, answers, n) /\ Head(orders) = orders[1] /\ 1 \in DOMAIN orders
      /\ \A i \in DOMAIN rest : rest[i].kind = "write" => a.id < rest[i].id
    BY FirstTaken
<1> HIDE DEF more, last, rest
<1>3. a.id >= 1 /\ a.id <= n /\ \A j \in DOMAIN answers : answers[j].id < a.id
    BY <1>2 DEF InOrder
<1>4. \A i, j \in DOMAIN more : i < j => more[i].id < more[j].id
  <2> TAKE i, j \in DOMAIN more
  <2>1. CASE i < j /\ j = last
    <3>1. i \in DOMAIN answers /\ more[i] = answers[i]
        BY <1>1, <2>1
    <3> QED BY <1>1, <1>3, <2>1, <3>1
  <2>2. CASE i < j /\ j # last
    <3>1. i # last
        BY <1>1, <2>2
    <3> QED BY <1>1, <1>2, <2>2, <3>1 DEF InOrder
  <2> QED BY <2>1, <2>2
<1>5. \A j \in DOMAIN more : more[j] = a \/ \E i \in DOMAIN answers : more[j] = answers[i]
    BY <1>1
<1>6. \A i \in DOMAIN rest, j \in DOMAIN more :
        rest[i].kind = "write" => more[j].id < rest[i].id
    BY <1>2, <1>5 DEF InOrder
<1>7. InOrder(rest, more, n)
    BY <1>2, <1>3, <1>4, <1>5, <1>6 DEF InOrder
<1> QED BY <1>1, <1>3, <1>5, <1>7 DEF more, rest

\* The first answer is taken.
LEMMA AnswerTaken ==
    ASSUME NEW orders, NEW answers \in Seq(CarAnswers), answers # <<>>, NEW n,
           InOrder(orders, answers, n)
    PROVE  LET rest == Tail(answers) IN
           /\ rest \in Seq(CarAnswers) /\ InOrder(orders, rest, n)
           /\ Head(answers) \in CarAnswers /\ Head(answers).id >= 1 /\ Head(answers).id <= n
           /\ \A j \in DOMAIN answers :
                answers[j] = Head(answers) \/ \E i \in DOMAIN rest : rest[i] = answers[j]
           /\ \A j \in DOMAIN rest : \E i \in DOMAIN answers : rest[j] = answers[i]
           /\ \A j \in DOMAIN rest : Head(answers).id < rest[j].id /\ rest[j].id <= n
           /\ \A i \in DOMAIN orders : orders[i].kind = "write" =>
                Head(answers).id < orders[i].id /\ orders[i].id <= n
           /\ \E j \in DOMAIN answers : answers[j] = Head(answers)
<1> DEFINE rest == Tail(answers)
<1>1. /\ rest \in Seq(CarAnswers) /\ Head(answers) = answers[1] /\ 1 \in DOMAIN answers
      /\ \A j \in DOMAIN rest : /\ j + 1 \in DOMAIN answers /\ rest[j] = answers[j + 1]
                                /\ j \in Nat /\ 1 < j + 1
      /\ \A j \in DOMAIN answers : j # 1 => j - 1 \in DOMAIN rest /\ rest[j - 1] = answers[j]
      /\ answers[1] \in CarAnswers
    OBVIOUS
<1> HIDE DEF rest
<1>2. \A i, j \in DOMAIN rest : i < j => rest[i].id < rest[j].id
  <2>1. \A i, j \in DOMAIN rest : i < j => i + 1 < j + 1
      BY <1>1
  <2> QED BY <1>1, <2>1 DEF InOrder
<1>3. InOrder(orders, rest, n)
    BY <1>1, <1>2 DEF InOrder
<1>4. \A j \in DOMAIN rest : answers[1].id < rest[j].id /\ rest[j].id <= n
    BY <1>1 DEF InOrder
<1>5. \A i \in DOMAIN orders : orders[i].kind = "write" =>
                answers[1].id < orders[i].id /\ orders[i].id <= n
    BY <1>1 DEF InOrder
<1>6. answers[1].id >= 1 /\ answers[1].id <= n
    BY <1>1 DEF InOrder
<1>7. /\ \A j \in DOMAIN answers :
           answers[j] = answers[1] \/ \E i \in DOMAIN rest : rest[i] = answers[j]
      /\ \A j \in DOMAIN rest : \E i \in DOMAIN answers : rest[j] = answers[i]
    BY <1>1
<1> QED BY <1>1, <1>3, <1>4, <1>5, <1>6, <1>7 DEF rest

-----------------------------------------------------------------------------
\* The guard's side. All it has said is carried, held or confirmed.
Agreed(g, limit, unstored, orders, answers, n) ==
    /\ g \in CarGuards /\ orders \in Seq(CarOrders) /\ answers \in Seq(CarAnswers)
    /\ n \in 0 .. MaxWrites
    /\ InOrder(orders, answers, n) /\ GuardFits(g, limit, unstored, orders, answers, n)

\* What does not concern the writes.
LEMMA SameWrites ==
    ASSUME NEW g, NEW h \in CarGuards, NEW limit, NEW unstored, NEW orders, NEW answers, NEW n,
           Agreed(g, limit, unstored, orders, answers, n),
           h.outstanding = g.outstanding, h.asking = g.asking, h.applied = g.applied,
           h.missed = g.missed
    PROVE  Agreed(h, limit, unstored, orders, answers, n)
BY DEF Agreed, GuardFits, CarriesAll, AloneOrders, AloneAnswers, Confirmed

LEMMA OtherAgreed ==
    ASSUME NEW g, NEW limit, NEW unstored, NEW orders, NEW answers, NEW n,
           Agreed(g, limit, unstored, orders, answers, n), NEW m \in CarOrders,
           m.kind # "write"
    PROVE  Agreed(g, limit, unstored, Append(orders, m), answers, n)
<1>1. orders \in Seq(CarOrders) /\ InOrder(orders, answers, n)
    BY DEF Agreed
<1>2. /\ Append(orders, m) \in Seq(CarOrders) /\ InOrder(Append(orders, m), answers, n)
      /\ CarriesAll(g, orders) => CarriesAll(g, Append(orders, m))
      /\ AloneOrders(g, orders) => AloneOrders(g, Append(orders, m))
    BY <1>1, OtherSent
<1> QED BY <1>2 DEF Agreed, GuardFits

LEMMA TakenAgreed ==
    ASSUME CarConstants, NEW g, NEW limit, NEW unstored, NEW orders, NEW answers, NEW n,
           Agreed(g, limit, unstored, orders, answers, n), orders # <<>>
    PROVE  Agreed(g, limit, unstored, Tail(orders), answers, n)
<1>1. /\ orders \in Seq(CarOrders) /\ answers \in Seq(CarAnswers) /\ InOrder(orders, answers, n)
      /\ n \in Nat
    BY DEF Agreed, CarConstants
<1>2. /\ Tail(orders) \in Seq(CarOrders) /\ InOrder(Tail(orders), answers, n)
      /\ CarriesAll(g, orders) => CarriesAll(g, Tail(orders))
      /\ AloneOrders(g, orders) => AloneOrders(g, Tail(orders))
    BY <1>1, FirstTaken
<1> QED BY <1>2 DEF Agreed, GuardFits

\* write_if_due.
LEMMA WriteIfDueAgrees ==
    ASSUME CarConstants, NEW g, NEW limit, NEW unstored, NEW messages,
           messages \in {<<>>, <<[kind |-> "beat"]>>},
           Agreed(g, limit, unstored, toCar, toGuard, sent), Car!WriteIfDue(g, messages)
    PROVE  Agreed(guard', limit, unstored, toCar', toGuard, sent')
<1> DEFINE orders == toCar \o messages
<1>1. /\ g \in CarGuards /\ toCar \in Seq(CarOrders) /\ toGuard \in Seq(CarAnswers) /\ sent \in Nat
      /\ sent <= MaxWrites /\ MaxWrites \in Nat
    BY DEF Agreed, CarConstants
<1>2. Agreed(g, limit, unstored, orders, toGuard, sent)
  <2>1. CASE messages = <<>>
    <3>1. orders = toCar
        BY <1>1, <2>1
    <3> QED BY <3>1
  <2>2. CASE messages = <<[kind |-> "beat"]>>
    <3> DEFINE m == [kind |-> "beat"]
    <3>1. m \in CarOrders /\ m.kind # "write"
        BY DEF CarOrders
    <3>2. orders = Append(toCar, m)
        BY <1>1, <2>2, <3>1, AppendIsConcat
    <3> HIDE DEF m
    <3> QED BY <3>1, <3>2, OtherAgreed
  <2> QED BY <2>1, <2>2
<1> HIDE DEF orders
<1>3. CASE ~Car!Due(g) \/ sent = MaxWrites
  <2>1. guard' = g /\ toCar' = orders /\ sent' = sent
      BY <1>3 DEF Car!WriteIfDue, orders
  <2> QED BY <1>2, <2>1
<1>4. CASE Car!Due(g) /\ sent # MaxWrites
  <2> DEFINE n == sent + 1
             w == [kind |-> "write", id |-> n, entries |-> Car!Payload(g)]
             a == Car!Set(Car!Asked(g))
             h == [g EXCEPT !.outstanding = n, !.asking = a]
             more == Append(orders, w)
  <2>1. /\ Car!Payload(g) \in Lists /\ Car!Asked(g) \in [PHASES -> Nat]
        /\ Carries(Car!Payload(g), Car!Set(Car!Asked(g)))
      BY <1>1, <1>4, PayloadCarries, AskedTyped
  <2>2. w \in CarOrders /\ w.kind = "write" /\ w.id = n /\ w.entries = Car!Payload(g)
      BY <1>1, <2>1 DEF CarOrders
  <2>3. /\ h \in CarGuards /\ h.outstanding = n /\ h.asking = a
        /\ h.applied = g.applied /\ h.missed = g.missed
    <3>1. a \in Wanted /\ n \in Nat
        BY <1>1, <2>1 DEF Car!Set, Wanted
    <3> HIDE DEF a, n, w, more
    <3>2. g \in CarGuards
        BY <1>1
    <3>3. h \in CarGuards
        BY ONLY <3>1, <3>2 DEF CarGuards
    <3>4. h.outstanding = n /\ h.asking = a /\ h.applied = g.applied /\ h.missed = g.missed
        BY ONLY <3>1, <3>2 DEF CarGuards
    <3> QED BY <3>3, <3>4
  <2>4. sent' = n /\ guard' = h /\ toCar' = orders \o <<w>>
      BY <1>4 DEF Car!WriteIfDue, orders
  <2> HIDE DEF w, h
  <2>5. orders \in Seq(CarOrders) /\ InOrder(orders, toGuard, sent) /\ g.outstanding = 0
      BY <1>2, <1>4 DEF Agreed, Car!Due
  <2>6. toCar' = more
      BY <2>2, <2>4, <2>5, AppendIsConcat
  <2>7. /\ more \in Seq(CarOrders) /\ InOrder(more, toGuard, n)
        /\ \A i \in DOMAIN more : more[i].kind = "write" /\ more[i].id = n => more[i] = w
        /\ \A i \in DOMAIN more : more[i].kind = "write" /\ more[i].id # n =>
             i \in DOMAIN orders /\ more[i] = orders[i]
        /\ \A j \in DOMAIN toGuard : toGuard[j].id # n
      BY <1>1, <2>2, <2>5, WriteSent
  <2> HIDE DEF more
  <2>8. CarriesAll(h, more)
      BY <2>1, <2>2, <2>3, <2>7 DEF CarriesAll
  <2>9. ~Confirmed(h, toGuard)
      BY <2>3, <2>7 DEF Confirmed
  <2>10. GuardFits(g, limit, unstored, orders, toGuard, sent)
      BY <1>2 DEF Agreed
  <2>11. ASSUME ~g.missed
         PROVE  /\ AloneOrders(h, more) /\ AloneAnswers(h, toGuard)
                /\ g.applied.set /\ ~unstored => Holds(limit, g.applied)
    <3>1. \A i \in DOMAIN orders : orders[i].kind # "write"
        BY <2>5, <2>10, <2>11 DEF GuardFits, AloneOrders, InOrder
    <3>2. \A j \in DOMAIN toGuard : FALSE
        BY <2>5, <2>10, <2>11 DEF GuardFits, AloneAnswers, InOrder
    <3>3. AloneOrders(h, more)
        BY <2>3, <2>7, <3>1 DEF AloneOrders
    <3>4. AloneAnswers(h, toGuard)
        BY <3>2 DEF AloneAnswers
    <3>5. ~Confirmed(g, toGuard)
        BY <3>2 DEF Confirmed
    <3> QED BY <2>10, <2>11, <3>3, <3>4, <3>5 DEF GuardFits
  <2>12. GuardFits(h, limit, unstored, more, toGuard, n)
      BY <2>3, <2>8, <2>9, <2>11 DEF GuardFits
  <2>13. n \in 0 .. MaxWrites
      BY <1>1, <1>4
  <2> QED BY <1>1, <2>3, <2>4, <2>6, <2>7, <2>12, <2>13 DEF Agreed
<1> QED BY <1>3, <1>4

\* report_ready.
LEMMA ReportReadyAgrees ==
    ASSUME CarConstants, NEW g, NEW limit, NEW unstored,
           Agreed(g, limit, unstored, toCar, toGuard, sent), Car!ReportReady(g)
    PROVE  Agreed(guard', limit, unstored, toCar', toGuard, sent')
<1> DEFINE h == [g EXCEPT !.ready = TRUE]
<1>1. g \in CarGuards
    BY DEF Agreed
<1>2. /\ h \in CarGuards /\ h.outstanding = g.outstanding /\ h.asking = g.asking
      /\ h.applied = g.applied /\ h.missed = g.missed
    BY <1>1 DEF CarGuards
<1>3. Car!WriteIfDue(h, <<>>) \/ (guard' = g /\ toCar' = toCar /\ sent' = sent)
    BY DEF Car!ReportReady
<1> HIDE DEF h
<1>4. Agreed(h, limit, unstored, toCar, toGuard, sent)
    BY <1>2, SameWrites
<1>5. CASE Car!WriteIfDue(h, <<>>)
    BY <1>4, <1>5, WriteIfDueAgrees
<1>6. CASE guard' = g /\ toCar' = toCar /\ sent' = sent
    BY <1>6
<1> QED BY <1>3, <1>5, <1>6

\* A write is answered.
LEMMA AnswerAgrees ==
    ASSUME CarConstants, EvTypes, CarFits, NEW stored \in BOOLEAN, Car!Decide(stored),
           toCar # <<>>, Head(toCar).kind = "write",
           Agreed(guard, car.limit, car.unstored, toCar, toGuard, sent)
    PROVE  Agreed(guard, car'.limit, car'.unstored, toCar', toGuard', sent)
<1> DEFINE entries == Head(toCar).entries
           refused == Car!Decided(car).refused
           a == [id |-> Head(toCar).id, ok |-> ~refused /\ stored]
           more == Append(toGuard, a)
           rest == Tail(toCar)
           g == guard
<1>1. /\ toCar' = rest /\ toGuard' = more
    BY DEF Car!Decide
<1>2. /\ a \in CarAnswers /\ car' \in Cars
      /\ refused => car' = car
      /\ ~refused =>
           /\ car'.unstored = ~stored
           /\ \A p \in CarPhases :
                LimitId[p] \in DOMAIN entries /\ entries[LimitId[p]].active
                /\ entries[LimitId[p]].value # Car!NoAmps =>
                  car'.limit.amps[p] = Car!Clamp(entries[LimitId[p]].value, Permitted)
    BY DecideFits
<1>3. /\ toCar \in Seq(CarOrders) /\ toGuard \in Seq(CarAnswers) /\ sent \in Nat
      /\ sent \in 0 .. MaxWrites /\ g \in CarGuards
      /\ InOrder(toCar, toGuard, sent) /\ refused \in BOOLEAN
      /\ GuardFits(g, car.limit, car.unstored, toCar, toGuard, sent)
  <2>1. refused \in BOOLEAN
      BY DEF Car!Decided
  <2> QED BY <2>1 DEF Agreed, CarConstants
<1> HIDE DEF refused, entries
<1>4. a.id = Head(toCar).id /\ a.ok = (~refused /\ stored)
    OBVIOUS
<1> HIDE DEF a
<1>5. /\ more \in Seq(CarAnswers) /\ InOrder(rest, more, sent)
      /\ a.id >= 1 /\ a.id <= sent /\ a.id \in Nat
      /\ \A j \in DOMAIN more : more[j] = a \/ \E i \in DOMAIN toGuard : more[j] = toGuard[i]
      /\ \A i \in DOMAIN toGuard : i \in DOMAIN more /\ more[i] = toGuard[i]
      /\ \A i \in DOMAIN toGuard : toGuard[i].id < a.id
      /\ \E j \in DOMAIN more : more[j] = a
  <2>1. a.id \in Nat /\ a \in CarAnswers /\ a.id = Head(toCar).id
      BY <1>2, <1>4 DEF CarAnswers
  <2>2. /\ toCar \in Seq(CarOrders) /\ toGuard \in Seq(CarAnswers) /\ sent \in Nat
        /\ toCar # <<>> /\ Head(toCar).kind = "write" /\ InOrder(toCar, toGuard, sent)
      BY <1>3
  <2> QED BY ONLY <2>1, <2>2, AnswerSent
<1>6. /\ rest \in Seq(CarOrders)
      /\ CarriesAll(g, toCar) => CarriesAll(g, rest)
      /\ AloneOrders(g, toCar) => AloneOrders(g, rest)
      /\ Head(toCar) = toCar[1] /\ 1 \in DOMAIN toCar
    BY <1>3, FirstTaken
<1> HIDE DEF more, rest, g
<1>7. g.outstanding \in {0, sent} /\ CarriesAll(g, rest)
    BY <1>3, <1>6 DEF GuardFits
<1>8. ~(Confirmed(g, toGuard) /\ g.outstanding # 0)
  <2> SUFFICES ASSUME NEW j \in DOMAIN toGuard, toGuard[j].id = g.outstanding, g.outstanding # 0
               PROVE  FALSE
      BY DEF Confirmed
  <2>1. g.outstanding = sent /\ sent < a.id
      BY <1>5, <1>7
  <2> QED BY <1>3, <1>5, <2>1
<1>9. ~Confirmed(g, toGuard)
  <2>1. \A j \in DOMAIN toGuard : toGuard[j].id # 0
      BY <1>3 DEF InOrder
  <2> QED BY <1>8, <2>1 DEF Confirmed
<1>10. Confirmed(g, more) => a.id = g.outstanding /\ a.ok
    BY <1>5, <1>9 DEF Confirmed
<1>11. a.id = g.outstanding /\ a.ok => Confirmed(g, more)
    BY <1>5 DEF Confirmed
<1>12. ASSUME Confirmed(g, more)
       PROVE  ~car'.unstored /\ Holds(car'.limit, g.asking)
  <2>1. ~refused /\ stored /\ a.id = g.outstanding
      BY <1>3, <1>4, <1>10, <1>12
  <2>2. Carries(entries, g.asking)
      BY <1>3, <1>4, <1>6, <2>1 DEF GuardFits, CarriesAll, entries
  <2>3. ASSUME NEW p \in Car!Named(g.asking.amps) \cap CarPhases
        PROVE  car'.limit.amps[p] = Car!Clamp(g.asking.amps[p], Permitted)
    <3>1. /\ LimitId[p] \in DOMAIN entries
          /\ entries[LimitId[p]] = [active |-> TRUE, value |-> g.asking.amps[p]]
        BY <2>2 DEF Carries
    <3>2. entries[LimitId[p]].active /\ entries[LimitId[p]].value = g.asking.amps[p]
        BY <3>1
    <3>3. g.asking.amps[p] # Car!NoAmps
        BY DEF Car!Named
    <3> QED BY <1>2, <2>1, <3>1, <3>2, <3>3
  <2> QED BY <1>2, <2>1, <2>3 DEF Holds
<1>13. ASSUME ~g.missed
       PROVE  /\ AloneOrders(g, rest) /\ AloneAnswers(g, more)
              /\ g.applied.set /\ ~car'.unstored /\ ~Confirmed(g, more) =>
                   Holds(car'.limit, g.applied)
  <2>1. AloneOrders(g, toCar) /\ AloneAnswers(g, toGuard)
      BY <1>3, <1>13 DEF GuardFits
  <2>2. a.id = g.outstanding
      BY <1>4, <1>6, <2>1 DEF AloneOrders
  <2>3. AloneAnswers(g, more)
      BY <1>5, <2>1, <2>2 DEF AloneAnswers
  <2>4. ASSUME g.applied.set, ~car'.unstored, ~Confirmed(g, more)
        PROVE  Holds(car'.limit, g.applied)
    <3>1. refused
        BY <1>2, <1>3, <1>4, <1>11, <2>2, <2>4
    <3>2. car' = car
        BY <1>2, <3>1
    <3> QED BY <1>3, <1>9, <1>13, <2>4, <3>2 DEF GuardFits
  <2> QED BY <1>6, <2>1, <2>3, <2>4
<1>14. GuardFits(g, car'.limit, car'.unstored, rest, more, sent)
    BY <1>7, <1>12, <1>13 DEF GuardFits
<1> QED BY <1>1, <1>3, <1>5, <1>6, <1>14 DEF Agreed, g

\* An answer arrives.
LEMMA ResolveAgrees ==
    ASSUME CarConstants, NEW limit, NEW unstored,
           Agreed(guard, limit, unstored, toCar, toGuard, sent), Car!Resolve
    PROVE  Agreed(guard', limit, unstored, toCar, toGuard', sent)
<1> DEFINE g == guard
           a == Head(toGuard)
           rest == Tail(toGuard)
<1>1. toGuard # <<>> /\ toGuard' = rest
    BY DEF Car!Resolve
<1>2. /\ toCar \in Seq(CarOrders) /\ toGuard \in Seq(CarAnswers) /\ sent \in Nat
      /\ sent \in 0 .. MaxWrites /\ g \in CarGuards /\ InOrder(toCar, toGuard, sent)
      /\ GuardFits(g, limit, unstored, toCar, toGuard, sent)
    BY DEF Agreed, CarConstants
<1>3. /\ rest \in Seq(CarAnswers) /\ InOrder(toCar, rest, sent)
      /\ a \in CarAnswers /\ a.id >= 1 /\ a.id <= sent
      /\ \A j \in DOMAIN toGuard : toGuard[j] = a \/ \E i \in DOMAIN rest : rest[i] = toGuard[j]
      /\ \A j \in DOMAIN rest : \E i \in DOMAIN toGuard : rest[j] = toGuard[i]
      /\ \A j \in DOMAIN rest : a.id < rest[j].id /\ rest[j].id <= sent
      /\ \A i \in DOMAIN toCar : toCar[i].kind = "write" =>
           a.id < toCar[i].id /\ toCar[i].id <= sent
      /\ \E j \in DOMAIN toGuard : toGuard[j] = a
    BY <1>1, <1>2, AnswerTaken
<1>4. guard' = IF a.id # g.outstanding THEN g
               ELSE [g EXCEPT !.outstanding = 0, !.asking = Car!Unset,
                              !.applied = IF a.ok THEN g.asking ELSE g.applied,
                              !.missed = g.missed /\ ~a.ok]
    BY DEF Car!Resolve
<1>5. a.id \in Nat /\ a.ok \in BOOLEAN
    BY <1>3 DEF CarAnswers
<1> HIDE DEF g, a, rest
<1>6. CASE a.id # g.outstanding
  <2>1. guard' = g
      BY <1>4, <1>6
  <2>2. Confirmed(g, rest) => Confirmed(g, toGuard)
      BY <1>3 DEF Confirmed
  <2>3. Confirmed(g, toGuard) => Confirmed(g, rest)
      BY <1>3, <1>6 DEF Confirmed
  <2>4. AloneAnswers(g, toGuard) => AloneAnswers(g, rest)
      BY <1>3 DEF AloneAnswers
  <2>5. GuardFits(g, limit, unstored, toCar, rest, sent)
      BY <1>2, <2>2, <2>3, <2>4 DEF GuardFits
  <2> QED BY <1>1, <1>2, <1>3, <2>1, <2>5 DEF Agreed
<1>7. CASE a.id = g.outstanding
  <2> DEFINE u == Car!Unset
             b == IF a.ok THEN g.asking ELSE g.applied
             m == (g.missed /\ ~a.ok)
             h == [g EXCEPT !.outstanding = 0, !.asking = u, !.applied = b, !.missed = m]
  <2>1. guard' = h
      BY <1>4, <1>7
  <2>2. u \in Wanted /\ b \in Wanted /\ m \in BOOLEAN
    <3>1. u \in Wanted
        BY DEF Car!Unset, Wanted, Car!NoAmps
    <3> QED BY <1>2, <1>5, <3>1 DEF CarGuards
  <2>3. g \in CarGuards
      BY <1>2
  <2> HIDE DEF u, b, m
  <2>4. h \in CarGuards /\ h.outstanding = 0 /\ h.applied = b /\ h.missed = m
      BY ONLY <2>2, <2>3 DEF CarGuards
  <2> HIDE DEF h
  <2>5. a.id = sent
      BY <1>2, <1>3, <1>7 DEF GuardFits
  <2>6. rest = <<>> /\ \A j \in DOMAIN rest : FALSE
    <3>1. ASSUME NEW j \in DOMAIN rest PROVE FALSE
      <4>1. rest[j].id \in Nat
        <5>1. rest \in Seq(CarAnswers)
            BY <1>3
        <5>2. rest[j] \in CarAnswers
            BY ONLY <3>1, <5>1
        <5> QED BY <5>2 DEF CarAnswers
      <4>2. a.id < rest[j].id /\ rest[j].id <= sent
          BY <1>3, <3>1
      <4> QED BY ONLY <1>5, <2>5, <4>1, <4>2
    <3> QED BY <1>3, <3>1
  <2>7. \A i \in DOMAIN toCar : toCar[i].kind # "write"
    <3> SUFFICES ASSUME NEW i \in DOMAIN toCar, toCar[i].kind = "write" PROVE FALSE
        OBVIOUS
    <3>1. toCar[i] \in CarOrders
        BY <1>2
    <3>2. toCar[i].id \in Nat
        BY <3>1 DEF CarOrders
    <3> QED BY <1>2, <1>3, <1>5, <2>5, <3>2
  <2>8. CarriesAll(h, toCar) /\ AloneOrders(h, toCar)
      BY <2>7 DEF CarriesAll, AloneOrders
  <2>9. ~Confirmed(h, rest) /\ AloneAnswers(h, rest)
      BY <2>6 DEF Confirmed, AloneAnswers
  <2>10. ASSUME b.set, ~unstored, ~m PROVE Holds(limit, b)
    <3>1. CASE a.ok
      <4>1. Confirmed(g, toGuard)
          BY <1>3, <1>7, <3>1 DEF Confirmed
      <4> QED BY <1>2, <3>1, <4>1 DEF GuardFits, b
    <3>2. CASE ~a.ok
      <4>1. ~Confirmed(g, toGuard)
          BY <1>3, <2>6, <3>2 DEF Confirmed
      <4>2. ~g.missed /\ b = g.applied
          BY <2>10, <3>2 DEF m, b
      <4> QED BY <1>2, <2>10, <4>1, <4>2 DEF GuardFits
    <3> QED BY <3>1, <3>2
  <2>11. GuardFits(h, limit, unstored, toCar, rest, sent)
      BY <2>4, <2>8, <2>9, <2>10 DEF GuardFits
  <2> QED BY <1>1, <1>2, <1>3, <2>1, <2>4, <2>11 DEF Agreed
<1> QED BY <1>6, <1>7

\* A write is given up.
LEMMA GiveUpAgrees ==
    ASSUME CarConstants, NEW limit, NEW unstored,
           Agreed(guard, limit, unstored, toCar, toGuard, sent), Car!GiveUp
    PROVE  Agreed(guard', limit, unstored, toCar', toGuard, sent')
<1> DEFINE u == Car!Unset
           h == [guard EXCEPT !.outstanding = 0, !.asking = u, !.missed = TRUE]
<1>1. Car!WriteIfDue(h, <<>>)
    BY DEF Car!GiveUp
<1>2. guard \in CarGuards /\ u \in Wanted
    BY DEF Agreed, Car!Unset, Wanted, Car!NoAmps
<1> HIDE DEF u
<1>3. h \in CarGuards /\ h.outstanding = 0 /\ h.missed
    BY ONLY <1>2 DEF CarGuards
<1> HIDE DEF h
<1>4. InOrder(toCar, toGuard, sent)
    BY DEF Agreed
<1>5. CarriesAll(h, toCar) /\ ~Confirmed(h, toGuard)
    BY <1>3, <1>4 DEF CarriesAll, Confirmed, InOrder
<1>6. Agreed(h, limit, unstored, toCar, toGuard, sent)
    BY <1>3, <1>5 DEF Agreed, GuardFits
<1> QED BY <1>1, <1>6, WriteIfDueAgrees

-----------------------------------------------------------------------------
\* Each side's part of the invariant.
CarSide == car \in Cars /\ data \in Lists /\ age \in 0 .. CAR_TIMEOUT /\ CarFits
GuardSide == Agreed(guard, car.limit, car.unstored, toCar, toGuard, sent)

EvIInv == CarSide /\ GuardSide /\ asked \subseteq {"bind"} \cup Car!Everything

LEMMA EvInitAgrees == ASSUME CarConstants PROVE Car!EvInit => EvIInv
<1> SUFFICES ASSUME Car!EvInit PROVE EvIInv
    OBVIOUS
<1>1. /\ Car!Unset \in Wanted /\ Car!Unset \in [set : BOOLEAN, amps : Car!Currents] /\ ~Car!Unset.set
      /\ Car!Named(Car!Unset.amps) = {}
    BY DEF Car!Unset, Wanted, Car!Currents, Car!NoAmps, Car!Named
<1>2. /\ car \in Cars /\ car.limit = Car!Unset /\ car.heard = Car!None /\ ~car.failed
      /\ car.source = "NotYetCurtailed" /\ ~car.unstored /\ ~car.behind
    BY <1>1 DEF Car!EvInit, Cars, Sources
<1>3. /\ data \in Lists /\ \A id \in DOMAIN data : ~data[id].active
    BY DeactivatedSays DEF Car!EvInit, CarConstants
<1>4. CarFits
  <2>1. Shown(car, data)
      BY <1>1, <1>2, <1>3 DEF Shown
  <2>2. SourceFits(car)
      BY <1>2 DEF SourceFits, Car!Source
  <2> QED BY <1>2, <2>1, <2>2 DEF CarFits
<1>5. CarSide
    BY <1>2, <1>3, <1>4 DEF CarSide, Car!EvInit, CarConstants
<1>6. guard \in CarGuards /\ guard.outstanding = 0 /\ ~guard.applied.set
    BY <1>1 DEF Car!EvInit, Car!NewGuard, CarGuards, Car!Everything
<1>7. Agreed(guard, car.limit, car.unstored, <<>>, <<>>, 0)
    BY <1>6 DEF Agreed, InOrder, GuardFits, CarriesAll, AloneOrders, AloneAnswers, Confirmed,
                CarConstants
<1>8. GuardSide
    BY <1>7 DEF GuardSide, Car!EvInit
<1> QED BY <1>5, <1>8 DEF EvIInv, Car!EvInit, Car!Everything

\* A step in which the car settles and takes at most the first order.
LEMMA CarStep ==
    ASSUME CarConstants, EvIInv, NEW c \in Cars, Car!Settle(c), c.limit = car.limit,
           c.source = car.source, c.unstored = car.unstored, c.behind = car.behind,
           car.heard # Car!None => c.heard # Car!None,
           age' \in 0 .. CAR_TIMEOUT, c.heard = Car!None \/ c.heard <= age',
           toCar' = toCar \/ (toCar # <<>> /\ toCar' = Tail(toCar)),
           UNCHANGED <<guard, asked, toGuard, sent>>
    PROVE  EvIInv'
<1>1. CarSide /\ GuardSide /\ asked \subseteq {"bind"} \cup Car!Everything
    BY DEF EvIInv
<1>2. /\ car' \in Cars /\ data' \in Lists /\ car'.limit = car.limit
      /\ car'.unstored = c.unstored /\ car'.heard = c.heard
      /\ Shown(car', data') /\ SourceFits(car')
    BY <1>1, SettleFits DEF CarSide
<1>3. CarFits'
    BY <1>2 DEF CarFits, Shown, SourceFits, Car!Source, Car!Named
<1>4. CarSide'
    BY <1>2, <1>3 DEF CarSide
<1>5. Agreed(guard, car.limit, car.unstored, toCar', toGuard, sent)
    BY <1>1, TakenAgreed DEF GuardSide
<1>6. GuardSide'
    BY <1>2, <1>5 DEF GuardSide
<1>7. (asked \subseteq {"bind"} \cup Car!Everything)'
    BY <1>1 DEF Car!Everything
<1> QED BY <1>4, <1>6, <1>7 DEF EvIInv

\* A step of the guard alone.
LEMMA GuardStep ==
    ASSUME CarConstants, EvIInv, UNCHANGED <<car, data>>,
           age' \in 0 .. CAR_TIMEOUT, age' >= age,
           asked' \subseteq {"bind"} \cup Car!Everything,
           Agreed(guard', car.limit, car.unstored, toCar', toGuard', sent')
    PROVE  EvIInv'
<1>1. CarSide
    BY DEF EvIInv
<1>2. age \in Nat /\ age' \in Nat /\ car.heard \in {Car!None} \cup Nat
    BY <1>1 DEF CarSide, Cars, CarConstants
<1>3. CarFits'
    BY <1>1, <1>2 DEF CarSide, CarFits, Shown, SourceFits, Car!Source, Car!Named, Car!None
<1>4. CarSide'
    BY <1>1, <1>3 DEF CarSide
<1>5. GuardSide'
    BY DEF GuardSide
<1>6. (asked \subseteq {"bind"} \cup Car!Everything)'
    BY DEF Car!Everything
<1> QED BY <1>4, <1>5, <1>6 DEF EvIInv

LEMMA EvNextAgrees == ASSUME CarConstants, EvIInv, [Car!EvNext]_(Car!evars) PROVE EvIInv'
<1>1. /\ CarSide /\ GuardSide /\ asked \subseteq {"bind"} \cup Car!Everything
      /\ car \in Cars /\ guard \in CarGuards /\ age \in 0 .. CAR_TIMEOUT
      /\ CAR_TIMEOUT \in Nat /\ age \in Nat
      /\ Agreed(guard, car.limit, car.unstored, toCar, toGuard, sent)
    BY DEF EvIInv, CarSide, GuardSide, Agreed, CarConstants
<1>2. age <= age
    BY <1>1
<1>3. CASE UNCHANGED Car!evars
    BY <1>1, <1>2, <1>3, GuardStep DEF Car!evars
<1>4. CASE Car!CarTimeout
  <2> DEFINE c == [car EXCEPT !.heard = age]
  <2>1. /\ c \in Cars /\ c.limit = car.limit /\ c.source = car.source
        /\ c.unstored = car.unstored /\ c.behind = car.behind /\ c.heard = age
      BY <1>1 DEF Cars
  <2>2. Car!Settle(c) /\ UNCHANGED <<age, guard, asked, toCar, toGuard, sent>>
      BY <1>4 DEF Car!CarTimeout
  <2>3. age # Car!None
      BY <1>1 DEF Car!None
  <2> HIDE DEF c
  <2> QED BY <1>1, <1>2, <2>1, <2>2, <2>3, CarStep
<1>5. CASE Car!HearBeat
  <2> DEFINE c == [car EXCEPT !.heard = 0]
  <2>1. /\ c \in Cars /\ c.limit = car.limit /\ c.source = car.source
        /\ c.unstored = car.unstored /\ c.behind = car.behind /\ c.heard = 0
      BY <1>1 DEF Cars
  <2>2. /\ Car!Settle(c) /\ age' = 0 /\ toCar # <<>> /\ toCar' = Tail(toCar)
        /\ UNCHANGED <<guard, asked, toGuard, sent>>
      BY <1>5 DEF Car!HearBeat
  <2>3. 0 # Car!None /\ 0 <= 0 /\ 0 \in 0 .. CAR_TIMEOUT
      BY <1>1 DEF Car!None
  <2> HIDE DEF c
  <2> QED BY <1>1, <2>1, <2>2, <2>3, CarStep
<1>6. CASE Car!HearState
  <2> DEFINE c == [car EXCEPT !.failed = Head(toCar).failed]
  <2>1. Head(toCar).failed \in BOOLEAN
    <3>1. Head(toCar) \in CarOrders /\ Head(toCar).kind = "state"
        BY <1>1, <1>6 DEF Car!HearState, Agreed
    <3> QED BY <3>1 DEF CarOrders
  <2>2. /\ c \in Cars /\ c.limit = car.limit /\ c.source = car.source
        /\ c.unstored = car.unstored /\ c.behind = car.behind /\ c.heard = car.heard
      BY <1>1, <2>1 DEF Cars
  <2>3. /\ Car!Settle(c) /\ age' = age /\ toCar # <<>> /\ toCar' = Tail(toCar)
        /\ UNCHANGED <<guard, asked, toGuard, sent>>
      BY <1>6 DEF Car!HearState
  <2>4. car.heard = Car!None \/ car.heard <= age
      BY <1>1 DEF CarSide, CarFits
  <2> HIDE DEF c
  <2> QED BY <1>1, <2>2, <2>3, <2>4, CarStep
<1>7. CASE Car!HearWrite
  <2>1. PICK stored \in BOOLEAN : Car!Decide(stored)
      BY <1>7 DEF Car!HearWrite
  <2>2. toCar # <<>> /\ Head(toCar).kind = "write"
      BY <1>7 DEF Car!HearWrite
  <2>3. EvTypes /\ CarFits
      BY <1>1 DEF EvTypes, CarSide, Agreed
  <2>4. car' \in Cars /\ data' \in Lists /\ age' \in 0 .. CAR_TIMEOUT /\ CarFits'
      BY <2>1, <2>2, <2>3, DecideFits
  <2>5. Agreed(guard, car'.limit, car'.unstored, toCar', toGuard', sent)
      BY <1>1, <2>1, <2>2, <2>3, AnswerAgrees
  <2>6. UNCHANGED <<guard, asked, sent>>
      BY <2>1 DEF Car!Decide
  <2>7. CarSide' /\ GuardSide'
      BY <2>4, <2>5, <2>6 DEF CarSide, GuardSide
  <2> QED BY <1>1, <2>6, <2>7 DEF EvIInv, Car!Everything
<1>8. CASE Car!Reattach
  <2> DEFINE h == [Car!NewGuard EXCEPT !.failed = guard.failed]
  <2>1. /\ guard' = h /\ asked' = {"bind"} \cup Car!Everything /\ toCar' = <<>> /\ toGuard' = <<>>
        /\ UNCHANGED <<car, data, age, sent>>
      BY <1>8 DEF Car!Reattach, Car!Attach
  <2>2. h \in CarGuards /\ h.outstanding = 0 /\ ~h.applied.set
    <3>1. guard.failed \in BOOLEAN
        BY <1>1 DEF CarGuards
    <3>2. Car!Unset \in Wanted /\ ~Car!Unset.set
        BY DEF Car!Unset, Wanted, Car!NoAmps
    <3> QED BY <3>1, <3>2 DEF Car!NewGuard, CarGuards, Car!Everything
  <2> HIDE DEF h
  <2>3. sent \in 0 .. MaxWrites
      BY <1>1 DEF Agreed
  <2>4. Agreed(h, car.limit, car.unstored, <<>>, <<>>, sent)
      BY <2>2, <2>3 DEF Agreed, InOrder, GuardFits, CarriesAll, AloneOrders, AloneAnswers,
                        Confirmed
  <2> QED BY <1>1, <1>2, <2>1, <2>4, GuardStep
<1>9. CASE Car!GuardTimeout
  <2>1. Car!WriteIfDue(guard, <<[kind |-> "beat"]>>) /\ UNCHANGED <<car, data, age, asked, toGuard>>
      BY <1>9 DEF Car!GuardTimeout
  <2>2. Agreed(guard', car.limit, car.unstored, toCar', toGuard, sent')
      BY <1>1, <2>1, WriteIfDueAgrees
  <2> QED BY <1>1, <1>2, <2>1, <2>2, GuardStep
<1>10. CASE Car!Resolve
  <2>1. UNCHANGED <<car, data, age, asked, toCar, sent>>
      BY <1>10 DEF Car!Resolve
  <2>2. Agreed(guard', car.limit, car.unstored, toCar, toGuard', sent)
      BY <1>1, <1>10, ResolveAgrees
  <2> QED BY <1>1, <1>2, <2>1, <2>2, GuardStep
<1>11. CASE Car!GiveUp
  <2>1. UNCHANGED <<car, data, age, asked, toGuard>>
      BY <1>11 DEF Car!GiveUp
  <2>2. Agreed(guard', car.limit, car.unstored, toCar', toGuard, sent')
      BY <1>1, <1>11, GiveUpAgrees
  <2> QED BY <1>1, <1>2, <2>1, <2>2, GuardStep
<1>12. CASE Car!EvTick
  <2>1. age' \in 0 .. CAR_TIMEOUT /\ age' >= age
      BY <1>1, <1>12 DEF Car!EvTick
  <2>2. UNCHANGED <<car, data, guard, asked, toCar, toGuard, sent>>
      BY <1>12 DEF Car!EvTick
  <2> QED BY <1>1, <2>1, <2>2, GuardStep
<1>13. ASSUME NEW h \in CarGuards, h.outstanding = guard.outstanding, h.asking = guard.asking,
              h.applied = guard.applied, h.missed = guard.missed
       PROVE  Agreed(h, car.limit, car.unstored, toCar, toGuard, sent)
    BY <1>1, <1>13, SameWrites
<1>14. ASSUME NEW granted \in BOOLEAN, Car!BindingAnswered(granted) PROVE EvIInv'
  <2> DEFINE h == [guard EXCEPT !.bound = granted]
  <2>1. /\ Car!ReportReady(h) /\ asked' = asked \ {"bind"} /\ UNCHANGED <<car, data, age, toGuard>>
      BY <1>14 DEF Car!BindingAnswered
  <2>2. /\ h \in CarGuards /\ h.outstanding = guard.outstanding /\ h.asking = guard.asking
        /\ h.applied = guard.applied /\ h.missed = guard.missed
      BY <1>1 DEF CarGuards
  <2> HIDE DEF h
  <2>3. Agreed(guard', car.limit, car.unstored, toCar', toGuard, sent')
      BY <1>13, <2>1, <2>2, ReportReadyAgrees
  <2> QED BY <1>1, <1>2, <2>1, <2>3, GuardStep
<1>15. ASSUME NEW d, Car!DescriptionLearned(d) PROVE EvIInv'
  <2> DEFINE h == [guard EXCEPT !.known = @ \cup {d}]
  <2>1. /\ Car!ReportReady(h) /\ d \in Car!Everything /\ asked' = asked \ {d}
        /\ UNCHANGED <<car, data, age, toGuard>>
      BY <1>1, <1>15 DEF Car!DescriptionLearned
  <2>2. /\ h \in CarGuards /\ h.outstanding = guard.outstanding /\ h.asking = guard.asking
        /\ h.applied = guard.applied /\ h.missed = guard.missed
      BY <1>1, <2>1 DEF CarGuards
  <2> HIDE DEF h
  <2>3. Agreed(guard', car.limit, car.unstored, toCar', toGuard, sent')
      BY <1>13, <2>1, <2>2, ReportReadyAgrees
  <2> QED BY <1>1, <1>2, <2>1, <2>3, GuardStep
<1>16. ASSUME NEW d, Car!OpeningUnanswered(d) PROVE EvIInv'
  <2>1. asked' = asked \ {d} /\ UNCHANGED <<car, data, age, guard, toCar, toGuard, sent>>
      BY <1>16 DEF Car!OpeningUnanswered
  <2> QED BY <1>1, <1>2, <2>1, GuardStep
<1>17. ASSUME NEW r \in Requirements, Car!Require(r) PROVE EvIInv'
  <2> DEFINE a == Car!Set(r)
             h == [guard EXCEPT !.required = a]
  <2>1. guard' = h /\ UNCHANGED <<car, data, age, asked, toCar, toGuard, sent>>
      BY <1>17 DEF Car!Require
  <2>2. a \in Wanted
      BY <1>17 DEF Car!Set, Wanted, CarConstants
  <2> HIDE DEF a
  <2>3. /\ h \in CarGuards /\ h.outstanding = guard.outstanding /\ h.asking = guard.asking
        /\ h.applied = guard.applied /\ h.missed = guard.missed
      BY <1>1, <2>2 DEF CarGuards
  <2> HIDE DEF h
  <2> QED BY <1>1, <1>2, <1>13, <2>1, <2>3, GuardStep
<1>18. ASSUME NEW failed \in BOOLEAN, Car!SetFailed(failed) PROVE EvIInv'
  <2> DEFINE h == [guard EXCEPT !.failed = failed]
             m == [kind |-> "state", failed |-> failed]
  <2>1. /\ guard' = h /\ toCar' = Append(toCar, m)
        /\ UNCHANGED <<car, data, age, asked, toGuard, sent>>
      BY <1>18 DEF Car!SetFailed
  <2>2. /\ h \in CarGuards /\ h.outstanding = guard.outstanding /\ h.asking = guard.asking
        /\ h.applied = guard.applied /\ h.missed = guard.missed
      BY <1>1 DEF CarGuards
  <2>3. m \in CarOrders /\ m.kind # "write"
      BY DEF CarOrders
  <2> HIDE DEF h, m
  <2>4. Agreed(h, car.limit, car.unstored, toCar', toGuard, sent)
      BY <1>13, <2>1, <2>2, <2>3, OtherAgreed
  <2> QED BY <1>1, <1>2, <2>1, <2>4, GuardStep
<1> QED BY <1>3, <1>4, <1>5, <1>6, <1>7, <1>8, <1>9, <1>10, <1>11, <1>12, <1>14, <1>15, <1>16,
           <1>17, <1>18 DEF Car!EvNext

LEMMA AgreedIsHeld ==
    ASSUME CarConstants, EvIInv
    PROVE  Car!EvTypeOK /\ Car!AppliedIsHeld /\ Car!PublishedIsInForce
<1>1. CarSide /\ Agreed(guard, car.limit, car.unstored, toCar, toGuard, sent)
    BY DEF EvIInv, GuardSide
<1>2. Car!EvTypeOK
  <2>1. DOMAIN data \subseteq {LimitId[p] : p \in CarPhases}
      BY <1>1 DEF CarSide, Lists, Ids
  <2>2. /\ car.limit.amps \in Car!Currents /\ car.limit.set \in BOOLEAN
        /\ car.heard \in {Car!None} \cup 0 .. CAR_TIMEOUT /\ age \in 0 .. CAR_TIMEOUT
      BY <1>1 DEF CarSide, Cars
  <2>3. guard.known \subseteq Car!Everything /\ sent \in 0 .. MaxWrites
      BY <1>1 DEF Agreed, CarGuards
  <2> QED BY <2>1, <2>2, <2>3 DEF Car!EvTypeOK
<1>3. Car!PublishedIsInForce
    BY <1>1 DEF CarSide, CarFits, Shown, Car!PublishedIsInForce, Car!InForceIsPublished
<1>4. Car!AppliedIsHeld
  <2> SUFFICES ASSUME guard.applied.set, toGuard = <<>>, ~car.unstored, ~guard.missed
               PROVE  Car!InStep
      BY DEF Car!AppliedIsHeld
  <2>1. ~Confirmed(guard, toGuard)
      BY DEF Confirmed
  <2>2. Holds(car.limit, guard.applied)
      BY <1>1, <2>1 DEF Agreed, GuardFits
  <2> QED BY <2>2 DEF Holds, Car!InStep
<1> QED BY <1>2, <1>3, <1>4

\* What a guard reports as applied, once no answer is on its way, is what the car charges
\* at, unless the car's store refused the write or the guard gave one up (charging.rs
\* resolve, decide). A limit the car publishes as active is the one it follows; and one it
\* follows is published as active, unless a write met a silence that had not been noticed
\* (charging.rs publish, decide, settle).
THEOREM ChargingAgrees ==
    CarConstants /\ Car!EvInit /\ [][Car!EvNext]_(Car!evars)
      => [](Car!EvTypeOK /\ Car!AppliedIsHeld /\ Car!PublishedIsInForce)
<1>1. CASE CarConstants
  <2>1. Car!EvInit => EvIInv
      BY <1>1, EvInitAgrees
  <2>2. EvIInv /\ [Car!EvNext]_(Car!evars) => EvIInv'
      BY <1>1, EvNextAgrees
  <2>3. EvIInv => Car!EvTypeOK /\ Car!AppliedIsHeld /\ Car!PublishedIsInForce
      BY <1>1, AgreedIsHeld
  <2> QED BY <2>1, <2>2, <2>3, PTL
<1> QED BY <1>1

-----------------------------------------------------------------------------
(* Discovery: a client that follows a device has its tree of entities, for  *)
(* every set of paths and features that fits into a list, and any sequence  *)
(* of changes and lost connections. Where it stands is said by the pictures *)
(* it will have one after the other as it takes what is on the wire.        *)

DeviceConstants ==
    /\ Paths \subseteq Seq(Nat) /\ <<1>> \in Paths
    /\ EntityFeatures \subseteq Nat /\ IsFiniteSet(Paths) /\ IsFiniteSet(EntityFeatures)
    /\ MAX_ENTRIES \in Nat
    /\ Cardinality(Paths) <= MAX_ENTRIES
    /\ Cardinality(Paths \X EntityFeatures) <= MAX_ENTRIES

IsTree(t) == DOMAIN t \subseteq Paths /\ t \in [DOMAIN t -> SUBSET EntityFeatures]

\* The document of a tree, and the picture a client has after one more datagram.
TreeDocument(t) == [entities |-> DOMAIN t, features |-> Mirror!Entries(t, DOMAIN t)]
TakenIn(picture, m) ==
    [doc  |-> IF m.what = "discovery" THEN Mirror!Absorbed(picture.doc, m.data)
              ELSE picture.doc,
     uses |-> IF m.what = "useCases" THEN m.uses ELSE picture.uses]

\* A client that has the picture `first` has `last` when it has taken what is on the wire.
Leads(first, w, last) ==
    \E f : /\ DOMAIN f = 1 .. Len(w) + 1
           /\ f[1] = first /\ f[Len(w) + 1] = last
           /\ \A i \in 1 .. Len(w) : f[i + 1] = TakenIn(f[i], w[i])

Datagrams ==
    [what : {"discovery", "useCases"}, uses : SUBSET UseCases,
     data : {Mirror!EmptyDocument} \cup
            [partial : BOOLEAN, change : {"none", "added", "modified", "removed"},
             entities : SUBSET Paths, features : SUBSET (Paths \X EntityFeatures)]]
TreeTypes ==
    /\ IsTree(tree) /\ played \subseteq UseCases
    /\ wire \in Seq(Datagrams)
    /\ missed \in BOOLEAN /\ dropped \in BOOLEAN
    /\ treeTold => opening = {}
    /\ remote = Mirror!RemoteOf(document)

\* What is on the wire leads the client to the tree and the use cases, if it was answered
\* and neither missed a change nor kept a feature that was dropped.
LeadsToTree ==
    \E last :
      /\ Leads([doc |-> document, uses |-> announced], wire, last)
      /\ Mirror!Replied("discovery") /\ ~missed /\ ~dropped => last.doc = TreeDocument(tree)
      /\ Mirror!Replied("useCases") /\ ~missed => last.uses = played
Mirrored == TreeTypes /\ LeadsToTree

-----------------------------------------------------------------------------
\* The wire.
LEMMA NothingLeads == ASSUME NEW s PROVE Leads(s, <<>>, s)
<1> DEFINE f == [i \in 1 .. Len(<<>>) + 1 |-> s]
<1>1. f[1] = s /\ f[Len(<<>>) + 1] = s /\ DOMAIN f = 1 .. Len(<<>>) + 1
    OBVIOUS
<1>2. \A i \in 1 .. Len(<<>>) : f[i + 1] = TakenIn(f[i], <<>>[i])
    OBVIOUS
<1> HIDE DEF f
<1> QED BY <1>1, <1>2 DEF Leads

LEMMA NothingLeft == ASSUME NEW s, NEW t, Leads(s, <<>>, t) PROVE s = t
BY DEF Leads

LEMMA OneMore ==
    ASSUME NEW S, NEW w \in Seq(S), NEW m, NEW s, NEW t, Leads(s, w, t)
    PROVE  Leads(s, Append(w, m), TakenIn(t, m))
<1>1. PICK f : /\ DOMAIN f = 1 .. Len(w) + 1 /\ f[1] = s /\ f[Len(w) + 1] = t
               /\ \A i \in 1 .. Len(w) : f[i + 1] = TakenIn(f[i], w[i])
    BY DEF Leads
<1> DEFINE more == Append(w, m)
           n == Len(w)
           g == [i \in 1 .. n + 2 |-> IF i = n + 2 THEN TakenIn(t, m) ELSE f[i]]
<1>2. /\ n \in Nat /\ Len(more) = n + 1 /\ more[n + 1] = m
      /\ \A i \in 1 .. n : more[i] = w[i]
    BY SMTT(20)
<1> HIDE DEF more, n
<1>3. DOMAIN g = 1 .. Len(more) + 1 /\ g[1] = s /\ g[Len(more) + 1] = TakenIn(t, m)
    BY <1>1, <1>2 DEF n
<1>4. ASSUME NEW i \in 1 .. Len(more) PROVE g[i + 1] = TakenIn(g[i], more[i])
  <2>1. CASE i = n + 1
    <3>1. g[i + 1] = TakenIn(t, m) /\ g[i] = f[n + 1] /\ more[i] = m
        BY <1>2, <2>1
    <3> QED BY <3>1, <1>1 DEF n
  <2>2. CASE i # n + 1
    <3>1. i \in 1 .. n /\ g[i + 1] = f[i + 1] /\ g[i] = f[i] /\ more[i] = w[i]
        BY <1>2, <2>2
    <3> QED BY <3>1, <1>1 DEF n
  <2> QED BY <2>1, <2>2
<1> HIDE DEF g
<1> QED BY <1>3, <1>4 DEF Leads, more

LEMMA OneLess ==
    ASSUME NEW S, NEW w \in Seq(S), w # <<>>, NEW s, NEW t, Leads(s, w, t)
    PROVE  Leads(TakenIn(s, Head(w)), Tail(w), t)
<1>1. PICK f : /\ DOMAIN f = 1 .. Len(w) + 1 /\ f[1] = s /\ f[Len(w) + 1] = t
               /\ \A i \in 1 .. Len(w) : f[i + 1] = TakenIn(f[i], w[i])
    BY DEF Leads
<1> DEFINE rest == Tail(w)
           n == Len(w)
           g == [i \in 1 .. n |-> f[i + 1]]
<1>2. /\ n \in Nat \ {0} /\ Len(rest) = n - 1 /\ Head(w) = w[1]
      /\ \A i \in 1 .. n - 1 : rest[i] = w[i + 1]
    OBVIOUS
<1> HIDE DEF rest, n
<1>3. /\ DOMAIN g = 1 .. Len(rest) + 1 /\ g[1] = TakenIn(s, Head(w))
      /\ g[Len(rest) + 1] = t
    BY <1>1, <1>2 DEF n
<1>4. ASSUME NEW i \in 1 .. Len(rest) PROVE g[i + 1] = TakenIn(g[i], rest[i])
  <2>1. i + 1 \in 1 .. n /\ g[i + 1] = f[i + 2] /\ g[i] = f[i + 1] /\ rest[i] = w[i + 1]
      BY <1>2
  <2>2. f[(i + 1) + 1] = TakenIn(f[i + 1], w[i + 1])
      BY <1>1, <2>1 DEF n
  <2>3. (i + 1) + 1 = i + 2
      OBVIOUS
  <2> QED BY <2>1, <2>2, <2>3
<1> HIDE DEF g
<1> QED BY <1>3, <1>4 DEF Leads, rest

-----------------------------------------------------------------------------
\* The documents.
LEMMA EntriesListed ==
    ASSUME NEW t, IsTree(t), NEW P \in SUBSET DOMAIN t
    PROVE  /\ \A p, f : <<p, f>> \in Mirror!Entries(t, P) <=> p \in P /\ f \in t[p]
           /\ \A e \in Mirror!Entries(t, P) : e = <<e[1], e[2]>>
           /\ Mirror!Entries(t, P) \subseteq Paths \X EntityFeatures
<1>1. \A p \in P : t[p] \subseteq EntityFeatures /\ p \in Paths
    BY DEF IsTree
<1>2. ASSUME NEW p, NEW f PROVE <<p, f>> \in Mirror!Entries(t, P) <=> p \in P /\ f \in t[p]
    BY <1>1, <1>2 DEF Mirror!Entries
<1>3. \A e \in Mirror!Entries(t, P) : \E p \in P, f \in EntityFeatures : e = <<p, f>>
    BY DEF Mirror!Entries
<1> QED BY <1>1, <1>2, <1>3

\* A client that has the device's document has its tree.
LEMMA DocumentSays ==
    ASSUME NEW t, IsTree(t) PROVE Mirror!RemoteOf(TreeDocument(t)) = t
<1> DEFINE doc == TreeDocument(t)
<1>1. doc.entities = DOMAIN t /\ doc.features = Mirror!Entries(t, DOMAIN t)
    BY DEF TreeDocument
<1> HIDE DEF doc
<1>2. {e[1] : e \in doc.features} \subseteq DOMAIN t
    BY <1>1, EntriesListed
<1>3. DOMAIN Mirror!RemoteOf(doc) = DOMAIN t
    BY <1>1, <1>2 DEF Mirror!RemoteOf
<1>4. ASSUME NEW p \in DOMAIN t PROVE Mirror!RemoteOf(doc)[p] = t[p]
  <2>1. Mirror!RemoteOf(doc)[p] = {f \in EntityFeatures : <<p, f>> \in doc.features}
      BY <1>1 DEF Mirror!RemoteOf
  <2>2. \A f : <<p, f>> \in doc.features <=> f \in t[p]
      BY <1>1, EntriesListed
  <2>3. t[p] \subseteq EntityFeatures
      BY DEF IsTree
  <2> QED BY <2>1, <2>2, <2>3
<1>5. t = [p \in DOMAIN t |-> t[p]]
    BY DEF IsTree
<1>6. Mirror!RemoteOf(doc) = [p \in DOMAIN Mirror!RemoteOf(doc) |-> Mirror!RemoteOf(doc)[p]]
    BY DEF Mirror!RemoteOf
<1> QED BY <1>3, <1>4, <1>5, <1>6 DEF doc

\* The instance counts as this module does.
LEMMA SameCardinality == ASSUME NEW S PROVE Mirror!Cardinality(S) = Cardinality(S)
BY DEF Mirror!Cardinality, Cardinality

\* There is room for everything the device may have.
LEMMA AllJoin ==
    ASSUME DeviceConstants,
           NEW old \in SUBSET (Paths \X EntityFeatures),
           NEW new \in SUBSET (Paths \X EntityFeatures)
    PROVE  Mirror!Joined(old, new) = old \cup new
<1> DEFINE all == Paths \X EntityFeatures
           before(x) == {y \in new \ old : y[2] < x[2]}
<1>1. IsFiniteSet(all) /\ Cardinality(all) <= MAX_ENTRIES /\ Cardinality(all) \in Nat
      /\ MAX_ENTRIES \in Nat
    BY FS_Product, FS_CardinalityType DEF DeviceConstants
<1>2. ASSUME NEW x \in new \ old
      PROVE  Cardinality(before(x)) < MAX_ENTRIES - Cardinality(old)
  <2> DEFINE B == before(x)
             C == old \cup B
  <2>9. x[2] \in Nat
      BY DEF DeviceConstants
  <2>10. ~(x[2] < x[2])
      BY <2>9
  <2>1. x \notin B /\ B \cap old = {} /\ B \subseteq all /\ old \subseteq all /\ x \in all
      BY <2>10
  <2> HIDE DEF B, all
  <2>2. IsFiniteSet(B) /\ IsFiniteSet(old)
      BY <1>1, <2>1, FS_Subset
  <2>3. Cardinality(B) \in Nat /\ Cardinality(old) \in Nat
      BY <2>2, FS_CardinalityType
  <2>4. /\ IsFiniteSet(C)
        /\ Cardinality(C) = Cardinality(old) + Cardinality(B) - Cardinality(old \cap B)
      BY <2>2, FS_Union
  <2>5. Cardinality(old \cap B) = 0
      BY <2>1, FS_EmptySet
  <2>6. Cardinality(C \cup {x}) = Cardinality(C) + 1
      BY <2>1, <2>4, FS_AddElement
  <2>7. Cardinality(C \cup {x}) <= Cardinality(all)
      BY <1>1, <2>1, FS_Subset
  <2>8. Cardinality(B) < MAX_ENTRIES - Cardinality(old)
      BY <1>1, <2>3, <2>4, <2>5, <2>6, <2>7
  <2> QED BY <2>8 DEF B
<1>3. Mirror!Joined(old, new) = old \cup {x \in new \ old :
                                     Cardinality(before(x)) < MAX_ENTRIES - Cardinality(old)}
    BY SameCardinality DEF Mirror!Joined
<1> QED BY <1>2, <1>3

\* An entity that comes, or gets more features.
GrownTree(t, p, fs) == [q \in DOMAIN t \cup {p} |-> IF q = p THEN fs ELSE t[q]]
Listing(p, fs) == {<<p, f>> : f \in fs}
Grows(t, p, fs, update) ==
    /\ update.partial /\ update.change # "removed" /\ update.entities = {p}
    /\ update.features = Listing(p, fs)
    /\ p \in DOMAIN t => t[p] \subseteq fs
LEMMA GrownIsMerged ==
    ASSUME DeviceConstants, NEW t, IsTree(t), NEW p \in Paths, NEW fs \in SUBSET EntityFeatures,
           NEW update, Grows(t, p, fs, update),
           NEW u, u = GrownTree(t, p, fs)
    PROVE  Mirror!Absorbed(TreeDocument(t), update) = TreeDocument(u)
<1> DEFINE doc == TreeDocument(t)
<1>1. IsTree(u) /\ DOMAIN u = DOMAIN t \cup {p} /\ u[p] = fs
      /\ \A q \in DOMAIN t : q # p => u[q] = t[q]
    BY DEF IsTree, GrownTree
<1>2. doc.entities = DOMAIN t /\ doc.features = Mirror!Entries(t, DOMAIN t)
    BY DEF TreeDocument
<1>3. Mirror!Absorbed(doc, update)
        = [entities |-> IF Cardinality(doc.entities \cup {p}) <= MAX_ENTRIES
                        THEN doc.entities \cup {p} ELSE doc.entities,
           features |-> Mirror!Joined(doc.features, update.features)]
    BY SameCardinality DEF Mirror!Absorbed, Mirror!MergeDetailedDiscovery, Grows
<1> HIDE DEF doc
<1>4. Cardinality(doc.entities \cup {p}) <= MAX_ENTRIES
  <2>1. doc.entities \cup {p} \subseteq Paths
      BY <1>2 DEF IsTree
  <2>2. /\ IsFiniteSet(Paths) /\ Cardinality(Paths) <= MAX_ENTRIES /\ MAX_ENTRIES \in Nat
      BY DEF DeviceConstants
  <2>3. /\ Cardinality(doc.entities \cup {p}) <= Cardinality(Paths)
        /\ IsFiniteSet(doc.entities \cup {p})
      BY <2>1, <2>2, FS_Subset
  <2>4. Cardinality(Paths) \in Nat /\ Cardinality(doc.entities \cup {p}) \in Nat
      BY <2>2, <2>3, FS_CardinalityType
  <2> QED BY <2>2, <2>3, <2>4
<1>5. Mirror!Joined(doc.features, update.features) = doc.features \cup update.features
  <2>1. doc.features \subseteq Paths \X EntityFeatures
      BY <1>2, EntriesListed
  <2>2. update.features \subseteq Paths \X EntityFeatures
      BY DEF Listing, Grows
  <2> QED BY <2>1, <2>2, AllJoin
<1>6. doc.features \cup update.features = Mirror!Entries(u, DOMAIN u)
  <2>1. \A q, f : <<q, f>> \in doc.features <=> q \in DOMAIN t /\ f \in t[q]
    <3>1. \A q, f : <<q, f>> \in Mirror!Entries(t, DOMAIN t) <=> q \in DOMAIN t /\ f \in t[q]
        BY ONLY IsTree(t), EntriesListed
    <3> QED BY ONLY <1>2, <3>1
  <2>2. \A q, f : <<q, f>> \in update.features <=> q = p /\ f \in fs
      BY DEF Listing, Grows
  <2>3. \A q, f : <<q, f>> \in Mirror!Entries(u, DOMAIN u) <=> q \in DOMAIN u /\ f \in u[q]
      BY ONLY <1>1, EntriesListed
  <2>4. /\ \A e \in doc.features : e = <<e[1], e[2]>>
        /\ \A e \in Mirror!Entries(u, DOMAIN u) : e = <<e[1], e[2]>>
      BY <1>1, <1>2, EntriesListed
  <2>5. \A e \in update.features : e = <<e[1], e[2]>>
      BY DEF Listing, Grows
  <2>6. ASSUME NEW q, NEW f
        PROVE  <<q, f>> \in doc.features \cup update.features
                 <=> <<q, f>> \in Mirror!Entries(u, DOMAIN u)
      BY <1>1, <2>1, <2>2, <2>3 DEF Grows
  <2> QED BY <2>4, <2>5, <2>6
<1>7. Mirror!Absorbed(doc, update) = TreeDocument(u)
    BY <1>1, <1>2, <1>3, <1>4, <1>5, <1>6 DEF TreeDocument
<1> QED BY <1>7 DEF doc

\* Prefixes.
LEMMA UnderItself == ASSUME DeviceConstants, NEW p \in Paths PROVE Mirror!Under(p, p)
BY DEF DeviceConstants, Mirror!Under, Mirror!IsPrefix
LEMMA UnderTwice ==
    ASSUME DeviceConstants, NEW p \in Paths, NEW q \in Paths, NEW r \in Paths,
           Mirror!Under(r, q), Mirror!Under(q, p)
    PROVE  Mirror!Under(r, p)
<1>1. p \in Seq(Nat) /\ q \in Seq(Nat) /\ r \in Seq(Nat)
    BY DEF DeviceConstants
<1>2. ASSUME NEW a \in Seq(Nat), NEW b \in Seq(Nat)
      PROVE  Mirror!Under(b, a) <=> Len(a) <= Len(b) /\ \A i \in 1 .. Len(a) : a[i] = b[i]
  <2>1. Mirror!Under(b, a) <=> Len(a) <= Len(b) /\ SubSeq(a, 1, Len(a)) = SubSeq(b, 1, Len(a))
      BY DEF Mirror!Under, Mirror!IsPrefix
  <2>2. Len(a) \in Nat /\ Len(b) \in Nat
      OBVIOUS
  <2>3. CASE Len(a) <= Len(b)
    <3>1. /\ SubSeq(a, 1, Len(a)) = [i \in 1 .. Len(a) |-> a[i]]
          /\ SubSeq(b, 1, Len(a)) = [i \in 1 .. Len(a) |-> b[i]]
        BY <2>2, <2>3
    <3> QED BY <2>1, <2>3, <3>1
  <2> QED BY <2>1, <2>3
<1>3. Len(p) \in Nat /\ Len(q) \in Nat /\ Len(r) \in Nat
    BY <1>1
<1>4. Len(p) <= Len(r) /\ \A i \in 1 .. Len(p) : p[i] = r[i]
    BY <1>1, <1>2, <1>3
<1> QED BY <1>1, <1>2, <1>4

\* A subtree that goes.
LEMMA ShrunkIsMerged ==
    ASSUME DeviceConstants, NEW t, IsTree(t), NEW p \in DOMAIN t
    PROVE  LET gone == {q \in DOMAIN t : Mirror!Under(q, p)} IN
           Mirror!Absorbed(TreeDocument(t), Mirror!EntitiesRemoved(gone))
             = TreeDocument([q \in DOMAIN t \ gone |-> t[q]])
<1> DEFINE gone == {q \in DOMAIN t : Mirror!Under(q, p)}
           u == [q \in DOMAIN t \ gone |-> t[q]]
           doc == TreeDocument(t)
<1>1. DOMAIN t \subseteq Paths
    BY DEF IsTree
<1>2. \A q \in DOMAIN t : (\A r \in gone : ~Mirror!Under(q, r)) <=> q \notin gone
    BY <1>1, UnderItself, UnderTwice
<1>3. IsTree(u) /\ DOMAIN u = DOMAIN t \ gone /\ \A q \in DOMAIN u : u[q] = t[q]
    BY DEF IsTree
<1>4. doc.entities = DOMAIN t /\ doc.features = Mirror!Entries(t, DOMAIN t)
    BY DEF TreeDocument
<1> HIDE DEF doc, gone, u
<1>5. Mirror!Absorbed(doc, Mirror!EntitiesRemoved(gone))
        = [entities |-> {q \in doc.entities : \A r \in gone : ~Mirror!Under(q, r)},
           features |-> {e \in doc.features : \A r \in gone : ~Mirror!Under(e[1], r)}]
    BY DEF Mirror!Absorbed, Mirror!MergeDetailedDiscovery, Mirror!EntitiesRemoved
<1>6. {q \in doc.entities : \A r \in gone : ~Mirror!Under(q, r)} = DOMAIN u
    BY <1>2, <1>3, <1>4
<1>7. {e \in doc.features : \A r \in gone : ~Mirror!Under(e[1], r)}
        = Mirror!Entries(u, DOMAIN u)
  <2>1. /\ \A q, f : <<q, f>> \in doc.features <=> q \in DOMAIN t /\ f \in t[q]
        /\ \A e \in doc.features : e = <<e[1], e[2]>>
      BY <1>4, EntriesListed
  <2>2. /\ \A q, f : <<q, f>> \in Mirror!Entries(u, DOMAIN u) <=> q \in DOMAIN u /\ f \in u[q]
        /\ \A e \in Mirror!Entries(u, DOMAIN u) : e = <<e[1], e[2]>>
      BY <1>3, EntriesListed
  <2>3. ASSUME NEW q, NEW f
        PROVE  <<q, f>> \in doc.features /\ (\A r \in gone : ~Mirror!Under(q, r))
                 <=> <<q, f>> \in Mirror!Entries(u, DOMAIN u)
      BY <1>2, <1>3, <2>1, <2>2
  <2>4. ASSUME NEW e PROVE e \in doc.features /\ (\A r \in gone : ~Mirror!Under(e[1], r))
                             <=> e \in Mirror!Entries(u, DOMAIN u)
      BY <2>1, <2>2, <2>3
  <2> QED BY <2>4
<1>8. Mirror!Absorbed(doc, Mirror!EntitiesRemoved(gone)) = TreeDocument(u)
    BY <1>5, <1>6, <1>7 DEF TreeDocument
<1> QED BY <1>8 DEF doc, gone, u

-----------------------------------------------------------------------------
\* The start.
LEMMA DInitMirrors == ASSUME DeviceConstants PROVE Mirror!DInit => Mirrored
<1> SUFFICES ASSUME Mirror!DInit PROVE Mirrored
    OBVIOUS
<1>1. TreeTypes
  <2>1. IsTree(tree)
      BY DEF Mirror!DInit, DeviceConstants, IsTree
  <2>2. played \subseteq UseCases
      BY DEF Mirror!DInit
  <2>3. /\ wire = <<>> /\ missed = FALSE /\ dropped = FALSE /\ treeTold = FALSE
        /\ remote = Mirror!RemoteOf(document)
      BY DEF Mirror!DInit
  <2>4. wire \in Seq(Datagrams)
      BY <2>3, EmptySeq
  <2> QED BY ONLY <2>1, <2>2, <2>3, <2>4 DEF TreeTypes
<1>2. ~Mirror!Replied("discovery") /\ ~Mirror!Replied("useCases")
    BY DEF Mirror!DInit, Mirror!Replied
<1>3. Leads([doc |-> document, uses |-> announced], wire,
            [doc |-> document, uses |-> announced])
    BY NothingLeads DEF Mirror!DInit
<1> QED BY <1>1, <1>2, <1>3 DEF Mirrored, LeadsToTree

\* A change that nobody is told.
LEMMA Unheard ==
    ASSUME Mirrored, ~treeTold, UNCHANGED <<wire, opening, document, announced>>,
           Mirror!Replied("discovery") => missed' \/ dropped' \/ tree' = tree,
           Mirror!Replied("useCases") => missed' \/ played' = played,
           missed => missed', dropped => dropped'
    PROVE  LeadsToTree'
<1>1. PICK last :
        /\ Leads([doc |-> document, uses |-> announced], wire, last)
        /\ Mirror!Replied("discovery") /\ ~missed /\ ~dropped => last.doc = TreeDocument(tree)
        /\ Mirror!Replied("useCases") /\ ~missed => last.uses = played
    BY DEF Mirrored, LeadsToTree
<1>2. Leads([doc |-> document', uses |-> announced'], wire', last)
    BY <1>1
<1>3. (Mirror!Replied("discovery")' <=> Mirror!Replied("discovery"))
      /\ (Mirror!Replied("useCases")' <=> Mirror!Replied("useCases"))
    BY DEF Mirror!Replied
<1>4. Mirror!Replied("discovery")' /\ ~missed' /\ ~dropped' => last.doc = TreeDocument(tree')
    BY <1>1, <1>3
<1>5. Mirror!Replied("useCases")' /\ ~missed' => last.uses = played'
    BY <1>1, <1>3
<1> QED BY <1>2, <1>4, <1>5 DEF LeadsToTree

\* A datagram that says what has changed.
LEMMA Heard ==
    ASSUME Mirrored, NEW m \in Datagrams, wire' = Append(wire, m),
           UNCHANGED <<opening, document, announced>>, missed' = missed,
           dropped => dropped',
           NEW function \in {"discovery", "useCases"}, m.what = function,
           function = "discovery" =>
             /\ played' = played
             /\ ~missed /\ ~dropped' =>
                  \A doc : (Mirror!Replied("discovery") => doc = TreeDocument(tree))
                             => Mirror!Absorbed(doc, m.data) = TreeDocument(tree'),
           function = "useCases" => tree' = tree /\ m.uses = played'
    PROVE  LeadsToTree'
<1>1. PICK last :
        /\ Leads([doc |-> document, uses |-> announced], wire, last)
        /\ Mirror!Replied("discovery") /\ ~missed /\ ~dropped => last.doc = TreeDocument(tree)
        /\ Mirror!Replied("useCases") /\ ~missed => last.uses = played
    BY DEF Mirrored, LeadsToTree
<1> DEFINE next == TakenIn(last, m)
<1>2. wire \in Seq(Datagrams)
    BY DEF Mirrored, TreeTypes
<1>3. Leads([doc |-> document', uses |-> announced'], wire', next)
    BY <1>1, <1>2, OneMore
<1>4. ASSUME NEW g \in {"discovery", "useCases"}, g # function
      PROVE  Mirror!Replied(g)' <=> Mirror!Replied(g)
  <2>1. /\ Len(wire') = Len(wire) + 1 /\ wire'[Len(wire) + 1] = m /\ Len(wire) \in Nat
        /\ \A i \in 1 .. Len(wire) : wire'[i] = wire[i]
      BY <1>2
  <2>2. (\E i \in 1 .. Len(wire') : wire'[i].what = g)
          <=> \E i \in 1 .. Len(wire) : wire[i].what = g
      BY <1>4, <2>1
  <2> QED BY <2>2 DEF Mirror!Replied
<1>5. CASE function = "discovery"
  <2>1. next.doc = Mirror!Absorbed(last.doc, m.data) /\ next.uses = last.uses
      BY <1>5 DEF TakenIn
  <2>2. ~missed' /\ ~dropped' => next.doc = TreeDocument(tree')
      BY <1>1, <1>5, <2>1
  <2>3. Mirror!Replied("useCases")' /\ ~missed' => next.uses = played'
      BY <1>1, <1>4, <1>5, <2>1
  <2> QED BY <1>3, <2>2, <2>3 DEF LeadsToTree
<1>6. CASE function = "useCases"
  <2>1. next.doc = last.doc /\ next.uses = m.uses
      BY <1>6 DEF TakenIn
  <2>2. Mirror!Replied("discovery")' /\ ~missed' /\ ~dropped' => next.doc = TreeDocument(tree')
      BY <1>1, <1>4, <1>6, <2>1
  <2> QED BY <1>3, <1>6, <2>1, <2>2 DEF LeadsToTree
<1> QED BY <1>5, <1>6

\* add_entity.
LEMMA AddEntityMirrors ==
    ASSUME DeviceConstants, Mirrored, NEW p \in Paths, NEW features \in SUBSET EntityFeatures,
           Mirror!AddEntity(p, features)
    PROVE  Mirrored'
<1> DEFINE content == Mirror!EntitiesAdded(tree', {p})
           m == [what |-> "discovery", data |-> content, uses |-> {}]
<1>1. IsTree(tree) /\ wire \in Seq(Datagrams) /\ missed \in BOOLEAN /\ dropped \in BOOLEAN
      /\ remote = Mirror!RemoteOf(document) /\ (treeTold => opening = {})
      /\ played \subseteq UseCases
    BY DEF Mirrored, TreeTypes
<1>2. /\ tree' = [q \in DOMAIN tree \cup {p} |-> IF q = p THEN features ELSE tree[q]]
      /\ p \notin DOMAIN tree
      /\ UNCHANGED <<played, treeTold, opening, document, remote, announced, dropped>>
    BY DEF Mirror!AddEntity
<1>3. /\ wire' = IF treeTold THEN Append(wire, m) ELSE wire
      /\ missed' = (missed \/ (~treeTold /\ Mirror!Replied("discovery")))
    BY DEF Mirror!AddEntity, Mirror!NotifyDiscoveryChange
<1>4. IsTree(tree') /\ p \in DOMAIN tree' /\ tree'[p] = features
    BY <1>1, <1>2 DEF IsTree
<1>5. /\ content.partial = TRUE /\ content.change = "added" /\ content.entities = {p}
      /\ content.features = Mirror!Entries(tree', {p})
    BY DEF Mirror!EntitiesAdded
<1>6. /\ Mirror!Entries(tree', {p}) = {<<p, f>> : f \in features}
      /\ Mirror!Entries(tree', {p}) \subseteq Paths \X EntityFeatures
  <2>1. /\ \A q, f : <<q, f>> \in Mirror!Entries(tree', {p}) <=> q \in {p} /\ f \in tree'[q]
        /\ \A e \in Mirror!Entries(tree', {p}) : e = <<e[1], e[2]>>
        /\ Mirror!Entries(tree', {p}) \subseteq Paths \X EntityFeatures
      BY <1>4, EntriesListed
  <2>2. \A q, f : <<q, f>> \in Mirror!Entries(tree', {p}) <=> q = p /\ f \in features
      BY ONLY <1>4, <2>1
  <2> QED BY ONLY <2>1, <2>2
<1>7. content \in [partial : BOOLEAN, change : {"none", "added", "modified", "removed"},
                entities : SUBSET Paths, features : SUBSET (Paths \X EntityFeatures)]
    BY <1>6 DEF Mirror!EntitiesAdded
<1> HIDE DEF content
<1>8. m \in Datagrams /\ m.what = "discovery" /\ m.data = content
    BY <1>7 DEF Datagrams
<1>9. Mirror!Absorbed(TreeDocument(tree), content) = TreeDocument(tree')
  <2>1. content.change # "removed" /\ content.features = Listing(p, features)
        /\ tree' = GrownTree(tree, p, features)
      BY <1>2, <1>5, <1>6 DEF Listing, GrownTree
  <2>2. Grows(tree, p, features, content)
      BY <1>2, <1>5, <2>1 DEF Grows
  <2> QED BY <1>1, <2>1, <2>2, GrownIsMerged
<1> HIDE DEF m
<1>10. TreeTypes'
    BY <1>1, <1>2, <1>3, <1>4, <1>8 DEF TreeTypes
<1>11. CASE treeTold
  <2>1. Mirror!Replied("discovery")
      BY <1>1, <1>11 DEF Mirror!Replied
  <2>2. LeadsToTree'
      BY <1>1, <1>2, <1>3, <1>8, <1>9, <1>11, <2>1, Heard
  <2> QED BY <1>10, <2>2 DEF Mirrored
<1>12. CASE ~treeTold
  <2>1. LeadsToTree'
      BY <1>1, <1>2, <1>3, <1>12, Unheard
  <2> QED BY <1>10, <2>1 DEF Mirrored
<1> QED BY <1>11, <1>12

\* modify_entity.
LEMMA ModifyEntityMirrors ==
    ASSUME DeviceConstants, Mirrored, NEW p \in Paths, NEW features \in SUBSET EntityFeatures,
           Mirror!ModifyEntity(p, features)
    PROVE  Mirrored'
<1> DEFINE content == Mirror!EntitiesModified(tree', {p})
           m == [what |-> "discovery", data |-> content, uses |-> {}]
<1>1. IsTree(tree) /\ wire \in Seq(Datagrams) /\ missed \in BOOLEAN /\ dropped \in BOOLEAN
      /\ remote = Mirror!RemoteOf(document) /\ (treeTold => opening = {})
      /\ played \subseteq UseCases
    BY DEF Mirrored, TreeTypes
<1>2. /\ tree' = [tree EXCEPT ![p] = features]
      /\ p \in DOMAIN tree
      /\ dropped' = (dropped \/ ~(tree[p] \subseteq features))
      /\ UNCHANGED <<played, treeTold, opening, document, remote, announced>>
    BY DEF Mirror!ModifyEntity
<1>3. /\ wire' = IF treeTold THEN Append(wire, m) ELSE wire
      /\ missed' = (missed \/ (~treeTold /\ Mirror!Replied("discovery")))
    BY DEF Mirror!ModifyEntity, Mirror!NotifyDiscoveryChange
<1>4. IsTree(tree') /\ p \in DOMAIN tree' /\ tree'[p] = features
      /\ tree' = [q \in DOMAIN tree \cup {p} |-> IF q = p THEN features ELSE tree[q]]
    BY <1>1, <1>2 DEF IsTree
<1>5. /\ content.partial = TRUE /\ content.change = "modified" /\ content.entities = {p}
      /\ content.features = Mirror!Entries(tree', {p})
    BY DEF Mirror!EntitiesAdded, Mirror!EntitiesModified
<1>6. /\ Mirror!Entries(tree', {p}) = {<<p, f>> : f \in features}
      /\ Mirror!Entries(tree', {p}) \subseteq Paths \X EntityFeatures
  <2>1. /\ \A q, f : <<q, f>> \in Mirror!Entries(tree', {p}) <=> q \in {p} /\ f \in tree'[q]
        /\ \A e \in Mirror!Entries(tree', {p}) : e = <<e[1], e[2]>>
        /\ Mirror!Entries(tree', {p}) \subseteq Paths \X EntityFeatures
      BY <1>4, EntriesListed
  <2>2. \A q, f : <<q, f>> \in Mirror!Entries(tree', {p}) <=> q = p /\ f \in features
      BY ONLY <1>4, <2>1
  <2> QED BY ONLY <2>1, <2>2
<1>7. content \in [partial : BOOLEAN, change : {"none", "added", "modified", "removed"},
                entities : SUBSET Paths, features : SUBSET (Paths \X EntityFeatures)]
    BY <1>6 DEF Mirror!EntitiesAdded, Mirror!EntitiesModified
<1> HIDE DEF content
<1>8. m \in Datagrams /\ m.what = "discovery" /\ m.data = content
    BY <1>7 DEF Datagrams
<1>9. ASSUME ~dropped' PROVE Mirror!Absorbed(TreeDocument(tree), content) = TreeDocument(tree')
  <2>1. /\ content.change # "removed" /\ content.features = Listing(p, features)
        /\ tree[p] \subseteq features /\ tree' = GrownTree(tree, p, features)
      BY <1>2, <1>4, <1>5, <1>6, <1>9 DEF Listing, GrownTree
  <2>2. Grows(tree, p, features, content)
      BY <1>2, <1>5, <2>1 DEF Grows
  <2> QED BY <1>1, <2>1, <2>2, GrownIsMerged
<1> HIDE DEF m
<1>10. TreeTypes'
    BY <1>1, <1>2, <1>3, <1>4, <1>8 DEF TreeTypes
<1>11. CASE treeTold
  <2>1. Mirror!Replied("discovery")
      BY <1>1, <1>11 DEF Mirror!Replied
  <2>2. LeadsToTree'
      BY <1>1, <1>2, <1>3, <1>8, <1>9, <1>11, <2>1, Heard
  <2> QED BY <1>10, <2>2 DEF Mirrored
<1>12. CASE ~treeTold
  <2>1. LeadsToTree'
      BY <1>1, <1>2, <1>3, <1>12, Unheard
  <2> QED BY <1>10, <2>1 DEF Mirrored
<1> QED BY <1>11, <1>12

\* remove_entity: the subtree goes, and a second datagram tells the use cases that are left.
LEMMA RemoveEntityMirrors ==
    ASSUME DeviceConstants, Mirrored, NEW p \in Paths, Mirror!RemoveEntity(p)
    PROVE  Mirrored'
<1> DEFINE gone == {q \in DOMAIN tree : Mirror!Under(q, p)}
           left == {u \in played : ~Mirror!Under(u[1], p)}
           content == Mirror!EntitiesRemoved(gone)
           m == [what |-> "discovery", data |-> content, uses |-> {}]
           n == [what |-> "useCases", data |-> Mirror!EmptyDocument, uses |-> left]
<1>1. IsTree(tree) /\ wire \in Seq(Datagrams) /\ missed \in BOOLEAN /\ dropped \in BOOLEAN
      /\ remote = Mirror!RemoteOf(document) /\ (treeTold => opening = {})
      /\ played \subseteq UseCases
    BY DEF Mirrored, TreeTypes
<1>2. /\ p \in DOMAIN tree /\ tree' = [q \in DOMAIN tree \ gone |-> tree[q]]
      /\ played' = left
      /\ UNCHANGED <<treeTold, opening, document, remote, announced, dropped>>
    BY DEF Mirror!RemoveEntity
<1>3. /\ wire' = IF ~treeTold THEN wire
                 ELSE IF played' = played THEN Append(wire, m) ELSE wire \o << m, n >>
      /\ missed' = (missed \/ (~treeTold /\ \E r \in {"discovery", "useCases"} :
                                              Mirror!Replied(r)))
    BY <1>2 DEF Mirror!RemoveEntity
<1>4. IsTree(tree')
    BY <1>1, <1>2 DEF IsTree
<1>5. Mirror!Absorbed(TreeDocument(tree), content) = TreeDocument(tree')
    BY <1>1, <1>2, ShrunkIsMerged
<1>6. gone \subseteq Paths /\ left \subseteq UseCases
    BY <1>1 DEF IsTree
<1> HIDE DEF gone, left
<1>7. content \in [partial : BOOLEAN, change : {"none", "added", "modified", "removed"},
                entities : SUBSET Paths, features : SUBSET (Paths \X EntityFeatures)]
    BY <1>6 DEF Mirror!EntitiesRemoved
<1> HIDE DEF content
<1>8. /\ m \in Datagrams /\ m.what = "discovery" /\ m.data = content
      /\ n \in Datagrams /\ n.what = "useCases" /\ n.uses = left
    BY <1>6, <1>7 DEF Datagrams
<1> HIDE DEF m, n
<1>9. wire \o << m, n >> = Append(Append(wire, m), n)
    BY <1>1, <1>8
<1>10. Append(wire, m) \in Seq(Datagrams) /\ Append(Append(wire, m), n) \in Seq(Datagrams)
    BY <1>1, <1>8
<1>11. wire' \in Seq(Datagrams) /\ missed' \in BOOLEAN
    BY <1>1, <1>3, <1>9, <1>10
<1>12. TreeTypes'
    BY <1>1, <1>2, <1>4, <1>6, <1>11 DEF TreeTypes
<1>13. CASE ~treeTold
  <2>1. wire' = wire /\ (missed => missed')
        /\ (Mirror!Replied("discovery") \/ Mirror!Replied("useCases") => missed')
      BY <1>3, <1>13
  <2>2. LeadsToTree'
      BY <1>2, <1>13, <2>1, Unheard
  <2> QED BY <1>12, <2>2 DEF Mirrored
<1>14. CASE treeTold
  <2>1. Mirror!Replied("discovery") /\ Mirror!Replied("useCases") /\ missed' = missed
      BY <1>1, <1>3, <1>14 DEF Mirror!Replied
  <2>2. PICK last :
          /\ Leads([doc |-> document, uses |-> announced], wire, last)
          /\ ~missed /\ ~dropped => last.doc = TreeDocument(tree)
          /\ ~missed => last.uses = played
      BY <2>1 DEF Mirrored, LeadsToTree
  <2> DEFINE next == TakenIn(last, m)
             end == IF played' = played THEN next ELSE TakenIn(next, n)
  <2>3. Leads([doc |-> document, uses |-> announced], Append(wire, m), next)
      BY <1>1, <2>2, OneMore
  <2>4. Leads([doc |-> document, uses |-> announced], Append(Append(wire, m), n),
              TakenIn(next, n))
      BY <1>10, <2>3, OneMore
  <2>5. next.doc = Mirror!Absorbed(last.doc, content) /\ next.uses = last.uses
      BY <1>8 DEF TakenIn
  <2>6. TakenIn(next, n).doc = next.doc /\ TakenIn(next, n).uses = left
      BY <1>8 DEF TakenIn
  <2> HIDE DEF next
  <2>7. Leads([doc |-> document', uses |-> announced'], wire', end)
      BY <1>2, <1>3, <1>9, <1>14, <2>3, <2>4
  <2>8. ~missed' /\ ~dropped' => end.doc = TreeDocument(tree')
      BY <1>2, <1>5, <2>1, <2>2, <2>5, <2>6
  <2>9. ~missed' => end.uses = played'
      BY <1>2, <2>1, <2>2, <2>5, <2>6
  <2> HIDE DEF end
  <2>10. LeadsToTree'
      BY <2>7, <2>8, <2>9 DEF LeadsToTree
  <2> QED BY <1>12, <2>10 DEF Mirrored
<1> QED BY <1>13, <1>14

\* handle_read of an opening read.
LEMMA AnswerMirrors ==
    ASSUME DeviceConstants, Mirrored, NEW function \in {"discovery", "useCases"},
           Mirror!AnswerOpeningRead(function)
    PROVE  Mirrored'
<1> DEFINE content == Mirror!DetailedDiscovery(tree)
           m == [what |-> function, data |-> content, uses |-> played]
<1>1. IsTree(tree) /\ wire \in Seq(Datagrams) /\ missed \in BOOLEAN /\ dropped \in BOOLEAN
      /\ remote = Mirror!RemoteOf(document) /\ (treeTold => opening = {})
      /\ played \subseteq UseCases
    BY DEF Mirrored, TreeTypes
<1>2. /\ wire' = Append(wire, m)
      /\ UNCHANGED <<tree, played, treeTold, opening, document, remote, announced, missed, dropped>>
    BY DEF Mirror!AnswerOpeningRead
<1>3. /\ Mirror!Entries(tree, DOMAIN tree) \subseteq Paths \X EntityFeatures
      /\ DOMAIN tree \subseteq Paths
    BY <1>1, EntriesListed DEF IsTree
<1>4. content \in [partial : BOOLEAN, change : {"none", "added", "modified", "removed"},
                entities : SUBSET Paths, features : SUBSET (Paths \X EntityFeatures)]
    BY <1>3 DEF Mirror!DetailedDiscovery
<1>5. \A doc : Mirror!Absorbed(doc, content) = TreeDocument(tree)
    BY DEF Mirror!Absorbed, Mirror!DetailedDiscovery, TreeDocument
<1> HIDE DEF content
<1>6. m \in Datagrams /\ m.what = function /\ m.data = content /\ m.uses = played
    BY <1>1, <1>4 DEF Datagrams
<1> HIDE DEF m
<1>7. TreeTypes'
    BY <1>1, <1>2, <1>6 DEF TreeTypes
<1>8. LeadsToTree'
    BY <1>2, <1>5, <1>6, Heard
<1> QED BY <1>7, <1>8 DEF Mirrored

\* What is taken from the wire.
LEMMA ReceiveMirrors ==
    ASSUME Mirrored, Mirror!ReceiveDiscovery \/ Mirror!ReceiveUseCases
    PROVE  Mirrored'
<1> DEFINE m == Head(wire)
           f == m.what
           now == [doc |-> document, uses |-> announced]
<1>1. IsTree(tree) /\ wire \in Seq(Datagrams) /\ missed \in BOOLEAN /\ dropped \in BOOLEAN
      /\ remote = Mirror!RemoteOf(document) /\ (treeTold => opening = {})
      /\ played \subseteq UseCases
    BY DEF Mirrored, TreeTypes
<1>2. /\ wire # <<>> /\ wire' = Tail(wire) /\ f \in {"discovery", "useCases"}
      /\ opening' = Mirror!Answered(f) /\ UNCHANGED <<tree, played, treeTold, missed, dropped>>
    BY DEF Mirror!ReceiveDiscovery, Mirror!ReceiveUseCases
<1>3. [doc |-> document', uses |-> announced'] = TakenIn(now, m)
  <2>1. /\ f = "discovery" => document' = Mirror!Absorbed(document, m.data) /\ announced' = announced
        /\ f = "useCases" => document' = document /\ announced' = m.uses
      BY DEF Mirror!ReceiveDiscovery, Mirror!ReceiveUseCases
  <2>2. now.doc = document /\ now.uses = announced
      OBVIOUS
  <2> HIDE DEF now
  <2> QED BY <1>2, <2>1, <2>2 DEF TakenIn
<1>4. remote' = Mirror!RemoteOf(document)'
    BY <1>1 DEF Mirror!ReceiveDiscovery, Mirror!ReceiveUseCases, Mirror!RemoteOf
<1>5. treeTold' => opening' = {}
    BY <1>1, <1>2 DEF Mirror!Answered
<1>6. Tail(wire) \in Seq(Datagrams) /\ m = wire[1] /\ Len(wire) \in Nat \ {0}
      /\ Len(Tail(wire)) = Len(wire) - 1
      /\ \A i \in 1 .. Len(wire) - 1 : Tail(wire)[i] = wire[i + 1]
    BY <1>1, <1>2
<1>7. TreeTypes'
    BY <1>1, <1>2, <1>4, <1>5, <1>6 DEF TreeTypes
<1>8. PICK last :
        /\ Leads(now, wire, last)
        /\ Mirror!Replied("discovery") /\ ~missed /\ ~dropped => last.doc = TreeDocument(tree)
        /\ Mirror!Replied("useCases") /\ ~missed => last.uses = played
    BY DEF Mirrored, LeadsToTree
<1>9. Leads([doc |-> document', uses |-> announced'], wire', last)
  <2> HIDE DEF now
  <2>1. Leads(TakenIn(now, m), Tail(wire), last)
      BY <1>1, <1>2, <1>8, OneLess
  <2> QED BY <1>2, <1>3, <2>1
<1> HIDE DEF m, f
<1>10. ASSUME NEW g \in {"discovery", "useCases"}, Mirror!Replied(g)' PROVE Mirror!Replied(g)
  <2>1. CASE g = f
      BY <1>6, <2>1 DEF Mirror!Replied, f
  <2>2. CASE g # f /\ g \notin opening'
    <3>1. g \notin opening
        BY <1>2, <2>2 DEF Mirror!Answered
    <3> QED BY <3>1 DEF Mirror!Replied
  <2>3. CASE \E i \in 1 .. Len(wire') : wire'[i].what = g
    <3>1. PICK i \in 1 .. Len(wire) - 1 : Tail(wire)[i].what = g
        BY <1>2, <1>6, <2>3
    <3>2. i + 1 \in 1 .. Len(wire) /\ wire[i + 1].what = g
        BY <1>6, <3>1
    <3> QED BY <3>2 DEF Mirror!Replied
  <2> QED BY <1>10, <2>1, <2>2, <2>3 DEF Mirror!Replied
<1>11. LeadsToTree'
    BY <1>2, <1>8, <1>9, <1>10 DEF LeadsToTree
<1> QED BY <1>7, <1>11 DEF Mirrored

LEMMA DNextMirrors ==
    ASSUME DeviceConstants, Mirrored, [Mirror!DNext]_(Mirror!dvars) PROVE Mirrored'
<1>1. CASE \E p \in Paths, features \in SUBSET EntityFeatures : Mirror!AddEntity(p, features)
    BY <1>1, AddEntityMirrors
<1>2. CASE \E p \in Paths, features \in SUBSET EntityFeatures : Mirror!ModifyEntity(p, features)
    BY <1>2, ModifyEntityMirrors
<1>3. CASE \E p \in Paths : Mirror!RemoveEntity(p)
    BY <1>3, RemoveEntityMirrors
<1>4. CASE \E function \in {"discovery", "useCases"} : Mirror!AnswerOpeningRead(function)
    BY <1>4, AnswerMirrors
<1>5. CASE Mirror!GrantSubscription
  <2>1. TreeTypes'
      BY <1>5 DEF Mirrored, TreeTypes, Mirror!GrantSubscription, Mirror!RemoteOf, IsTree
  <2>2. /\ Mirror!Replied("discovery") /\ Mirror!Replied("useCases")
        /\ UNCHANGED <<tree, played, wire, document, announced, missed, dropped>>
      BY <1>5 DEF Mirror!GrantSubscription, Mirror!Replied
  <2>3. LeadsToTree'
      BY <2>2 DEF Mirrored, LeadsToTree
  <2> QED BY <2>1, <2>3 DEF Mirrored
<1>6. CASE Mirror!ReceiveDiscovery \/ Mirror!ReceiveUseCases
    BY <1>6, ReceiveMirrors
<1>7. CASE Mirror!Reconnect
  <2>1. /\ wire' = <<>> /\ opening' = {"discovery", "useCases"} /\ ~treeTold'
        /\ remote' = Mirror!RemoteOf(document)' /\ missed' = FALSE /\ dropped' = FALSE
        /\ UNCHANGED <<tree, played>>
      BY <1>7 DEF Mirror!Reconnect, Mirror!RemoteOf
  <2>2. wire' \in Seq(Datagrams)
      BY <2>1, EmptySeq
  <2>3. TreeTypes'
      BY <2>1, <2>2 DEF Mirrored, TreeTypes
  <2>4. ~Mirror!Replied("discovery")' /\ ~Mirror!Replied("useCases")'
      BY <2>1 DEF Mirror!Replied
  <2>5. Leads([doc |-> document', uses |-> announced'], wire',
              [doc |-> document', uses |-> announced'])
      BY <2>1, NothingLeads
  <2>6. LeadsToTree'
      BY <2>4, <2>5 DEF LeadsToTree
  <2> QED BY <2>3, <2>6 DEF Mirrored
<1>8. CASE UNCHANGED Mirror!dvars
  <2>1. TreeTypes'
      BY <1>8 DEF Mirror!dvars, Mirrored, TreeTypes, Mirror!RemoteOf, IsTree
  <2>2. LeadsToTree'
      BY <1>8 DEF Mirror!dvars, Mirrored, LeadsToTree, Mirror!Replied
  <2> QED BY <2>1, <2>2 DEF Mirrored
<1> QED BY <1>1, <1>2, <1>3, <1>4, <1>5, <1>6, <1>7, <1>8 DEF Mirror!DNext

LEMMA MirroredIsSeen == ASSUME Mirrored PROVE Mirror!TreeIsMirrored
<1> SUFFICES ASSUME treeTold, wire = <<>>, ~missed, ~dropped
             PROVE  remote = tree /\ announced = played
    BY DEF Mirror!TreeIsMirrored, Mirror!Settled
<1>1. Mirror!Replied("discovery") /\ Mirror!Replied("useCases")
    BY DEF Mirrored, TreeTypes, Mirror!Replied
<1>2. PICK last : /\ Leads([doc |-> document, uses |-> announced], <<>>, last)
                  /\ last.doc = TreeDocument(tree) /\ last.uses = played
    BY <1>1 DEF Mirrored, LeadsToTree
<1>3. last = [doc |-> document, uses |-> announced]
    BY <1>2, NothingLeft
<1>4. document = TreeDocument(tree) /\ announced = played
    BY <1>2, <1>3
<1> QED BY <1>4, DocumentSays DEF Mirrored, TreeTypes

\* A client that was told everything since its opening reads has the device's tree, with
\* every entity and feature, and its use cases: partial notifications of additions,
\* changes and removed subtrees add up to the document (discovery.rs
\* merge_detailed_discovery, apply_detailed_discovery; Engine::add_entity,
\* modify_entity, remove_entity).
THEOREM TreeFollowed ==
    DeviceConstants /\ Mirror!DInit /\ [][Mirror!DNext]_(Mirror!dvars)
      => []Mirror!TreeIsMirrored
<1>1. CASE DeviceConstants
  <2>1. Mirror!DInit => Mirrored
      BY <1>1, DInitMirrors
  <2>2. Mirrored /\ [Mirror!DNext]_(Mirror!dvars) => Mirrored'
      BY <1>1, DNextMirrors
  <2>3. Mirrored => Mirror!TreeIsMirrored
      BY MirroredIsSeen
  <2> QED BY <2>1, <2>2, <2>3, PTL
<1> QED BY <1>1

-----------------------------------------------------------------------------
(* Measurands: whatever vocabulary a unit speaks, a reader takes its values *)
(* for what they measure, for every set of phases and any number of values. *)

\* No phase is named like the words for all, none and unknown.
WordsConstants ==
    {Words!Abc, Words!NoPhases, Words!Unknown} \cap PhaseNames = {}

\* A measurand is named by its quantity and phases, which are never unknown.
IsNamed(m) == m = [quantity |-> m.quantity, phases |-> m.phases]

\* Every vocabulary's scope leads back to the quantity, and to its phases unless it
\* leaves them open.
LEMMA ScopeLeadsBack ==
    ASSUME WordsConstants, NEW n \in Words!Namings, NEW m \in Words!Measurable
    PROVE  /\ IsNamed(m) /\ m.phases # Words!Unknown
           /\ Words!quantity_of(Words!scope_of(n, m)) = m.quantity
           /\ Words!phasing_of(Words!scope_of(n, m)) \in {Words!Unknown, m.phases}
<1>1. ASSUME NEW q \in Words!WholeConnection, m = Words!total(q)
      PROVE  /\ Words!quantity_of(Words!scope_of(n, m)) = q
             /\ Words!phasing_of(Words!scope_of(n, m)) = Words!Abc
  BY <1>1 DEF Words!quantity_of, Words!scope_of, Words!phasing_of, Words!scope_type,
              Words!grid_scope_type, Words!is_total, Words!total,
     Words!Measurand, Words!WholeConnection, Words!PowerScope, Words!TotalScope, Words!OtherScope, Words!QuantityNamed,
     Words!ScopesByPhase, Words!PhaselessScopes, Words!Abc, Words!NoPhases, Words!Unknown
<1>2. ASSUME NEW q \in Words!ByPhase, m = Words!total(q)
      PROVE  /\ Words!quantity_of(Words!scope_of(n, m)) = q
             /\ Words!phasing_of(Words!scope_of(n, m)) \in {Words!Unknown, Words!Abc}
  BY <1>2 DEF Words!quantity_of, Words!scope_of, Words!phasing_of, Words!scope_type,
              Words!grid_scope_type, Words!is_total, Words!total,
     Words!Measurand, Words!ByPhase, Words!PowerScope, Words!TotalScope, Words!OtherScope, Words!QuantityNamed,
     Words!ScopesByPhase, Words!PhaselessScopes, Words!Abc, Words!NoPhases, Words!Unknown
<1>3. ASSUME NEW q \in Words!ByPhase, NEW p \in PhaseNames, m = Words!on(q, p)
      PROVE  /\ Words!quantity_of(Words!scope_of(n, m)) = q
             /\ Words!phasing_of(Words!scope_of(n, m)) = Words!Unknown
  BY <1>3 DEF Words!quantity_of, Words!scope_of, Words!phasing_of, Words!scope_type,
              Words!grid_scope_type, Words!is_total, Words!on,
     Words!Measurand, Words!ByPhase, Words!PowerScope, Words!TotalScope, Words!OtherScope, Words!QuantityNamed,
     Words!ScopesByPhase, Words!PhaselessScopes, Words!Abc, Words!NoPhases, Words!Unknown, WordsConstants
<1>4. ASSUME NEW q \in Words!Phaseless, m = Words!unphased(q)
      PROVE  /\ Words!quantity_of(Words!scope_of(n, m)) = q
             /\ Words!phasing_of(Words!scope_of(n, m)) = Words!NoPhases
  BY <1>4 DEF Words!quantity_of, Words!scope_of, Words!phasing_of, Words!scope_type,
              Words!grid_scope_type, Words!is_total, Words!unphased,
     Words!Measurand, Words!Phaseless, Words!PowerScope, Words!TotalScope, Words!OtherScope, Words!QuantityNamed,
     Words!ScopesByPhase, Words!PhaselessScopes, Words!Abc, Words!NoPhases, Words!Unknown
<1>5. QED
  BY <1>1, <1>2, <1>3, <1>4 DEF Words!Measurable, IsNamed, Words!total, Words!on,
                                Words!unphased, Words!Measurand,
     WordsConstants, Words!Abc, Words!NoPhases, Words!Unknown

-----------------------------------------------------------------------------
\* What is told of a value is true of it, and what was read of it is told.
Reads(k, m) ==
    \/ k = Words!NothingKnown
    \/ k.quantity = m.quantity /\ k.phases \in {Words!Unknown, m.phases}
       /\ k = [quantity |-> k.quantity, phases |-> k.phases]
Meant ==
    /\ naming \in Words!Namings /\ slots \in Seq(Words!Measurable)
    /\ learnt \subseteq {"descriptions", "parameters"}
    /\ \A i, j \in DOMAIN slots : slots[i] = slots[j] => i = j
    /\ DOMAIN taken = DOMAIN slots /\ DOMAIN filed \subseteq DOMAIN slots
    /\ \A i \in DOMAIN slots : Reads(taken[i], slots[i])
    /\ "parameters" \in learnt =>
         \A i \in DOMAIN slots : taken[i] = slots[i]
    /\ \A i \in DOMAIN filed : filed[i] \in {Words!NothingKnown, slots[i]}

LEMMA UInitMeant == ASSUME Words!UInit PROVE Meant
BY DEF Words!UInit, Meant

LEMMA AddMeant ==
    ASSUME WordsConstants, Meant, NEW m \in Words!Measurable, Words!Add(m)
    PROVE  Meant'
<1>1. slots' \in Seq(Words!Measurable) /\ DOMAIN slots \subseteq DOMAIN slots'
  BY DEF Words!Add, Meant
<1>2. \A i, j \in DOMAIN slots' : slots'[i] = slots'[j] => i = j
  BY DEF Words!Add, Meant
<1>3. \A i \in DOMAIN slots' : taken'[i] = Words!NothingKnown
  BY DEF Words!Add
<1>4. QED
  BY <1>1, <1>2, <1>3 DEF Words!Add, Meant, Reads

LEMMA DescribeMeant ==
    ASSUME WordsConstants, Meant, NEW function \in {"descriptions", "parameters"},
           Words!Describe(function)
    PROVE  Meant'
<1>1. ASSUME NEW i \in DOMAIN slots
      PROVE  /\ Reads(taken'[i], slots[i])
             /\ "parameters" \in learnt' => taken'[i] = slots[i]
  <2> DEFINE scope == Words!scope_of(naming, slots[i])
             phases == IF function = "descriptions" THEN Words!phasing_of(scope) ELSE slots[i].phases
  <2>1. slots[i] \in Words!Measurable
    BY DEF Meant
  <2>2. /\ IsNamed(slots[i]) /\ slots[i].phases # Words!Unknown
        /\ Words!quantity_of(scope) = slots[i].quantity
        /\ Words!phasing_of(scope) \in {Words!Unknown, slots[i].phases}
    BY <2>1, ScopeLeadsBack DEF Meant
  <2>3. taken'[i] = [quantity |-> slots[i].quantity,
                     phases |-> IF phases = Words!Unknown THEN taken[i].phases ELSE phases]
    BY <2>2 DEF Words!Describe, Words!learn
  <2>4. phases \in {Words!Unknown, slots[i].phases}
    BY <2>2
  <2> HIDE DEF scope, phases
  <2>5. taken[i].phases \in {Words!Unknown, slots[i].phases}
    BY DEF Meant, Reads, Words!NothingKnown, Words!Measurand
  <2>6. "parameters" \in learnt' => phases = slots[i].phases \/ taken[i] = slots[i]
    BY DEF Words!Describe, Meant, phases
  <2>7. QED
    BY <2>2, <2>3, <2>4, <2>5, <2>6 DEF Reads, IsNamed
<1>2. DOMAIN taken' = DOMAIN slots /\ learnt' \subseteq {"descriptions", "parameters"}
  BY DEF Words!Describe, Meant
<1>3. QED
  BY <1>1, <1>2 DEF Words!Describe, Meant

LEMMA ApplyMeant ==
    ASSUME WordsConstants, Meant, Words!Apply
    PROVE  Meant'
<1>1. ASSUME NEW i \in DOMAIN slots
      PROVE  filed'[i] \in {Words!NothingKnown, slots[i]}
  <2>1. IsNamed(slots[i])
    BY ScopeLeadsBack DEF Meant
  <2>2. taken[i].phases # Words!Unknown => Words!measurand_of(taken[i]) = slots[i]
    BY <2>1 DEF Meant, Reads, Words!NothingKnown, Words!Measurand, Words!measurand_of, IsNamed
  <2>3. QED
    BY <2>2 DEF Words!Apply, Meant
<1>2. QED
  BY <1>1 DEF Words!Apply, Meant

LEMMA UNextMeant ==
    ASSUME WordsConstants, Meant, [Words!UNext]_(Words!unitVars)
    PROVE  Meant'
<1>1. CASE UNCHANGED Words!unitVars
  BY <1>1 DEF Meant, Words!unitVars
<1>2. QED
  BY <1>1, AddMeant, DescribeMeant, ApplyMeant DEF Words!UNext

LEMMA MeantIsKept ==
    ASSUME WordsConstants, Meant PROVE Words!MeaningIsKept
<1>1. ASSUME NEW i \in DOMAIN slots, taken[i] = slots[i]
      PROVE  Words!measurand_of(taken[i]) = slots[i]
  BY <1>1, ScopeLeadsBack DEF Meant, IsNamed, Words!measurand_of, Words!Measurand
<1>2. QED
  BY <1>1 DEF Meant, Words!MeaningIsKept

\* For every naming of the phases and in every use case's vocabulary, whichever description
\* comes first: a value is filed under what it measures, and no two under one name.
\* (Measurand::scope_type, Readings::describe, MonitoredUnit::add)
THEOREM MeaningFollowed ==
    WordsConstants /\ Words!UInit /\ [][Words!UNext]_(Words!unitVars) => []Words!MeaningIsKept
<1>1. WordsConstants /\ Words!UInit => Meant
  BY UInitMeant
<1>2. WordsConstants /\ Meant /\ [Words!UNext]_(Words!unitVars) => Meant'
  BY UNextMeant
<1>3. WordsConstants /\ Meant => Words!MeaningIsKept
  BY MeantIsKept
<1>4. WordsConstants => []WordsConstants
  OBVIOUS
<1>5. QED
  BY <1>1, <1>2, <1>3, <1>4, PTL

-----------------------------------------------------------------------------
(* Hvac: an appliance that follows a unit sees its modes, its overrun and   *)
(* its temperatures, for every set of functions, modes and setpoints and    *)
(* any sequence of changes, writes and lost connections.                    *)

\* A function is in one of its own modes, there is a choice of modes, and a mode or a
\* temperature is never the mark of an absent one.
HvacConstants ==
    /\ \A f \in Functions : Related[f] \subseteq Modes /\ Related[f] # {}
    /\ IsFiniteSet(Modes) /\ Cardinality(Modes) >= 2 /\ Unit!None \notin Modes
    /\ Permissible[1] # Unit!None /\ Unit!None \notin Degrees

\* The types of what the unit holds and the wires carry.
UnitModes == [current : Modes, changeable : BOOLEAN, active : BOOLEAN]
UnitStates == { s \in [Functions -> UnitModes] :
                  \A f \in Functions : s[f].current \in Related[f] }
Overruns == {"inactive", "active", "running", "finished"}
Temperatures == [Unit!AllSetpoints -> Degrees \cup {Permissible[1]}]
Units == [states : UnitStates, overrun : Overruns, temperatures : Temperatures]

OfModes == {"descriptions", "modes", "related", "states", "overruns", "overrun"}
OfPoints == {"setpointDescriptions", "constraints", "setpoints", "relations"}
UnitPayloads ==
    { [function |-> g, data |-> g] :
        g \in (OfModes \cup OfPoints) \ {"states", "overrun", "setpoints"} }
    \cup [function : {"states"}, data : UnitStates]
    \cup [function : {"overrun"}, data : Overruns]
    \cup [function : {"setpoints"}, data : Temperatures]
UnitRequests ==
    { Unit!Subscribe(side) : side \in {"HVAC", "Setpoint"} }
    \cup { Unit!Read(g) : g \in OfModes \cup OfPoints }
    \cup [what : {"mode"}, of : Functions, mode : Modes]
    \cup [what : {"overrun"}, start : BOOLEAN]
    \cup [what : {"setpoint"}, id : Unit!AllSetpoints, degrees : Degrees]

Readers ==
    [function : BOOLEAN, modes : {{}, Modes}, related : SUBSET Modes,
     states : UnitStates \cup {<<>>}, overruns : BOOLEAN,
     overrun : Overruns \cup {"unknown"}, described : BOOLEAN,
     mode : Modes \cup {Unit!None}, report : Overruns \cup {"unknown"}]
MaybeDegrees == Degrees \cup {Permissible[1], Unit!None}
PointReaders ==
    [described : {{}, Setpoints}, constraints : BOOLEAN,
     values : [Unit!AllSetpoints -> MaybeDegrees], relations : BOOLEAN,
     seen : [Unit!AllSetpoints -> MaybeDegrees]]

\* The component's Cardinality is this module's.
LEMMA UnitCounts == \A S : Unit!Cardinality(S) = Cardinality(S)
BY DEF Unit!Cardinality, Cardinality

\* What a reader derives it derives from what it has learnt.
Derived(r, f) ==
    /\ r.mode = Unit!ModeId(r, f) /\ r.report = Unit!Report(r, f)
    /\ r.described <=> Unit!IsComplete(r, f)
PointsFollowed(t) ==
    \A s \in Unit!AllSetpoints :
      s \in t.described /\ t.values[s] # Unit!None => t.seen[s] = t.values[s]

-----------------------------------------------------------------------------
(* What a payload teaches *)

LEMMA LearnedFields ==
    ASSUME NEW f \in Functions, NEW r \in Readers, NEW p \in UnitPayloads, HvacConstants
    PROVE  /\ Unit!Learned(r, f, p) \in Readers
           /\ Unit!Learned(r, f, p).function = (r.function \/ p.function = "descriptions")
           /\ Unit!Learned(r, f, p).modes = IF p.function = "modes" THEN Modes ELSE r.modes
           /\ Unit!Learned(r, f, p).related =
                IF p.function = "related" THEN Related[f] ELSE r.related
           /\ Unit!Learned(r, f, p).states = IF p.function = "states" THEN p.data ELSE r.states
           /\ Unit!Learned(r, f, p).overruns = (r.overruns \/ p.function = "overruns")
           /\ Unit!Learned(r, f, p).overrun =
                IF p.function = "overrun" THEN p.data ELSE r.overrun
           /\ Unit!Learned(r, f, p).described = r.described
<1>1. CASE p.function = "descriptions"
  <2>1. Unit!Learned(r, f, p) = [r EXCEPT !.function = TRUE]
    BY <1>1, Zenon DEF Unit!Learned
  <2>2. QED
    BY <1>1, <2>1 DEF Readers
<1>2. CASE p.function = "modes"
  <2>1. Unit!Learned(r, f, p) = [r EXCEPT !.modes = Modes]
    BY <1>2, Zenon DEF Unit!Learned
  <2>2. QED
    BY <1>2, <2>1 DEF Readers
<1>3. CASE p.function = "related"
  <2>1. Unit!Learned(r, f, p) = [r EXCEPT !.related = Related[f]]
    BY <1>3, Zenon DEF Unit!Learned
  <2>2. QED
    BY <1>3, <2>1 DEF Readers, HvacConstants
<1>4. CASE p.function = "states"
  <2>1. Unit!Learned(r, f, p) = [r EXCEPT !.states = p.data]
    BY <1>4, Zenon DEF Unit!Learned
  <2>2. QED
    BY <1>4, <2>1 DEF Readers, UnitPayloads
<1>5. CASE p.function = "overruns"
  <2>1. Unit!Learned(r, f, p) = [r EXCEPT !.overruns = TRUE]
    BY <1>5, Zenon DEF Unit!Learned
  <2>2. QED
    BY <1>5, <2>1 DEF Readers
<1>6. CASE p.function = "overrun"
  <2>1. Unit!Learned(r, f, p) = [r EXCEPT !.overrun = p.data]
    BY <1>6, Zenon DEF Unit!Learned
  <2>2. QED
    BY <1>6, <2>1 DEF Readers, UnitPayloads
<1>7. CASE p.function \in OfPoints
  <2>1. Unit!Learned(r, f, p) = r
    BY <1>7, Zenon DEF Unit!Learned, OfPoints
  <2>2. QED
    BY <1>7, <2>1 DEF Readers, OfPoints
<1>8. QED
  BY <1>1, <1>2, <1>3, <1>4, <1>5, <1>6, <1>7 DEF UnitPayloads, OfModes, OfPoints

\* A reader holds what it is told, keeps the rest, and says of it what there is to say.
LEMMA TrackedHolds ==
    ASSUME NEW f \in Functions, NEW r \in Readers, NEW p \in UnitPayloads, HvacConstants,
           Derived(r, f)
    PROVE  LET t == Unit!Tracked(r, f, p) IN
           /\ t \in Readers /\ Derived(t, f) /\ (r.described => t.described)
           /\ t.function = (r.function \/ p.function = "descriptions")
           /\ t.modes = IF p.function = "modes" THEN Modes ELSE r.modes
           /\ t.states = IF p.function = "states" THEN p.data ELSE r.states
           /\ t.overruns = (r.overruns \/ p.function = "overruns")
           /\ t.overrun = IF p.function = "overrun" THEN p.data ELSE r.overrun
<1> DEFINE l == Unit!Learned(r, f, p)
           t == Unit!Tracked(r, f, p)
<1>1. /\ l \in Readers
      /\ l.function = (r.function \/ p.function = "descriptions")
      /\ l.modes = IF p.function = "modes" THEN Modes ELSE r.modes
      /\ l.related = IF p.function = "related" THEN Related[f] ELSE r.related
      /\ l.states = IF p.function = "states" THEN p.data ELSE r.states
      /\ l.overruns = (r.overruns \/ p.function = "overruns")
      /\ l.overrun = IF p.function = "overrun" THEN p.data ELSE r.overrun
      /\ l.described = r.described
  BY LearnedFields
<1>2. CASE ~Unit!Heeds(p)
  <2>1. t = r
    BY <1>2 DEF Unit!Tracked
  <2> HIDE DEF t, l
  <2>2. p.function \notin OfModes
    BY <1>2 DEF Unit!Heeds, OfModes
  <2>3. r.function \in BOOLEAN /\ r.overruns \in BOOLEAN
    BY DEF Readers
  <2>4. /\ r.function = (r.function \/ p.function = "descriptions")
        /\ r.overruns = (r.overruns \/ p.function = "overruns")
    BY <2>2, <2>3, Zenon DEF OfModes
  <2>5. QED
    BY <2>1, <2>2, <2>4 DEF OfModes, t
<1>3. CASE Unit!Heeds(p)
  <2>1. t = [l EXCEPT !.described = l.described \/ Unit!IsComplete(l, f),
                      !.mode = Unit!ModeId(l, f), !.report = Unit!Report(l, f)]
    BY <1>3 DEF Unit!Tracked
  <2> HIDE DEF l, t
  <2>2. Unit!ModeId(l, f) \in Modes \cup {Unit!None}
    BY <1>1 DEF Unit!ModeId, Unit!StateKnown, Readers, UnitStates, UnitModes
  <2>3. Unit!Report(l, f) \in Overruns \cup {"unknown"}
    BY <1>1 DEF Unit!Report, Readers, Overruns
  <2>4. l.described \/ Unit!IsComplete(l, f) \in BOOLEAN
    BY <1>1 DEF Readers, Unit!IsComplete
  <2>10. t = [function |-> l.function, modes |-> l.modes, related |-> l.related,
              states |-> l.states, overruns |-> l.overruns, overrun |-> l.overrun,
              described |-> l.described \/ Unit!IsComplete(l, f), mode |-> Unit!ModeId(l, f),
              report |-> Unit!Report(l, f)]
    BY <1>1, <2>1 DEF Readers
  <2>5. /\ t \in Readers
        /\ t.described = (l.described \/ Unit!IsComplete(l, f))
        /\ t.mode = Unit!ModeId(l, f) /\ t.report = Unit!Report(l, f)
        /\ t.function = l.function /\ t.modes = l.modes /\ t.states = l.states
        /\ t.overruns = l.overruns /\ t.overrun = l.overrun
    BY <1>1, <2>10, <2>2, <2>3, <2>4 DEF Readers
  <2>6. /\ Unit!ModeId(t, f) = Unit!ModeId(l, f) /\ Unit!Report(t, f) = Unit!Report(l, f)
        /\ Unit!IsComplete(t, f) <=> Unit!IsComplete(l, f)
    BY <2>5 DEF Unit!ModeId, Unit!StateKnown, Unit!Report, Unit!IsComplete
  <2>7. r.described => Unit!IsComplete(l, f)
    <3>1. SUFFICES ASSUME r.described PROVE Unit!IsComplete(l, f)
      OBVIOUS
    <3>2. r.function /\ Cardinality(r.modes) >= 2 /\ Unit!ModeId(r, f) # Unit!None
      BY <3>1, UnitCounts DEF Derived, Unit!IsComplete
    <3>3. r.states # <<>>
      BY <3>2 DEF Unit!ModeId, Unit!StateKnown
    <3>4. l.states # <<>> /\ l.states \in UnitStates
      BY <1>1, <3>3 DEF UnitPayloads, Readers, UnitStates
    <3>5. l.function /\ Cardinality(l.modes) >= 2
      BY <1>1, <3>2 DEF HvacConstants
    <3>6. Unit!ModeId(l, f) \in Modes
      BY <3>4, <3>5 DEF Unit!ModeId, Unit!StateKnown, UnitStates, UnitModes
    <3>7. QED
      BY <3>5, <3>6, UnitCounts DEF Unit!IsComplete, HvacConstants
  <2>8. Derived(t, f) /\ (r.described => t.described)
    BY <1>1, <2>5, <2>6, <2>7 DEF Derived
  <2>9. QED
    BY <1>1, <2>5, <2>8 DEF t
<1>4. QED
  BY <1>2, <1>3

\* What the events of a payload tell is what the reader then holds.
LEMMA ToldHolds ==
    ASSUME NEW f \in Functions, NEW r \in Readers, NEW t \in Readers, HvacConstants,
           Derived(r, f), Derived(t, f), r.described => t.described,
           NEW m, r.described => m = r.mode,
           NEW o, r.report # "unknown" => o = r.report
    PROVE  /\ t.described => Unit!ToldMode(m, r, t) = t.mode
           /\ t.report # "unknown" => Unit!ToldReport(o, r, t) = t.report
<1>1. ASSUME t.described PROVE t.mode # Unit!None /\ t.mode \in t.modes
  <2>1. t.function /\ Cardinality(t.modes) >= 2 /\ Unit!ModeId(t, f) # Unit!None
    BY <1>1, UnitCounts DEF Derived, Unit!IsComplete
  <2>2. t.modes = Modes
    <3>1. t.modes \in {{}, Modes}
      BY DEF Readers
    <3>2. Cardinality({}) = 0
      BY FS_EmptySet
    <3>3. ~(0 >= 2)
      OBVIOUS
    <3>4. t.modes # {}
      BY <2>1, <3>2, <3>3, Zenon
    <3>5. QED
      BY <3>1, <3>4
  <2>3. t.mode = Unit!ModeId(t, f)
    BY DEF Derived
  <2>4. QED
    BY <2>1, <2>2, <2>3 DEF Readers
<1>2. t.described => Unit!ToldMode(m, r, t) = t.mode
  BY <1>1 DEF Unit!ToldMode
<1>3. t.report # "unknown" => Unit!ToldReport(o, r, t) = t.report
  BY DEF Unit!ToldReport
<1>4. QED
  BY <1>2, <1>3

LEMMA PointsHold ==
    ASSUME NEW t \in PointReaders, NEW p \in UnitPayloads, PointsFollowed(t)
    PROVE  LET n == Unit!TrackedPoints(t, p) IN
           /\ n \in PointReaders /\ PointsFollowed(n)
           /\ n.described = IF p.function = "setpointDescriptions" THEN Setpoints
                            ELSE t.described
           /\ n.values = IF p.function = "setpoints" THEN p.data ELSE t.values
           /\ n.relations = (t.relations \/ p.function = "relations")
<1> DEFINE l == Unit!LearnedPoints(t, p)
           n == Unit!TrackedPoints(t, p)
<1>1. /\ l \in PointReaders
      /\ l.described = IF p.function = "setpointDescriptions" THEN Setpoints
                       ELSE t.described
      /\ l.values = IF p.function = "setpoints" THEN p.data ELSE t.values
      /\ l.relations = (t.relations \/ p.function = "relations")
      /\ l.seen = t.seen
  <2>1. CASE p.function = "setpointDescriptions"
    <3>1. l = [t EXCEPT !.described = Setpoints]
      BY <2>1, Zenon DEF Unit!LearnedPoints
    <3>2. QED
      BY <2>1, <3>1 DEF PointReaders
  <2>2. CASE p.function = "constraints"
    <3>1. l = [t EXCEPT !.constraints = TRUE]
      BY <2>2, Zenon DEF Unit!LearnedPoints
    <3>2. QED
      BY <2>2, <3>1 DEF PointReaders
  <2>3. CASE p.function = "setpoints"
    <3>1. l = [t EXCEPT !.values = p.data]
      BY <2>3, Zenon DEF Unit!LearnedPoints
    <3>2. p.data \in [Unit!AllSetpoints -> MaybeDegrees]
      BY <2>3 DEF UnitPayloads, Temperatures, MaybeDegrees
    <3>3. QED
      BY <2>3, <3>1, <3>2 DEF PointReaders
  <2>4. CASE p.function = "relations"
    <3>1. l = [t EXCEPT !.relations = TRUE]
      BY <2>4, Zenon DEF Unit!LearnedPoints
    <3>2. QED
      BY <2>4, <3>1 DEF PointReaders
  <2>5. CASE p.function \notin OfPoints
    <3>1. l = t
      BY <2>5, Zenon DEF Unit!LearnedPoints, OfPoints
    <3> HIDE DEF l
    <3>2. t.relations = (t.relations \/ p.function = "relations")
      <4>1. t.relations \in BOOLEAN
        BY DEF PointReaders
      <4>2. QED
        BY <2>5, <4>1, Zenon DEF OfPoints
    <3>3. QED
      BY <2>5, <3>1, <3>2 DEF PointReaders, OfPoints
  <2>6. QED
    BY <2>1, <2>2, <2>3, <2>4, <2>5 DEF OfPoints
<1>2. CASE ~Unit!HeedsPoints(p)
  <2>1. n = t
    BY <1>2 DEF Unit!TrackedPoints
  <2> HIDE DEF n, l
  <2>2. p.function \notin OfPoints
    BY <1>2 DEF Unit!HeedsPoints, OfPoints
  <2>3. t.relations \in BOOLEAN
    BY DEF PointReaders
  <2>4. t.relations = (t.relations \/ p.function = "relations")
    BY <2>2, <2>3, Zenon DEF OfPoints
  <2>5. QED
    BY <2>1, <2>2, <2>4 DEF OfPoints, n
<1>3. CASE Unit!HeedsPoints(p)
  <2> DEFINE look == [s \in Unit!AllSetpoints |->
                        IF s \in l.described /\ l.values[s] # Unit!None THEN l.values[s]
                        ELSE l.seen[s]]
  <2>1. n = [l EXCEPT !.seen = look]
    BY <1>3 DEF Unit!TrackedPoints
  <2>2. look \in [Unit!AllSetpoints -> MaybeDegrees]
    BY <1>1 DEF PointReaders
  <2>3. \A s \in Unit!AllSetpoints :
          s \in l.described /\ l.values[s] # Unit!None => look[s] = l.values[s]
    OBVIOUS
  <2> HIDE DEF n, l, look
  <2>4. /\ n \in PointReaders /\ n.seen = look
        /\ n.described = l.described /\ n.values = l.values /\ n.relations = l.relations
    BY <1>1, <2>1, <2>2 DEF PointReaders
  <2>5. PointsFollowed(n)
    BY <2>3, <2>4 DEF PointsFollowed
  <2>6. QED
    BY <1>1, <2>4, <2>5 DEF n
<1>4. QED
  BY <1>2, <1>3

-----------------------------------------------------------------------------
(* The wires *)

NeededOf == OfPoints \cup (IF OverrunOf = {} THEN OfModes \ {"overruns", "overrun"}
                         ELSE OfModes)

\* The readers have d of the function.
HoldsOf(g, d) ==
    /\ g = "descriptions" => \A f \in Functions : reader[f].function
    /\ g = "modes" => \A f \in Functions : reader[f].modes = Modes
    /\ g = "states" => \A f \in Functions : reader[f].states = d
    /\ g = "overruns" => \A f \in Functions : reader[f].overruns
    /\ g = "overrun" => \A f \in Functions : reader[f].overrun = d
    /\ g = "setpointDescriptions" => points.described = Setpoints
    /\ g = "setpoints" => points.values = d
    /\ g = "relations" => points.relations

\* A read of the function is on its way, behind the subscription to its feature.
ReadDue(g) ==
    \E j \in DOMAIN toUnit :
      /\ toUnit[j] = Unit!Read(g)
      /\ \/ Unit!FeatureOf(g) \in unitSubscribed
         \/ \E i \in DOMAIN toUnit : i < j /\ toUnit[i] = Unit!Subscribe(Unit!FeatureOf(g))
\* The latest payload of it on its way is what the unit holds, or the readers hold it.
LastAt(k, g) ==
    /\ toAppliance[k] = Unit!Payload(unit, g)
    /\ \A j \in DOMAIN toAppliance : toAppliance[j].function = g => j <= k
LatestHeard(g) ==
    /\ Unit!FeatureOf(g) \in unitSubscribed
    /\ \/ \E k \in DOMAIN toAppliance : LastAt(k, g)
       \/ /\ \A k \in DOMAIN toAppliance : toAppliance[k].function # g
          /\ HoldsOf(g, Unit!Payload(unit, g).data)

UnitWires ==
    /\ unit \in Units /\ toUnit \in Seq(UnitRequests) /\ toAppliance \in Seq(UnitPayloads)
UnitTold ==
    /\ reader \in [Functions -> Readers] /\ points \in PointReaders
    /\ PointsFollowed(points)
    /\ \A f \in Functions :
         /\ Derived(reader[f], f)
         /\ reader[f].described => unitTold.mode[f] = reader[f].mode
         /\ reader[f].report # "unknown" => unitTold.report[f] = reader[f].report
    /\ \A s \in Unit!AllSetpoints : unitTold.temperatures[s] = points.seen[s]
UnitOnTheWay == \A g \in NeededOf : ReadDue(g) \/ LatestHeard(g)
UnitInv == UnitWires /\ UnitTold /\ UnitOnTheWay

LEMMA PayloadIsOne ==
    ASSUME NEW u \in Units, NEW g \in OfModes \cup OfPoints
    PROVE  Unit!Payload(u, g) \in UnitPayloads /\ Unit!Payload(u, g).function = g
BY DEF Unit!Payload, UnitPayloads, Units, OfModes, OfPoints

\* Hearing a payload: the readers hold it, and what else they held.
LEMMA HearHolds ==
    ASSUME HvacConstants, UnitWires, UnitTold, Unit!Hear
    PROVE  /\ UnitWires' /\ UnitTold'
           /\ \A g, d : g = Head(toAppliance).function /\ d = Head(toAppliance).data
                => HoldsOf(g, d)'
           /\ \A g, d : g # Head(toAppliance).function /\ HoldsOf(g, d) => HoldsOf(g, d)'
<1> DEFINE p == Head(toAppliance)
<1>1. p \in UnitPayloads /\ toAppliance' \in Seq(UnitPayloads)
  BY DEF UnitWires, Unit!Hear
<1>2. /\ reader' = [f \in Functions |-> Unit!Tracked(reader[f], f, p)]
      /\ points' = Unit!TrackedPoints(points, p)
      /\ unitTold'.mode = [f \in Functions |-> Unit!ToldMode(unitTold.mode[f], reader[f], reader'[f])]
      /\ unitTold'.report =
           [f \in Functions |-> Unit!ToldReport(unitTold.report[f], reader[f], reader'[f])]
      /\ unitTold'.temperatures = [s \in Unit!AllSetpoints |->
           IF points'.seen[s] # points.seen[s] THEN points'.seen[s]
           ELSE unitTold.temperatures[s]]
      /\ UNCHANGED <<unit, toUnit>>
  BY DEF Unit!Hear
<1> HIDE DEF p
<1>3. ASSUME NEW f \in Functions
      PROVE  /\ reader'[f] \in Readers /\ Derived(reader'[f], f)
             /\ reader[f].described => reader'[f].described
             /\ reader'[f].function = (reader[f].function \/ p.function = "descriptions")
             /\ reader'[f].modes = IF p.function = "modes" THEN Modes ELSE reader[f].modes
             /\ reader'[f].states =
                  IF p.function = "states" THEN p.data ELSE reader[f].states
             /\ reader'[f].overruns = (reader[f].overruns \/ p.function = "overruns")
             /\ reader'[f].overrun =
                  IF p.function = "overrun" THEN p.data ELSE reader[f].overrun
  <2>1. reader[f] \in Readers /\ Derived(reader[f], f)
    BY DEF UnitTold
  <2>2. reader'[f] = Unit!Tracked(reader[f], f, p)
    BY <1>2
  <2>3. QED
    BY <1>1, <2>1, <2>2, TrackedHolds
<1>4. /\ points' \in PointReaders /\ PointsFollowed(points')
      /\ points'.described = IF p.function = "setpointDescriptions" THEN Setpoints
                             ELSE points.described
      /\ points'.values = IF p.function = "setpoints" THEN p.data ELSE points.values
      /\ points'.relations = (points.relations \/ p.function = "relations")
  BY <1>1, <1>2, PointsHold DEF UnitTold
<1>5. ASSUME NEW f \in Functions
      PROVE  /\ reader'[f].described => unitTold'.mode[f] = reader'[f].mode
             /\ reader'[f].report # "unknown" => unitTold'.report[f] = reader'[f].report
  <2>1. /\ reader[f] \in Readers /\ Derived(reader[f], f)
        /\ reader[f].described => unitTold.mode[f] = reader[f].mode
        /\ reader[f].report # "unknown" => unitTold.report[f] = reader[f].report
    BY DEF UnitTold
  <2>2. /\ unitTold'.mode[f] = Unit!ToldMode(unitTold.mode[f], reader[f], reader'[f])
        /\ unitTold'.report[f] = Unit!ToldReport(unitTold.report[f], reader[f], reader'[f])
    BY <1>2
  <2>3. QED
    BY <1>3, <2>1, <2>2, ToldHolds
<1>6. \A s \in Unit!AllSetpoints : unitTold'.temperatures[s] = points'.seen[s]
  BY <1>2 DEF UnitTold
<1>7. reader' \in [Functions -> Readers]
  BY <1>2, <1>3
<1>8. UnitWires' /\ UnitTold'
  BY <1>1, <1>2, <1>3, <1>4, <1>5, <1>6, <1>7 DEF UnitWires, UnitTold
<1>9. ASSUME NEW g, NEW d, g = p.function, d = p.data
      PROVE  HoldsOf(g, d)'
  BY <1>3, <1>4, <1>9 DEF HoldsOf
<1>10. ASSUME NEW g, NEW d, g # p.function, HoldsOf(g, d)
       PROVE  HoldsOf(g, d)'
  BY ZenonT(30), <1>3, <1>4, <1>10 DEF HoldsOf
<1>11. QED
  BY <1>8, <1>9, <1>10 DEF p

LEMMA UnitHearKeeps ==
    ASSUME HvacConstants, UnitInv, Unit!Hear
    PROVE  UnitInv'
<1>1. /\ UnitWires' /\ UnitTold'
      /\ \A g, d : g = Head(toAppliance).function /\ d = Head(toAppliance).data
           => HoldsOf(g, d)'
      /\ \A g, d : g # Head(toAppliance).function /\ HoldsOf(g, d) => HoldsOf(g, d)'
  BY HearHolds DEF UnitInv
<1>2. /\ toAppliance # <<>> /\ toAppliance' = Tail(toAppliance)
      /\ UNCHANGED <<unit, unitSubscribed, toUnit>> /\ toAppliance \in Seq(UnitPayloads)
  BY DEF Unit!Hear, UnitInv, UnitWires
<1>3. ASSUME NEW g \in NeededOf, ReadDue(g) PROVE ReadDue(g)'
  BY <1>2, <1>3 DEF ReadDue
<1>4. ASSUME NEW g \in NeededOf, LatestHeard(g) PROVE LatestHeard(g)'
  <2>1. Head(toAppliance) = toAppliance[1] /\ 1 \in DOMAIN toAppliance
    BY <1>2
  <2>2. \A k \in DOMAIN toAppliance' :
          k + 1 \in DOMAIN toAppliance /\ toAppliance'[k] = toAppliance[k + 1]
    BY <1>2
  <2>3. ASSUME NEW k \in DOMAIN toAppliance, LastAt(k, g), k # 1
        PROVE  k - 1 \in DOMAIN toAppliance' /\ LastAt(k - 1, g)'
    BY <1>2, <2>2, <2>3 DEF LastAt
  <2>4. ASSUME LastAt(1, g)
        PROVE  /\ \A k \in DOMAIN toAppliance' : toAppliance'[k].function # g
               /\ HoldsOf(g, Unit!Payload(unit, g).data)'
    <3>1. \A k \in DOMAIN toAppliance' : toAppliance'[k].function # g
      BY <2>2, <2>4, <1>2 DEF LastAt
    <3>2. Head(toAppliance).function = g /\ Head(toAppliance).data = Unit!Payload(unit, g).data
      BY <2>1, <2>4 DEF LastAt, Unit!Payload
    <3>3. QED
      BY <1>1, <1>2, <3>1, <3>2
  <2>5. ASSUME \A k \in DOMAIN toAppliance : toAppliance[k].function # g,
               HoldsOf(g, Unit!Payload(unit, g).data)
        PROVE  /\ \A k \in DOMAIN toAppliance' : toAppliance'[k].function # g
               /\ HoldsOf(g, Unit!Payload(unit, g).data)'
    BY <1>1, <1>2, <2>1, <2>2, <2>5
  <2>6. QED
    BY <1>2, <1>4, <2>3, <2>4, <2>5 DEF LatestHeard
<1>5. QED
  BY <1>1, <1>3, <1>4 DEF UnitInv, UnitOnTheWay

\* Serving a request: what was due still is, unless it is served now.
LEMMA ServedOrDue ==
    ASSUME UnitWires, toUnit # <<>>, toUnit' = Tail(toUnit), unitSubscribed \subseteq unitSubscribed',
           NEW g \in NeededOf, ReadDue(g),
           \A x : Head(toUnit) = Unit!Subscribe(x) => x \in unitSubscribed'
    PROVE  ReadDue(g)' \/ (Head(toUnit) = Unit!Read(g) /\ Unit!FeatureOf(g) \in unitSubscribed)
<1>1. PICK j \in DOMAIN toUnit :
        /\ toUnit[j] = Unit!Read(g)
        /\ \/ Unit!FeatureOf(g) \in unitSubscribed
           \/ \E i \in DOMAIN toUnit : i < j /\ toUnit[i] = Unit!Subscribe(Unit!FeatureOf(g))
  BY DEF ReadDue
<1>2. toUnit \in Seq(UnitRequests) /\ Head(toUnit) = toUnit[1]
  BY DEF UnitWires
<1>3. \A k \in DOMAIN toUnit : k # 1 => k - 1 \in DOMAIN toUnit' /\ toUnit'[k - 1] = toUnit[k]
  BY <1>2
<1>4. CASE j = 1
  BY <1>1, <1>2, <1>4
<1>5. CASE j # 1
  <2>1. j - 1 \in DOMAIN toUnit' /\ toUnit'[j - 1] = Unit!Read(g)
    BY <1>1, <1>3, <1>5
  <2>2. CASE Unit!FeatureOf(g) \in unitSubscribed
    BY <2>1, <2>2 DEF ReadDue
  <2>3. ASSUME NEW i \in DOMAIN toUnit, i < j, toUnit[i] = Unit!Subscribe(Unit!FeatureOf(g))
        PROVE  ReadDue(g)'
    <3>1. CASE i = 1
      BY <1>2, <2>1, <2>3, <3>1 DEF ReadDue
    <3>2. CASE i # 1
      <4>1. /\ i - 1 \in DOMAIN toUnit' /\ i - 1 < j - 1
            /\ toUnit'[i - 1] = Unit!Subscribe(Unit!FeatureOf(g))
        BY <1>2, <1>3, <2>3, <3>2
      <4>2. QED
        BY <2>1, <4>1 DEF ReadDue
    <3>3. QED
      BY <3>1, <3>2
  <2>4. QED
    BY <1>1, <2>2, <2>3
<1>6. QED
  BY <1>4, <1>5

\* A payload is appended: it is the latest of its function, and the others' latest stay.
LEMMA AppendedIsLatest ==
    ASSUME UnitWires, NEW u \in Units, NEW g \in OfModes \cup OfPoints,
           \A h \in OfModes \cup OfPoints : h # g => Unit!Payload(u, h) = Unit!Payload(unit, h),
           unit' = u, toAppliance' = Append(toAppliance, Unit!Payload(u, g)),
           UNCHANGED <<reader, points>>, unitSubscribed \subseteq unitSubscribed'
    PROVE  /\ toAppliance' \in Seq(UnitPayloads)
           /\ \A h \in NeededOf : LatestHeard(h) => LatestHeard(h)'
           /\ Unit!FeatureOf(g) \in unitSubscribed' => LatestHeard(g)'
<1>1. /\ Unit!Payload(u, g) \in UnitPayloads /\ Unit!Payload(u, g).function = g
      /\ toAppliance \in Seq(UnitPayloads)
  BY PayloadIsOne DEF UnitWires
<1>2. PICK n \in Nat :
      /\ toAppliance' \in Seq(UnitPayloads) /\ DOMAIN toAppliance' = 1 .. n
      /\ toAppliance'[n] = Unit!Payload(u, g) /\ n \in 1 .. n
      /\ \A k \in DOMAIN toAppliance : k \in 1 .. n /\ toAppliance'[k] = toAppliance[k]
      /\ \A k \in 1 .. n : k # n => k \in DOMAIN toAppliance
  <2>1. Len(toAppliance) + 1 \in Nat
    BY <1>1
  <2>2. QED
    BY <1>1, <2>1
<1>3. Unit!FeatureOf(g) \in unitSubscribed' => LatestHeard(g)'
  <2>1. LastAt(n, g)'
    BY <1>2 DEF LastAt
  <2>2. QED
    BY <1>2, <2>1 DEF LatestHeard
<1>4. ASSUME NEW h \in NeededOf, LatestHeard(h) PROVE LatestHeard(h)'
  <2>1. Unit!FeatureOf(h) \in unitSubscribed' /\ h \in OfModes \cup OfPoints
    BY <1>4 DEF LatestHeard, NeededOf
  <2>2. CASE h = g
    BY <1>3, <2>1, <2>2
  <2>3. CASE h # g
    <3>1. Unit!Payload(unit', h) = Unit!Payload(unit, h)
      BY <2>1, <2>3
    <3>2. ASSUME NEW k \in DOMAIN toAppliance, LastAt(k, h)
          PROVE  k \in DOMAIN toAppliance' /\ LastAt(k, h)'
      BY <1>1, <1>2, <2>3, <3>1, <3>2 DEF LastAt
    <3>3. ASSUME \A k \in DOMAIN toAppliance : toAppliance[k].function # h,
                 HoldsOf(h, Unit!Payload(unit, h).data)
          PROVE  /\ \A k \in DOMAIN toAppliance' : toAppliance'[k].function # h
                 /\ HoldsOf(h, Unit!Payload(unit, h).data)'
      <4>1. \A k \in DOMAIN toAppliance' : toAppliance'[k].function # h
        BY <1>1, <1>2, <2>3, <3>3
      <4>2. HoldsOf(h, Unit!Payload(unit, h).data)'
        BY <3>1, <3>3 DEF HoldsOf
      <4>3. QED
        BY <4>1, <4>2
    <3>4. QED
      BY <1>4, <2>1, <3>2, <3>3 DEF LatestHeard
  <2>4. QED
    BY <2>2, <2>3
<1>5. QED
  BY <1>2, <1>3, <1>4

\* A change of the unit: whoever is subscribed hears of it, whoever is not will read it.
LEMMA UnitPublishKeeps ==
    ASSUME UnitWires, NEW u \in Units, NEW g \in {"states", "overrun", "setpoints"},
           \A h \in OfModes \cup OfPoints : h # g => Unit!Payload(u, h) = Unit!Payload(unit, h),
           Unit!Publish(u, g), UNCHANGED <<reader, points, unitSubscribed>>
    PROVE  /\ unit' \in Units /\ toAppliance' \in Seq(UnitPayloads)
           /\ \A h \in NeededOf : LatestHeard(h) => LatestHeard(h)'
<1>1. g \in OfModes \cup OfPoints /\ unit' = u
  BY DEF OfModes, OfPoints, Unit!Publish
<1>2. CASE Unit!FeatureOf(g) \in unitSubscribed
  BY <1>1, <1>2, AppendedIsLatest DEF Unit!Publish
<1>3. CASE Unit!FeatureOf(g) \notin unitSubscribed
  <2>1. toAppliance' = toAppliance
    BY <1>3 DEF Unit!Publish
  <2>2. ASSUME NEW h \in NeededOf, LatestHeard(h) PROVE LatestHeard(h)'
    <3>1. h # g /\ h \in OfModes \cup OfPoints
      BY <1>3, <2>2 DEF LatestHeard, NeededOf
    <3>2. Unit!Payload(unit', h) = Unit!Payload(unit, h)
      BY <1>1, <3>1
    <3>3. QED
      BY <2>1, <2>2, <3>2 DEF LatestHeard, LastAt, HoldsOf
  <2>3. QED
    BY <1>1, <2>1, <2>2 DEF UnitWires
<1>4. QED
  BY <1>2, <1>3

-----------------------------------------------------------------------------
(* The unitSteps *)

LEMMA UnitSendKeeps ==
    ASSUME UnitInv, NEW w \in UnitRequests, Unit!Send(w)
    PROVE  UnitInv'
<1>1. /\ toUnit' = Append(toUnit, w)
      /\ UNCHANGED <<unit, unitSubscribed, toAppliance, reader, points, unitTold>>
      /\ toUnit \in Seq(UnitRequests)
  BY DEF Unit!Send, UnitInv, UnitWires
<1>2. UnitWires' /\ UnitTold'
  BY <1>1 DEF UnitInv, UnitWires, UnitTold
<1>3. \A k \in DOMAIN toUnit : k \in DOMAIN toUnit' /\ toUnit'[k] = toUnit[k]
  BY <1>1
<1>4. ASSUME NEW g \in NeededOf, ReadDue(g) PROVE ReadDue(g)'
  BY <1>1, <1>3, <1>4 DEF ReadDue
<1>5. ASSUME NEW g \in NeededOf, LatestHeard(g) PROVE LatestHeard(g)'
  BY <1>1, <1>5 DEF LatestHeard, LastAt, HoldsOf
<1>6. QED
  BY <1>2, <1>4, <1>5 DEF UnitInv, UnitOnTheWay

LEMMA Placed ==
    ASSUME NEW X, NEW s \in Seq(X), NEW t \in Seq(X)
    PROVE  /\ s \o t \in Seq(X) /\ Len(s \o t) = Len(s) + Len(t)
           /\ \A p \in 1 .. Len(s) : (s \o t)[p] = s[p]
           /\ \A p \in 1 .. Len(t) : (s \o t)[Len(s) + p] = t[p]
BY ConcatProperties, LenProperties

LEMMA ReadAllReads ==
    ASSUME NEW s \in Seq(OfModes \cup OfPoints)
    PROVE  /\ Unit!ReadAll(s) \in Seq(UnitRequests) /\ Len(Unit!ReadAll(s)) = Len(s)
           /\ \A p \in 1 .. Len(s) : Unit!ReadAll(s)[p] = Unit!Read(s[p])
<1>1. DOMAIN s = 1 .. Len(s) /\ Len(s) \in Nat
  OBVIOUS
<1>2. \A p \in 1 .. Len(s) : Unit!Read(s[p]) \in UnitRequests
  BY DEF UnitRequests
<1>3. Unit!ReadAll(s) = [p \in 1 .. Len(s) |-> Unit!Read(s[p])]
  BY <1>1 DEF Unit!ReadAll
<1> DEFINE R(p) == Unit!Read(s[p])
<1> HIDE DEF R
<1>4. Unit!ReadAll(s) = [p \in 1 .. Len(s) |-> R(p)] /\ \A p \in 1 .. Len(s) : R(p) \in UnitRequests
  BY <1>2, <1>3 DEF R
<1>5. Unit!ReadAll(s) \in Seq(UnitRequests) /\ Len(Unit!ReadAll(s)) = Len(s)
  BY <1>1, <1>4
<1>6. QED
  BY <1>3, <1>5

\* A connection that comes back asks for everything, each behind its subscription.
LEMMA FollowAsks ==
    /\ Unit!Follow \in Seq(UnitRequests)
    /\ \A g \in NeededOf : \E i, j \in DOMAIN Unit!Follow :
         i < j /\ Unit!Follow[i] = Unit!Subscribe(Unit!FeatureOf(g)) /\ Unit!Follow[j] = Unit!Read(g)
<1> DEFINE S == Unit!ModeReads \o Unit!OverrunReads
           M == Unit!ReadAll(S)
           T == Unit!ReadAll(Unit!TemperatureReads)
           a == Unit!Subscribe("HVAC")
           b == Unit!Subscribe("Setpoint")
           Q == OfModes \cup OfPoints
<1>1. \A g \in Q : Unit!Read(g) \in UnitRequests
  BY DEF UnitRequests
<1>2. a \in UnitRequests /\ b \in UnitRequests
  BY DEF UnitRequests
<1>3. Unit!ModeReads \in Seq(Q) /\ Unit!OverrunReads \in Seq(Q) /\ Unit!TemperatureReads \in Seq(Q)
  <2>1. Unit!ModeReads \in Seq(Q) /\ Unit!TemperatureReads \in Seq(Q)
    BY DEF Unit!ModeReads, Unit!TemperatureReads, OfModes, OfPoints
  <2>2. <<>> \in Seq(Q) /\ <<"overruns", "overrun">> \in Seq(Q)
    BY DEF OfModes
  <2>3. QED
    BY <2>1, <2>2 DEF Unit!OverrunReads
<1>4. /\ Len(Unit!ModeReads) = 4 /\ Len(Unit!TemperatureReads) = 4
      /\ OverrunOf # {} => Len(Unit!OverrunReads) = 2
  BY DEF Unit!ModeReads, Unit!OverrunReads, Unit!TemperatureReads
<1>5. /\ S \in Seq(Q) /\ Len(S) = 4 + Len(Unit!OverrunReads)
      /\ \A p \in 1 .. 4 : S[p] = Unit!ModeReads[p]
      /\ \A p \in 1 .. Len(Unit!OverrunReads) : S[4 + p] = Unit!OverrunReads[p]
  <2> HIDE DEF Q
  <2>1. /\ S \in Seq(Q) /\ Len(S) = Len(Unit!ModeReads) + Len(Unit!OverrunReads)
        /\ \A p \in 1 .. Len(Unit!ModeReads) : S[p] = Unit!ModeReads[p]
        /\ \A p \in 1 .. Len(Unit!OverrunReads) : S[Len(Unit!ModeReads) + p] = Unit!OverrunReads[p]
    <3>1. Unit!ModeReads \in Seq(Q) /\ Unit!OverrunReads \in Seq(Q)
      BY <1>3
    <3>2. QED
      BY ONLY <3>1, Placed DEF S
  <2> HIDE DEF S
  <2>2. QED
    BY <1>4, <2>1
<1> HIDE DEF S
<1>6. /\ M \in Seq(UnitRequests) /\ Len(M) = Len(S)
      /\ \A p \in 1 .. Len(S) : M[p] = Unit!Read(S[p])
  BY <1>5, ReadAllReads
<1>7. /\ T \in Seq(UnitRequests) /\ Len(T) = 4
      /\ \A p \in 1 .. 4 : T[p] = Unit!Read(Unit!TemperatureReads[p])
  BY <1>3, <1>4, ReadAllReads
<1> HIDE DEF M, T, a, b
<1>8. Unit!Follow = <<a>> \o M \o <<a, b>> \o T
  BY DEF Unit!Follow, M, T, a, b, S
<1>9. /\ <<a>> \o M \in Seq(UnitRequests) /\ Len(<<a>> \o M) = 1 + Len(S)
      /\ (<<a>> \o M)[1] = a
      /\ \A p \in 1 .. Len(S) : (<<a>> \o M)[1 + p] = M[p]
  <2>1. <<a>> \in Seq(UnitRequests) /\ Len(<<a>>) = 1 /\ <<a>>[1] = a /\ 1 \in 1 .. 1
    BY <1>2
  <2>2. QED
    BY <1>6, <2>1, Placed
<1> DEFINE H == <<a>> \o M
<1> HIDE DEF H
<1>10. /\ H \o <<a, b>> \in Seq(UnitRequests) /\ Len(H \o <<a, b>>) = 3 + Len(S)
       /\ (H \o <<a, b>>)[3 + Len(S)] = b
       /\ \A p \in 1 .. (1 + Len(S)) : (H \o <<a, b>>)[p] = H[p]
  <2>1. <<a, b>> \in Seq(UnitRequests) /\ Len(<<a, b>>) = 2 /\ <<a, b>>[2] = b /\ 2 \in 1 .. 2
    BY <1>2
  <2>2. H \in Seq(UnitRequests) /\ Len(H) = 1 + Len(S) /\ Len(S) \in Nat
    BY <1>5, <1>9 DEF H
  <2>3. /\ H \o <<a, b>> \in Seq(UnitRequests) /\ Len(H \o <<a, b>>) = Len(H) + 2
        /\ (H \o <<a, b>>)[Len(H) + 2] = b
        /\ \A p \in 1 .. Len(H) : (H \o <<a, b>>)[p] = H[p]
    BY <2>1, <2>2, Placed
  <2>4. Len(H) + 2 = 3 + Len(S)
    BY <2>2
  <2>5. QED
    BY <2>2, <2>3, <2>4
<1> DEFINE G == H \o <<a, b>>
<1> HIDE DEF G
<1>11. /\ G \o T \in Seq(UnitRequests) /\ DOMAIN (G \o T) = 1 .. (7 + Len(S))
       /\ \A p \in 1 .. (3 + Len(S)) : (G \o T)[p] = G[p]
       /\ \A p \in 1 .. 4 : (G \o T)[3 + Len(S) + p] = T[p]
  <2>1. G \in Seq(UnitRequests) /\ Len(G) = 3 + Len(S) /\ Len(S) \in Nat
    BY <1>5, <1>10 DEF G
  <2>2. /\ G \o T \in Seq(UnitRequests) /\ Len(G \o T) = Len(G) + Len(T)
        /\ \A p \in 1 .. Len(G) : (G \o T)[p] = G[p]
        /\ \A p \in 1 .. Len(T) : (G \o T)[Len(G) + p] = T[p]
    <3>1. G \in Seq(UnitRequests) /\ T \in Seq(UnitRequests)
      BY <1>7, <2>1
    <3>2. QED
      BY ONLY <3>1, Placed
  <2>3. Len(G) + Len(T) = 7 + Len(S)
    BY <1>7, <2>1
  <2>4. DOMAIN (G \o T) = 1 .. Len(G \o T)
    BY <2>2
  <2>5. QED
    BY <1>7, <2>1, <2>2, <2>3, <2>4
<1>12. /\ Unit!Follow \in Seq(UnitRequests) /\ DOMAIN Unit!Follow = 1 .. (7 + Len(S)) /\ Unit!Follow[1] = a
       /\ Unit!Follow[3 + Len(S)] = b
       /\ \A p \in 1 .. Len(S) : Unit!Follow[1 + p] = Unit!Read(S[p])
       /\ \A p \in 1 .. 4 : Unit!Follow[3 + Len(S) + p] = Unit!Read(Unit!TemperatureReads[p])
  <2>1. Unit!Follow = G \o T
    BY <1>8 DEF G, H
  <2>2. G[1] = a /\ G[3 + Len(S)] = b /\ \A p \in 1 .. Len(S) : G[1 + p] = M[p]
    BY <1>5, <1>9, <1>10 DEF G, H
  <2>3. QED
    <3>1. Len(S) \in Nat /\ 1 \in 1 .. (3 + Len(S)) /\ 3 + Len(S) \in 1 .. (3 + Len(S))
      BY <1>5
    <3>2. \A p \in 1 .. Len(S) : 1 + p \in 1 .. (3 + Len(S))
      BY <3>1
    <3>3. \A p \in 1 .. Len(S) : Unit!Follow[1 + p] = G[1 + p]
      BY <1>11, <2>1, <3>2
    <3>4. \A p \in 1 .. Len(S) : Unit!Follow[1 + p] = Unit!Read(S[p])
      BY <1>6, <2>2, <3>3
    <3>5. Unit!Follow[1] = a /\ Unit!Follow[3 + Len(S)] = b
      BY <1>11, <2>1, <2>2, <3>1
    <3>6. QED
      BY <1>7, <1>11, <2>1, <3>4, <3>5
<1>13. ASSUME NEW g \in OfModes \cap NeededOf
       PROVE  \E p \in 1 .. Len(S) : S[p] = g
  <2>1. CASE g \in {"descriptions", "modes", "related", "states"}
    <3>1. \E p \in 1 .. 4 : Unit!ModeReads[p] = g
      BY <2>1 DEF Unit!ModeReads
    <3>2. QED
      BY <1>3, <1>5, <3>1
  <2>2. CASE g \in {"overruns", "overrun"}
    <3>1. OverrunOf # {} /\ \E p \in 1 .. 2 : Unit!OverrunReads[p] = g
      BY <2>2 DEF Unit!OverrunReads, NeededOf, OfModes, OfPoints
    <3>2. QED
      BY <1>4, <1>5, <3>1
  <2>3. QED
    BY <2>1, <2>2 DEF OfModes
<1>14. ASSUME NEW g \in OfPoints
       PROVE  \E p \in 1 .. 4 : Unit!TemperatureReads[p] = g
  BY DEF Unit!TemperatureReads, OfPoints
<1>15. ASSUME NEW g \in NeededOf
       PROVE  \E i, j \in DOMAIN Unit!Follow :
                i < j /\ Unit!Follow[i] = Unit!Subscribe(Unit!FeatureOf(g)) /\ Unit!Follow[j] = Unit!Read(g)
  <2>1. CASE g \in OfModes
    <3>1. PICK p \in 1 .. Len(S) : S[p] = g
      BY <1>13, <2>1
    <3>2. Unit!Subscribe(Unit!FeatureOf(g)) = a
      BY <2>1 DEF Unit!FeatureOf, OfModes, a
    <3>3. /\ 1 \in DOMAIN Unit!Follow /\ 1 + p \in DOMAIN Unit!Follow /\ 1 < 1 + p
          /\ Unit!Follow[1 + p] = Unit!Read(g)
      BY <1>5, <1>12, <3>1
    <3>4. QED
      BY <1>12, <3>2, <3>3
  <2>2. CASE g \in OfPoints
    <3>1. PICK p \in 1 .. 4 : Unit!TemperatureReads[p] = g
      BY <1>14, <2>2
    <3>2. Unit!Subscribe(Unit!FeatureOf(g)) \in {a, b}
      BY <2>2 DEF Unit!FeatureOf, OfPoints, a, b
    <3>3. /\ {1, 3 + Len(S), 3 + Len(S) + p} \subseteq DOMAIN Unit!Follow
          /\ 1 < 3 + Len(S) + p /\ 3 + Len(S) < 3 + Len(S) + p
          /\ Unit!Follow[3 + Len(S) + p] = Unit!Read(g)
      <4>1. Len(S) \in Nat /\ p \in {1, 2, 3, 4}
        BY <1>5, <3>1
      <4>2. QED
        BY <1>12, <3>1, <4>1
    <3>4. QED
      BY <1>12, <3>2, <3>3
  <2>3. QED
    BY <2>1, <2>2 DEF NeededOf
<1>16. QED
  BY <1>12, <1>15

LEMMA UnitReattachKeeps ==
    ASSUME UnitInv, Unit!Reattach
    PROVE  UnitInv'
<1>1. /\ toUnit' = Unit!Follow /\ toAppliance' = <<>> /\ UNCHANGED <<unit, reader, points, unitTold>>
  BY DEF Unit!Reattach
<1>2. UnitWires' /\ UnitTold'
  BY <1>1, FollowAsks DEF UnitInv, UnitWires, UnitTold
<1>3. \A g \in NeededOf : ReadDue(g)'
  BY <1>1, FollowAsks DEF ReadDue
<1>4. QED
  BY <1>2, <1>3 DEF UnitInv, UnitOnTheWay

\* A change of one of the three things a unit holds is heard in one function.
ChangesOnly(u, g) ==
    /\ u \in Units /\ g \in {"states", "overrun", "setpoints"}
    /\ \A h \in OfModes \cup OfPoints : h # g => Unit!Payload(u, h) = Unit!Payload(unit, h)

LEMMA OneIsChanged ==
    ASSUME unit \in Units
    PROVE  /\ \A s \in UnitStates : ChangesOnly([unit EXCEPT !.states = s], "states")
           /\ \A o \in Overruns : ChangesOnly([unit EXCEPT !.overrun = o], "overrun")
           /\ \A t \in Temperatures : ChangesOnly([unit EXCEPT !.temperatures = t], "setpoints")
BY DEF ChangesOnly, Units, Unit!Payload, OfModes, OfPoints

LEMMA StatesMove ==
    ASSUME unit \in Units, NEW f \in Functions, NEW x \in UnitModes, x.current \in Related[f]
    PROVE  ChangesOnly([unit EXCEPT !.states[f] = x], "states")
<1>1. unit.states \in UnitStates
  BY DEF Units
<1>2. [unit.states EXCEPT ![f] = x] \in UnitStates
  BY <1>1 DEF UnitStates
<1>3. [unit EXCEPT !.states[f] = x] = [unit EXCEPT !.states = [unit.states EXCEPT ![f] = x]]
  BY DEF Units
<1>4. QED
  BY <1>2, <1>3, OneIsChanged

LEMMA TemperaturesMove ==
    ASSUME unit \in Units, NEW s \in Unit!AllSetpoints, NEW d \in Degrees
    PROVE  ChangesOnly([unit EXCEPT !.temperatures[s] = d], "setpoints")
<1>1. [unit.temperatures EXCEPT ![s] = d] \in Temperatures
  BY DEF Units, Temperatures
<1>2. [unit EXCEPT !.temperatures[s] = d]
        = [unit EXCEPT !.temperatures = [unit.temperatures EXCEPT ![s] = d]]
  BY DEF Units
<1>3. QED
  BY <1>1, <1>2, OneIsChanged

LEMMA OneStateMoves ==
    ASSUME unit \in Units, NEW f \in Functions
    PROVE  /\ \A m \in Related[f] : m \in Modes =>
                ChangesOnly([unit EXCEPT !.states[f].current = m], "states")
           /\ ChangesOnly([unit EXCEPT !.states[f].changeable = ~unit.states[f].changeable],
                      "states")
           /\ ChangesOnly([unit EXCEPT !.states[f].active = unit.overrun = "running"], "states")
<1> DEFINE x == unit.states[f]
<1>1. x \in UnitModes /\ x.current \in Related[f]
  BY DEF Units, UnitStates
<1>2. ASSUME NEW m \in Related[f], m \in Modes
      PROVE  ChangesOnly([unit EXCEPT !.states[f].current = m], "states")
  <2>1. [x EXCEPT !.current = m] \in UnitModes /\ [x EXCEPT !.current = m].current = m
    BY <1>1, <1>2 DEF UnitModes
  <2>2. [unit EXCEPT !.states[f].current = m]
          = [unit EXCEPT !.states[f] = [x EXCEPT !.current = m]]
    BY DEF Units, UnitStates
  <2>3. QED
    BY <1>2, <2>1, <2>2, StatesMove
<1>3. ChangesOnly([unit EXCEPT !.states[f].changeable = ~unit.states[f].changeable], "states")
  <2> DEFINE b == ~unit.states[f].changeable
  <2>1. b \in BOOLEAN
    OBVIOUS
  <2>2. [unit EXCEPT !.states[f].changeable = b]
          = [unit EXCEPT !.states[f] = [x EXCEPT !.changeable = b]]
    BY DEF Units, UnitStates
  <2> HIDE DEF b
  <2>3. /\ [x EXCEPT !.changeable = b] \in UnitModes
        /\ [x EXCEPT !.changeable = b].current = x.current
    BY <1>1, <2>1 DEF UnitModes
  <2>4. QED
    BY <1>1, <2>2, <2>3, StatesMove DEF b
<1>4. ChangesOnly([unit EXCEPT !.states[f].active = unit.overrun = "running"], "states")
  <2> DEFINE b == unit.overrun = "running"
  <2>1. b \in BOOLEAN
    OBVIOUS
  <2>2. [unit EXCEPT !.states[f].active = b]
          = [unit EXCEPT !.states[f] = [x EXCEPT !.active = b]]
    BY DEF Units, UnitStates
  <2> HIDE DEF b
  <2>3. [x EXCEPT !.active = b] \in UnitModes /\ [x EXCEPT !.active = b].current = x.current
    BY <1>1, <2>1 DEF UnitModes
  <2>4. QED
    BY <1>1, <2>2, <2>3, StatesMove DEF b
<1>5. QED
  BY <1>2, <1>3, <1>4

LEMMA UnitMoveKeeps ==
    ASSUME UnitInv, NEW u, NEW g, ChangesOnly(u, g), Unit!Move(u, g)
    PROVE  UnitInv'
<1>1. /\ Unit!Publish(u, g) /\ UNCHANGED <<unitSubscribed, toUnit, reader, points, unitTold>>
  BY DEF Unit!Move
<1>2. /\ unit' \in Units /\ toAppliance' \in Seq(UnitPayloads)
      /\ \A h \in NeededOf : LatestHeard(h) => LatestHeard(h)'
  BY <1>1, UnitPublishKeeps DEF ChangesOnly, UnitInv
<1>3. \A h \in NeededOf : ReadDue(h) => ReadDue(h)'
  BY <1>1 DEF ReadDue
<1>4. QED
  BY <1>1, <1>2, <1>3 DEF UnitInv, UnitWires, UnitTold, UnitOnTheWay

LEMMA MovesKeep ==
    ASSUME HvacConstants, UnitInv, Unit!Moves
    PROVE  UnitInv'
<1>1. unit \in Units
  BY DEF UnitInv, UnitWires
<1>2. ASSUME NEW f \in Functions, NEW m \in Related[f],
             Unit!Move([unit EXCEPT !.states[f].current = m], "states")
      PROVE  UnitInv'
  BY <1>1, <1>2, OneStateMoves, UnitMoveKeeps DEF HvacConstants
<1>3. ASSUME NEW f \in Functions,
             Unit!Move([unit EXCEPT !.states[f].changeable = ~unit.states[f].changeable],
             "states")
      PROVE  UnitInv'
  BY <1>1, <1>3, OneStateMoves, UnitMoveKeeps
<1>4. ASSUME NEW f \in Functions,
             Unit!Move([unit EXCEPT !.states[f].active = unit.overrun = "running"], "states")
      PROVE  UnitInv'
  BY <1>1, <1>4, OneStateMoves, UnitMoveKeeps
<1>5. ASSUME NEW s \in Unit!AllSetpoints, NEW d \in Degrees,
             Unit!Move([unit EXCEPT !.temperatures[s] = d], "setpoints")
      PROVE  UnitInv'
  BY <1>1, <1>5, TemperaturesMove, UnitMoveKeeps
<1>6. ASSUME NEW o \in Unit!OverrunMoves[unit.overrun],
             Unit!Move([unit EXCEPT !.overrun = o], "overrun")
      PROVE  UnitInv'
  <2>1. o \in Overruns
    BY <1>1, <1>6 DEF Unit!OverrunMoves, Units, Overruns
  <2>2. QED
    BY <1>1, <1>6, <2>1, OneIsChanged, UnitMoveKeeps
<1>7. QED
  BY <1>2, <1>3, <1>4, <1>5, <1>6 DEF Unit!Moves

\* A write the unit takes is a change of it.
LEMMA WrittenIsChanged ==
    ASSUME HvacConstants, unit \in Units, NEW w \in UnitRequests,
           w.what \in {"mode", "overrun", "setpoint"}, Unit!Permitted(w)
    PROVE  ChangesOnly(Unit!Written(w), Unit!FunctionOf(w))
<1>1. CASE w.what = "mode"
  <2>1. /\ w.mode \in Related[w.of] /\ Unit!FunctionOf(w) = "states"
        /\ Unit!Written(w) = [unit EXCEPT !.states[w.of].current = w.mode]
    BY <1>1, Zenon DEF Unit!Permitted, Unit!FunctionOf, Unit!Written
  <2>2. w.of \in Functions
    BY <1>1 DEF UnitRequests, Unit!Read, Unit!Subscribe
  <2>3. w.mode \in Modes
    BY <2>1, <2>2 DEF HvacConstants
  <2>4. ChangesOnly([unit EXCEPT !.states[w.of].current = w.mode], "states")
    BY <2>1, <2>2, <2>3, OneStateMoves
  <2>5. QED
    BY <2>1, <2>4
<1>2. CASE w.what = "overrun"
  <2> DEFINE o == IF w.start THEN "active" ELSE "inactive"
  <2>1. Unit!FunctionOf(w) = "overrun" /\ Unit!Written(w) = [unit EXCEPT !.overrun = o]
    BY <1>2, Zenon DEF Unit!FunctionOf, Unit!Written
  <2>2. o \in Overruns
    BY DEF Overruns
  <2>3. QED
    BY <2>1, <2>2, OneIsChanged
<1>3. CASE w.what = "setpoint"
  <2>1. /\ Unit!FunctionOf(w) = "setpoints"
        /\ Unit!Written(w) = [unit EXCEPT !.temperatures[w.id] = w.degrees]
    BY <1>3, Zenon DEF Unit!FunctionOf, Unit!Written
  <2>2. w.id \in Unit!AllSetpoints /\ w.degrees \in Degrees
    BY <1>3 DEF UnitRequests, Unit!Read, Unit!Subscribe
  <2>3. QED
    BY <2>1, <2>2, TemperaturesMove
<1>4. QED
  BY <1>1, <1>2, <1>3

LEMMA UnitServeKeeps ==
    ASSUME HvacConstants, UnitInv, Unit!Serve
    PROVE  UnitInv'
<1> DEFINE m == Head(toUnit)
<1>1. /\ toUnit # <<>> /\ toUnit' = Tail(toUnit) /\ UNCHANGED <<reader, points, unitTold>>
      /\ UnitWires /\ UnitTold /\ UnitOnTheWay
  BY Zenon DEF Unit!Serve, UnitInv
<1>2. m \in UnitRequests /\ toUnit' \in Seq(UnitRequests)
  BY <1>1 DEF UnitWires
<1>3. CASE m.what = "subscribe"
  <2>1. unitSubscribed' = unitSubscribed \cup {m.feature} /\ UNCHANGED <<unit, toAppliance>>
    BY <1>3, Zenon DEF Unit!Serve
  <2>2. \A x : m = Unit!Subscribe(x) => x \in unitSubscribed'
    BY <2>1 DEF Unit!Subscribe
  <2>3. \A g : m # Unit!Read(g)
    BY <1>3 DEF Unit!Read
  <2>4. \A g \in NeededOf : ReadDue(g) => ReadDue(g)'
    BY <1>1, <2>1, <2>2, <2>3, ServedOrDue
  <2>5. \A g \in NeededOf : LatestHeard(g) => LatestHeard(g)'
    BY <1>1, <2>1 DEF LatestHeard, LastAt, HoldsOf
  <2>6. UnitWires' /\ UnitTold'
    BY <1>1, <1>2, <2>1 DEF UnitWires, UnitTold
  <2>7. QED
    BY <1>1, <2>4, <2>5, <2>6 DEF UnitInv, UnitOnTheWay
<1>4. CASE m.what = "read"
  <2>1. /\ toAppliance' = Append(toAppliance, Unit!Payload(unit, m.function))
        /\ UNCHANGED <<unit, unitSubscribed>>
    BY <1>4, Zenon DEF Unit!Serve
  <2>2. m = Unit!Read(m.function) /\ m.function \in OfModes \cup OfPoints
    BY <1>2, <1>4 DEF UnitRequests, Unit!Read, Unit!Subscribe
  <2>3. \A x : m # Unit!Subscribe(x)
    BY <1>4 DEF Unit!Subscribe
  <2>4. \A g : m = Unit!Read(g) => g = m.function
    BY DEF Unit!Read
  <2>5. ASSUME NEW g \in OfModes \cup OfPoints, g = m.function
        PROVE  /\ toAppliance' \in Seq(UnitPayloads)
               /\ \A h \in NeededOf : LatestHeard(h) => LatestHeard(h)'
               /\ Unit!FeatureOf(g) \in unitSubscribed' => LatestHeard(g)'
    <3>1. unit \in Units /\ unit' = unit /\ unitSubscribed \subseteq unitSubscribed'
      BY <1>1, <2>1 DEF UnitWires
    <3>2. toAppliance' = Append(toAppliance, Unit!Payload(unit, g))
      BY <2>1, <2>5
    <3> HIDE DEF m
    <3>3. QED
      BY <1>1, <3>1, <3>2, AppendedIsLatest
  <2>6. ASSUME NEW g \in NeededOf, ReadDue(g) PROVE ReadDue(g)' \/ LatestHeard(g)'
    <3>1. ReadDue(g)' \/ (m = Unit!Read(g) /\ Unit!FeatureOf(g) \in unitSubscribed)
      BY <1>1, <2>1, <2>3, <2>6, ServedOrDue
    <3>2. QED
      BY <2>1, <2>4, <2>5, <3>1 DEF NeededOf
  <2>7. UnitWires' /\ UnitTold'
    BY <1>1, <1>2, <2>1, <2>2, <2>5 DEF UnitWires, UnitTold
  <2>8. QED
    BY <1>1, <2>2, <2>5, <2>6, <2>7 DEF UnitInv, UnitOnTheWay
<1>5. CASE m.what \in {"mode", "overrun", "setpoint"}
  <2>1. /\ IF Unit!Permitted(m) THEN Unit!Publish(Unit!Written(m), Unit!FunctionOf(m))
           ELSE UNCHANGED <<unit, toAppliance>>
        /\ UNCHANGED unitSubscribed
    BY <1>5, Zenon DEF Unit!Serve
  <2>2. (\A g : m # Unit!Read(g)) /\ (\A x : m # Unit!Subscribe(x))
    BY <1>5 DEF Unit!Read, Unit!Subscribe
  <2>3. \A g \in NeededOf : ReadDue(g) => ReadDue(g)'
    BY <1>1, <2>1, <2>2, ServedOrDue
  <2>4. /\ unit' \in Units /\ toAppliance' \in Seq(UnitPayloads)
        /\ \A h \in NeededOf : LatestHeard(h) => LatestHeard(h)'
    <3>1. CASE Unit!Permitted(m)
      <4>1. ChangesOnly(Unit!Written(m), Unit!FunctionOf(m)) /\ Unit!Publish(Unit!Written(m), Unit!FunctionOf(m))
        BY <1>1, <1>2, <1>5, <2>1, <3>1, WrittenIsChanged DEF UnitWires
      <4>2. QED
        BY <1>1, <2>1, <4>1, UnitPublishKeeps DEF ChangesOnly
    <3>2. CASE ~Unit!Permitted(m)
      BY <1>1, <2>1, <3>2 DEF UnitWires, LatestHeard, LastAt, HoldsOf
    <3>3. QED
      BY <3>1, <3>2
  <2>5. QED
    BY <1>1, <1>2, <2>3, <2>4 DEF UnitInv, UnitWires, UnitTold, UnitOnTheWay
<1>6. QED
  BY <1>2, <1>3, <1>4, <1>5 DEF UnitRequests, Unit!Read, Unit!Subscribe

LEMMA HInitKeeps == ASSUME HvacConstants, Unit!HInit PROVE UnitInv
<1>1. /\ toUnit = Unit!Follow /\ toAppliance = <<>> /\ points = Unit!NewPoints
      /\ reader = [f \in Functions |-> Unit!NewReader]
      /\ unitTold.temperatures = [s \in Unit!AllSetpoints |-> Unit!None]
  BY DEF Unit!HInit
<1>2. unit \in Units
  <2>1. ASSUME NEW f \in Functions PROVE (CHOOSE m \in Related[f] : TRUE) \in Related[f]
    BY DEF HvacConstants
  <2> DEFINE S == [f \in Functions |-> [current |-> CHOOSE m \in Related[f] : TRUE,
                                        changeable |-> TRUE, active |-> FALSE]]
             D == [s \in Unit!AllSetpoints |-> Permissible[1]]
  <2>2. S \in UnitStates
    BY <2>1 DEF UnitStates, UnitModes, HvacConstants
  <2>3. D \in Temperatures
    BY DEF Temperatures
  <2>4. unit = [states |-> S, overrun |-> "inactive", temperatures |-> D]
    BY DEF Unit!HInit
  <2> HIDE DEF S, D
  <2>5. QED
    BY <2>2, <2>3, <2>4 DEF Units, Overruns
<1>3. UnitWires
  BY <1>1, <1>2, FollowAsks DEF UnitWires
<1>4. Unit!NewReader \in Readers
  BY DEF Unit!NewReader, Readers, Overruns
<1>5. ASSUME NEW f \in Functions PROVE Derived(Unit!NewReader, f)
  BY DEF Derived, Unit!NewReader, Unit!ModeId, Unit!Report, Unit!IsComplete, Unit!StateKnown
<1>6. Unit!NewPoints \in PointReaders /\ PointsFollowed(Unit!NewPoints)
      /\ \A s \in Unit!AllSetpoints : Unit!NewPoints.seen[s] = Unit!None
  BY DEF Unit!NewPoints, PointReaders, PointsFollowed, MaybeDegrees
<1>7. ~Unit!NewReader.described /\ Unit!NewReader.report = "unknown"
  BY DEF Unit!NewReader
<1>8. UnitTold
  BY <1>1, <1>4, <1>5, <1>6, <1>7 DEF UnitTold
<1>9. UnitOnTheWay
  BY <1>1, FollowAsks DEF UnitOnTheWay, ReadDue
<1>10. QED
  BY <1>3, <1>8, <1>9 DEF UnitInv

LEMMA HNextKeeps ==
    ASSUME HvacConstants, UnitInv, [Unit!HNext]_(Unit!hvars)
    PROVE  UnitInv'
<1>1. CASE UNCHANGED Unit!hvars
  BY <1>1 DEF Unit!hvars, UnitInv, UnitWires, UnitTold, UnitOnTheWay, ReadDue, LatestHeard,
              LastAt, HoldsOf
<1>2. ASSUME NEW f \in Functions, NEW m \in Modes, Unit!SetMode(f, m)
      PROVE  UnitInv'
  <2>1. [what |-> "mode", of |-> f, mode |-> m] \in UnitRequests
    BY DEF UnitRequests
  <2>2. QED
    BY <1>2, <2>1, UnitSendKeeps DEF Unit!SetMode
<1>3. ASSUME NEW f \in Functions, NEW start \in BOOLEAN, Unit!Overrun(f, start)
      PROVE  UnitInv'
  <2>1. [what |-> "overrun", start |-> start] \in UnitRequests
    BY DEF UnitRequests
  <2>2. QED
    BY <1>3, <2>1, UnitSendKeeps DEF Unit!Overrun
<1>4. ASSUME NEW s \in Unit!AllSetpoints, NEW d \in Degrees,
             Unit!Send([what |-> "setpoint", id |-> s, degrees |-> d])
      PROVE  UnitInv'
  <2>1. [what |-> "setpoint", id |-> s, degrees |-> d] \in UnitRequests
    BY DEF UnitRequests
  <2>2. QED
    BY <1>4, <2>1, UnitSendKeeps
<1>5. CASE Unit!Hear \/ Unit!Serve \/ Unit!Moves \/ Unit!Reattach
  BY <1>5, UnitHearKeeps, UnitServeKeeps, MovesKeep, UnitReattachKeeps
<1>6. QED
  BY <1>1, <1>2, <1>3, <1>4, <1>5 DEF Unit!HNext, Unit!SetSetpoint, Unit!PreloadSetpoint

LEMMA UnitKeptIsSeen == ASSUME HvacConstants, UnitInv PROVE Unit!UnitIsSeen
<1> SUFFICES ASSUME toUnit = <<>>, toAppliance = <<>>
             PROVE  Unit!UnitIsSeen
  BY DEF Unit!UnitIsSeen
<1>1. UnitWires /\ UnitTold /\ unit \in Units
  BY DEF UnitInv, UnitWires
<1>2. ASSUME NEW g \in NeededOf PROVE HoldsOf(g, Unit!Payload(unit, g).data)
  BY DEF UnitInv, UnitOnTheWay, ReadDue, LatestHeard
<1>3. /\ \A f \in Functions : /\ reader[f].function /\ reader[f].modes = Modes
                              /\ reader[f].states = unit.states
                              /\ f \in OverrunOf => /\ reader[f].overruns
                                                    /\ reader[f].overrun = unit.overrun
      /\ points.described = Setpoints /\ points.values = unit.temperatures
      /\ points.relations
  <2>1. /\ {"descriptions", "modes", "states", "setpointDescriptions", "setpoints",
            "relations"} \subseteq NeededOf
        /\ OverrunOf # {} => {"overruns", "overrun"} \subseteq NeededOf
    BY DEF NeededOf, OfModes, OfPoints
  <2>2. /\ Unit!Payload(unit, "states").data = unit.states
        /\ Unit!Payload(unit, "overrun").data = unit.overrun
        /\ Unit!Payload(unit, "setpoints").data = unit.temperatures
    BY DEF Unit!Payload
  <2>3. \A f \in Functions : reader[f].function /\ reader[f].modes = Modes
    BY <1>2, <2>1 DEF HoldsOf
  <2>4. \A f \in Functions : reader[f].states = unit.states
    BY <1>2, <2>1, <2>2 DEF HoldsOf
  <2>5. \A f \in Functions : f \in OverrunOf =>
          reader[f].overruns /\ reader[f].overrun = unit.overrun
    BY <1>2, <2>1, <2>2 DEF HoldsOf
  <2>6. points.described = Setpoints /\ points.relations
    BY <1>2, <2>1 DEF HoldsOf
  <2>7. points.values = unit.temperatures
    BY <1>2, <2>1, <2>2 DEF HoldsOf
  <2>8. QED
    BY <2>3, <2>4, <2>5, <2>6, <2>7
<1>4. ASSUME NEW f \in Functions
      PROVE  /\ unitTold.mode[f] = unit.states[f].current
             /\ Unit!ModeId(reader[f], f) = unit.states[f].current
             /\ f \in OverrunOf => unitTold.report[f] =
                  IF unit.overrun = "finished" THEN "inactive" ELSE unit.overrun
             /\ Unit!CurrentSetpoints(f) = Relations[<<f, unit.states[f].current>>]
  <2>1. unit.states[f].current \in Modes /\ unit.states # <<>>
    BY <1>1 DEF Units, UnitStates, UnitModes
  <2>2. Unit!ModeId(reader[f], f) = unit.states[f].current
    BY <1>3, <2>1 DEF Unit!ModeId, Unit!StateKnown
  <2>3. unit.states[f].current # Unit!None
    BY <2>1 DEF HvacConstants
  <2>4. Unit!IsComplete(reader[f], f)
    BY <1>3, <2>2, <2>3, UnitCounts DEF Unit!IsComplete, HvacConstants
  <2>5. unitTold.mode[f] = unit.states[f].current
    BY <1>1, <2>2, <2>4 DEF UnitTold, Derived
  <2>6. ASSUME f \in OverrunOf
        PROVE  unitTold.report[f] = IF unit.overrun = "finished" THEN "inactive" ELSE unit.overrun
    <3>1. Unit!Report(reader[f], f) = IF unit.overrun = "finished" THEN "inactive" ELSE unit.overrun
      BY <1>3, <2>6 DEF Unit!Report
    <3>2. Unit!Report(reader[f], f) # "unknown"
      BY <1>1, <3>1 DEF Units, Overruns
    <3>3. QED
      BY <1>1, <3>1, <3>2 DEF UnitTold, Derived
  <2>7. Unit!CurrentSetpoints(f) = Relations[<<f, unit.states[f].current>>]
    BY <1>3, <2>2, <2>3 DEF Unit!CurrentSetpoints
  <2>8. QED
    BY <2>2, <2>5, <2>6, <2>7
<1>5. ASSUME NEW s \in Setpoints PROVE unitTold.temperatures[s] = unit.temperatures[s]
  <2>1. s \in Unit!AllSetpoints
    BY DEF Unit!AllSetpoints
  <2>2. unit.temperatures[s] # Unit!None
    BY <1>1, <2>1 DEF Units, Temperatures, HvacConstants
  <2>3. QED
    BY <1>1, <1>3, <2>1, <2>2 DEF UnitTold, PointsFollowed
<1>6. QED
  BY <1>4, <1>5 DEF Unit!UnitIsSeen

\* For any functions, modes and setpoints, an appliance that has heard everything knows the
\* mode each function is in, its overrun and its setpoints, over reconnections.
\* (TrackedUnit::apply, learn, attach)
THEOREM UnitFollowed ==
    HvacConstants /\ Unit!HInit /\ [][Unit!HNext]_(Unit!hvars) => []Unit!UnitIsSeen
<1>1. CASE HvacConstants
  <2>1. Unit!HInit => UnitInv
    BY <1>1, HInitKeeps
  <2>2. UnitInv /\ [Unit!HNext]_(Unit!hvars) => UnitInv'
    BY <1>1, HNextKeeps
  <2>3. UnitInv => Unit!UnitIsSeen
    BY <1>1, UnitKeptIsSeen
  <2>4. QED
    BY <2>1, <2>2, <2>3, PTL
<1>2. QED
  BY <1>1

-----------------------------------------------------------------------------
(* Monitoring: an appliance that follows a measured unit is told its values *)
(* under the phases they are measured on, and the factor of a grid          *)
(* connection point, for every set of values and phases and any sequence of *)
(* changes and lost connections.                                            *)

\* There is a phase to measure on, no phase is named "unknown", a curtailment is a
\* percentage, and no factor is the mark of an absent one.
MeterConstants ==
    /\ Phases # {} /\ "unknown" \notin Phases \cup {Total}
    /\ Percent[1] \in Nat /\ Percent[2] \in Nat /\ Factors \subseteq Int \ {Meter!None}

MeterFunctions ==
    {"connection", "parameters", "descriptions", "constraints", "measurements", "keys",
     "factor"}
Levels == Values \cup {Meter!None}
Labels == { d \in [Slots -> Phases \cup {Total}] :
              \A i \in Slots : i \notin PerPhase => d[i] = Total }
PublishedFactors == Factors \cup {Percent[2]}
Meters ==
    [value : [Slots -> Levels], state : [Slots -> {"normal", "outOfRange", "error"}],
     phases : Labels, factor : PublishedFactors]
MeterPayloads == { Meter!Payload(u, g) : u \in Meters, g \in MeterFunctions }
MeterRequests ==
    { Meter!Read(g) : g \in MeterFunctions }
    \cup { Meter!Subscribe(f) : f \in {"ElectricalConnection", "Measurement",
                                 "DeviceConfiguration"} }

\* measurements: what the list says of its values.
ValuesOf(u) == [i \in Meter!Listed(u) |-> [value |-> u.value[i], state |-> u.state[i]]]

LEMMA PayloadParts ==
    ASSUME NEW u, NEW g
    PROVE  /\ Meter!Payload(u, g).function = g
           /\ g = "parameters" => Meter!Payload(u, g).data = u.phases
           /\ g = "measurements" => Meter!Payload(u, g).data = ValuesOf(u)
           /\ g = "factor" => Meter!Payload(u, g).data = u.factor
           /\ g \notin {"parameters", "measurements", "factor"} =>
                Meter!Payload(u, g).data = <<>>
           /\ Meter!Payload(u, g) = [function |-> g, data |-> Meter!Payload(u, g).data]
<1>1. Meter!Payload(u, g).function = g /\ Meter!Payload(u, g) = [function |-> g, data |-> Meter!Payload(u, g).data]
  BY DEF Meter!Payload
<1>2. Meter!Payload(u, g).data =
        CASE g = "parameters" -> u.phases
          [] g = "measurements" ->
               [i \in Meter!Listed(u) |-> [value |-> u.value[i], state |-> u.state[i]]]
          [] g = "factor" -> u.factor
          [] OTHER -> <<>>
  BY Zenon DEF Meter!Payload
<1>3. g = "parameters" => Meter!Payload(u, g).data = u.phases
  BY <1>2, Zenon
<1>4. g = "measurements" => Meter!Payload(u, g).data = ValuesOf(u)
  BY <1>2, Zenon DEF ValuesOf
<1>5. g = "factor" => Meter!Payload(u, g).data = u.factor
  BY <1>2, Zenon
<1>6. g \notin {"parameters", "measurements", "factor"} => Meter!Payload(u, g).data = <<>>
  BY <1>2, Zenon
<1>7. QED
  BY <1>1, <1>3, <1>4, <1>5, <1>6

LEMMA PayloadFits ==
    ASSUME NEW u \in Meters, NEW g \in MeterFunctions
    PROVE  Meter!Payload(u, g) \in MeterPayloads /\ Meter!Payload(u, g).function = g
<1>1. Meter!Payload(u, g) \in MeterPayloads
  BY DEF MeterPayloads
<1>2. QED
  BY <1>1, PayloadParts, Zenon

LEMMA FeatureParts ==
    /\ Meter!FeatureOf("connection") = "ElectricalConnection"
    /\ Meter!FeatureOf("parameters") = "ElectricalConnection"
    /\ Meter!FeatureOf("descriptions") = "Measurement" /\ Meter!FeatureOf("constraints") = "Measurement"
    /\ Meter!FeatureOf("measurements") = "Measurement"
    /\ Meter!FeatureOf("keys") = "DeviceConfiguration"
    /\ Meter!FeatureOf("factor") = "DeviceConfiguration"
BY Zenon DEF Meter!FeatureOf

-----------------------------------------------------------------------------
(* What is ahead of a place on the wire *)

\* The latest payload of function g in w is p, at k.
LastIn(w, k, g, p) ==
    k \in DOMAIN w /\ w[k] = p /\ \A j \in DOMAIN w : w[j].function = g => j <= k
NoneIn(w, g) == \A j \in DOMAIN w : w[j].function # g

\* A reader that has x for i has d for it when it has heard w up to k.
PhaseIn(w, x, k, i, d) ==
    \/ \E j \in DOMAIN w :
         /\ j < k /\ w[j].function = "parameters" /\ w[j].data[i] = d
         /\ \A l \in DOMAIN w : l < k /\ w[l].function = "parameters" => l <= j
    \/ /\ \A l \in DOMAIN w : l < k => w[l].function # "parameters"
       /\ x = d
\* It knows then which phases are meant.
ReadyIn(w, ready, k) ==
    ready \/ \E j \in DOMAIN w : j < k /\ w[j].function = "parameters"

LEMMA AppendAhead ==
    ASSUME NEW w \in Seq(MeterPayloads), NEW p \in MeterPayloads, NEW k \in 1 .. Len(w) + 1,
           NEW x, NEW i, NEW d, NEW ready
    PROVE  /\ PhaseIn(w, x, k, i, d) => PhaseIn(Append(w, p), x, k, i, d)
           /\ ReadyIn(w, ready, k) => ReadyIn(Append(w, p), ready, k)
<1> DEFINE v == Append(w, p)
<1>1. /\ DOMAIN w \subseteq DOMAIN v /\ \A l \in DOMAIN w : v[l] = w[l]
      /\ \A l \in DOMAIN v : l < k => l \in DOMAIN w
  OBVIOUS
<1> HIDE DEF v
<1>2. QED
  BY <1>1 DEF PhaseIn, ReadyIn, v

LEMMA AppendBehind ==
    ASSUME NEW w \in Seq(MeterPayloads), NEW p \in MeterPayloads,
           NEW x, NEW i, NEW d, NEW ready
    PROVE  /\ p.function # "parameters" /\ PhaseIn(w, x, Len(w) + 1, i, d) =>
                PhaseIn(Append(w, p), x, Len(w) + 2, i, d)
           /\ ReadyIn(w, ready, Len(w) + 1) => ReadyIn(Append(w, p), ready, Len(w) + 2)
           /\ p.function = "parameters" => ReadyIn(Append(w, p), ready, Len(w) + 2)
           /\ p.function = "parameters" /\ p.data[i] = d =>
                PhaseIn(Append(w, p), x, Len(w) + 2, i, d)
<1> DEFINE v == Append(w, p)
           n == Len(w) + 1
<1>1. /\ n \in Nat /\ n < n + 1 /\ n + 1 = Len(w) + 2
      /\ DOMAIN w \subseteq DOMAIN v /\ \A l \in DOMAIN w : v[l] = w[l] /\ l < n /\ l < n + 1
      /\ \A l \in DOMAIN v : l \in Int /\ l <= n /\ (l # n => l \in DOMAIN w)
      /\ n \in DOMAIN v /\ v[n] = p
  OBVIOUS
<1> HIDE DEF v, n
<1>2. p.function # "parameters" /\ PhaseIn(w, x, n, i, d) => PhaseIn(v, x, n + 1, i, d)
  BY <1>1 DEF PhaseIn
<1>3. ReadyIn(w, ready, n) => ReadyIn(v, ready, n + 1)
  BY <1>1 DEF ReadyIn
<1>4. p.function = "parameters" => ReadyIn(v, ready, n + 1)
  BY <1>1 DEF ReadyIn
<1>5. p.function = "parameters" /\ p.data[i] = d => PhaseIn(v, x, n + 1, i, d)
  BY <1>1 DEF PhaseIn
<1>6. QED
  BY <1>1, <1>2, <1>3, <1>4, <1>5 DEF v, n

LEMMA AppendLast ==
    ASSUME NEW w \in Seq(MeterPayloads), NEW p \in MeterPayloads
    PROVE  /\ \A k, g, q : p.function # g /\ LastIn(w, k, g, q) => LastIn(Append(w, p), k, g, q)
           /\ \A g : p.function # g /\ NoneIn(w, g) => NoneIn(Append(w, p), g)
           /\ \A g : LastIn(Append(w, p), Len(w) + 1, g, p)
<1> DEFINE v == Append(w, p)
           n == Len(w) + 1
<1>1. /\ n \in Nat /\ DOMAIN w \subseteq DOMAIN v
      /\ \A l \in DOMAIN w : v[l] = w[l]
      /\ \A l \in DOMAIN v : l \in Int /\ l <= n /\ (l # n => l \in DOMAIN w)
      /\ n \in DOMAIN v /\ v[n] = p
  OBVIOUS
<1> HIDE DEF v, n
<1>2. QED
  BY <1>1 DEF LastIn, NoneIn, v, n

LEMMA TailAhead ==
    ASSUME NEW w \in Seq(MeterPayloads), w # <<>>, NEW k \in 2 .. Len(w) + 1,
           NEW x, NEW y, NEW i, NEW d, NEW ready, NEW steady,
           IF w[1].function = "parameters" THEN steady /\ y = w[1].data[i]
           ELSE (ready => steady) /\ (y = x \/ y = d)
    PROVE  /\ PhaseIn(w, x, k, i, d) => PhaseIn(Tail(w), y, k - 1, i, d)
           /\ ReadyIn(w, ready, k) => ReadyIn(Tail(w), steady, k - 1)
<1> DEFINE v == Tail(w)
<1>1. /\ k - 1 \in Nat /\ k \in Nat
      /\ \A l \in DOMAIN v : l \in Nat \ {0} /\ l + 1 \in DOMAIN w /\ v[l] = w[l + 1]
      /\ \A l \in DOMAIN w : l \in Nat /\ (l # 1 => l - 1 \in DOMAIN v /\ v[l - 1] = w[l])
      /\ 1 \in DOMAIN w /\ 1 < k
  OBVIOUS
<1> HIDE DEF v
<1>2. ASSUME NEW j \in DOMAIN w, j < k, w[j].function = "parameters", w[j].data[i] = d,
             \A l \in DOMAIN w : l < k /\ w[l].function = "parameters" => l <= j
      PROVE  PhaseIn(v, y, k - 1, i, d)
  <2>1. CASE j = 1
    <3>1. ASSUME NEW l \in DOMAIN v, l < k - 1 PROVE v[l].function # "parameters"
      <4>1. l \in Nat /\ l + 1 \in DOMAIN w /\ v[l] = w[l + 1] /\ l + 1 < k /\ ~(l + 1 <= 1)
        BY <1>1, <3>1
      <4>2. QED
        BY <1>2, <2>1, <4>1
    <3>2. y = d
      BY <1>2, <2>1
    <3>3. QED
      BY <3>1, <3>2 DEF PhaseIn
  <2>2. CASE j # 1
    <3>1. /\ j - 1 \in DOMAIN v /\ j - 1 < k - 1 /\ v[j - 1].function = "parameters"
          /\ v[j - 1].data[i] = d
      BY SMTT(20), <1>1, <1>2, <2>2
    <3>2. ASSUME NEW l \in DOMAIN v, l < k - 1, v[l].function = "parameters"
          PROVE  l <= j - 1
      <4>1. l \in Nat /\ l + 1 \in DOMAIN w /\ v[l] = w[l + 1] /\ l + 1 < k /\ j \in Nat
        BY <1>1, <3>2
      <4>2. l + 1 <= j
        BY <1>2, <3>2, <4>1
      <4>3. QED
        BY <4>1, <4>2
    <3>3. QED
      BY <3>1, <3>2 DEF PhaseIn
  <2>3. QED
    BY <2>1, <2>2
<1>3. ASSUME \A l \in DOMAIN w : l < k => w[l].function # "parameters", x = d
      PROVE  PhaseIn(v, y, k - 1, i, d)
  <2>1. y = d
    BY <1>1, <1>3
  <2>2. \A l \in DOMAIN v : l < k - 1 => v[l].function # "parameters"
    BY <1>1, <1>3
  <2>3. QED
    BY <2>1, <2>2 DEF PhaseIn
<1>4. ASSUME ReadyIn(w, ready, k) PROVE ReadyIn(v, steady, k - 1)
  <2>1. CASE w[1].function = "parameters"
    BY <2>1 DEF ReadyIn
  <2>2. CASE w[1].function # "parameters"
    <3>1. CASE ready
      BY <2>2, <3>1 DEF ReadyIn
    <3>2. ASSUME NEW j \in DOMAIN w, j < k, w[j].function = "parameters"
          PROVE  ReadyIn(v, steady, k - 1)
      <4>1. j # 1 /\ j \in Nat
        BY <1>1, <2>2, <3>2
      <4>2. j - 1 \in DOMAIN v /\ j - 1 < k - 1 /\ v[j - 1].function = "parameters"
        BY SMTT(20), <1>1, <3>2, <4>1
      <4>3. QED
        BY <4>2 DEF ReadyIn
    <3>3. QED
      BY <1>4, <3>1, <3>2 DEF ReadyIn
  <2>3. QED
    BY <2>1, <2>2
<1>5. QED
  BY <1>2, <1>3, <1>4 DEF PhaseIn, v

LEMMA TailLast ==
    ASSUME NEW w \in Seq(MeterPayloads), w # <<>>, NEW g, NEW q
    PROVE  /\ \A k : k # 1 /\ LastIn(w, k, g, q) => LastIn(Tail(w), k - 1, g, q)
           /\ LastIn(w, 1, g, q) => NoneIn(Tail(w), g)
           /\ NoneIn(w, g) => NoneIn(Tail(w), g) /\ w[1].function # g
<1> DEFINE v == Tail(w)
<1>1. /\ \A l \in DOMAIN v : l \in Nat \ {0} /\ l + 1 \in DOMAIN w /\ v[l] = w[l + 1]
      /\ \A l \in DOMAIN w : l \in Nat /\ (l # 1 => l - 1 \in DOMAIN v /\ v[l - 1] = w[l])
      /\ 1 \in DOMAIN w
  OBVIOUS
<1> HIDE DEF v
<1>2. QED
  BY <1>1 DEF LastIn, NoneIn, v

-----------------------------------------------------------------------------
(* What a payload teaches *)

ReadingsShape(r) ==
    /\ r = [quantity |-> r.quantity, phases |-> r.phases, values |-> r.values,
            described |-> r.described, key |-> r.key, factor |-> r.factor]
    /\ r.quantity \in [Slots -> BOOLEAN]
    /\ r.phases \in [Slots -> Phases \cup {Total, "unknown"}]
    /\ r.key \in BOOLEAN /\ r.factor \in PublishedFactors \cup {Meter!None}
AllResolve(r) == \A i \in Slots : Meter!Resolves(r, i)

\* handle_event on any payload.
Learnt(r, p) ==
    IF Meter!FeatureOf(p.function) = "DeviceConfiguration" THEN Meter!Curtailed(r, p)
    ELSE Meter!LearnReadings(r, p)

LEMMA PayloadIsTyped ==
    ASSUME NEW p \in MeterPayloads
    PROVE  /\ p.function \in MeterFunctions
           /\ p.function = "parameters" => p.data \in Labels
           /\ p.function = "factor" => p.data \in PublishedFactors
           /\ p.function = "measurements" => DOMAIN p.data \subseteq Slots
<1>1. PICK u \in Meters, g \in MeterFunctions : p = Meter!Payload(u, g)
  BY DEF MeterPayloads
<1>2. /\ p.function = g
      /\ g = "parameters" => p.data = u.phases
      /\ g = "measurements" => p.data = ValuesOf(u)
      /\ g = "factor" => p.data = u.factor
  BY <1>1, PayloadParts
<1>3. g = "measurements" => DOMAIN p.data = Meter!Listed(u)
  BY <1>2 DEF ValuesOf
<1>4. QED
  BY <1>2, <1>3 DEF Meters, Meter!Listed

LEMMA DescribedParts ==
    ASSUME NEW r, ReadingsShape(r), NEW p \in MeterPayloads
    PROVE  LET n == Meter!Described(r, p) IN
           /\ ReadingsShape(n) /\ n.values = r.values /\ n.key = r.key /\ n.factor = r.factor
           /\ n.quantity = IF p.function \in {"parameters", "descriptions"}
                           THEN [i \in Slots |-> TRUE] ELSE r.quantity
           /\ n.phases = IF p.function = "parameters" THEN p.data
                         ELSE IF p.function = "descriptions"
                         THEN [i \in Slots |-> IF i \in PerPhase THEN r.phases[i] ELSE Total]
                         ELSE r.phases
<1> DEFINE all == [i \in Slots |-> TRUE]
           open == [i \in Slots |-> IF i \in PerPhase THEN r.phases[i] ELSE Total]
           n == Meter!Described(r, p)
<1>1. all \in [Slots -> BOOLEAN] /\ open \in [Slots -> Phases \cup {Total, "unknown"}]
  BY DEF ReadingsShape
<1>2. CASE p.function = "descriptions"
  <2>1. n = [r EXCEPT !.quantity = all, !.phases = open]
    BY <1>2, Zenon DEF Meter!Described
  <2> HIDE DEF all, open, n
  <2>2. /\ n = [quantity |-> all, phases |-> open, values |-> r.values,
                described |-> r.described, key |-> r.key, factor |-> r.factor]
    BY <2>1 DEF ReadingsShape
  <2>3. QED
    BY <1>1, <1>2, <2>2 DEF ReadingsShape, all, open, n
<1>3. CASE p.function = "parameters"
  <2>1. n = [r EXCEPT !.quantity = all, !.phases = p.data]
    BY <1>3, Zenon DEF Meter!Described
  <2>2. p.data \in [Slots -> Phases \cup {Total, "unknown"}]
    BY <1>3, PayloadIsTyped DEF Labels
  <2> HIDE DEF all, open, n
  <2>3. /\ n = [quantity |-> all, phases |-> p.data, values |-> r.values,
                described |-> r.described, key |-> r.key, factor |-> r.factor]
    BY <2>1 DEF ReadingsShape
  <2>4. QED
    BY <1>1, <1>3, <2>2, <2>3 DEF ReadingsShape, all, open, n
<1>4. CASE p.function \notin {"parameters", "descriptions"}
  <2>1. n = r
    BY <1>4, Zenon DEF Meter!Described
  <2>2. QED
    BY <1>4, <2>1
<1>5. QED
  BY <1>2, <1>3, <1>4

LEMMA LearntParts ==
    ASSUME NEW r, ReadingsShape(r), NEW p \in MeterPayloads
    PROVE  LET n == Learnt(r, p) IN
           /\ ReadingsShape(n)
           /\ n.key = (r.key \/ p.function = "keys")
           /\ n.factor = IF p.function = "factor" THEN p.data ELSE r.factor
           /\ n.quantity = IF p.function \in {"parameters", "descriptions"}
                           THEN [i \in Slots |-> TRUE] ELSE r.quantity
           /\ n.phases = IF p.function = "parameters" THEN p.data
                         ELSE IF p.function = "descriptions"
                         THEN [i \in Slots |-> IF i \in PerPhase THEN r.phases[i] ELSE Total]
                         ELSE r.phases
           /\ p.function = "measurements" => \A i \in DOMAIN p.data : Meter!Resolves(n, i) =>
                n.values[i] = [value |-> p.data[i].value, state |-> p.data[i].state,
                               phases |-> n.phases[i]]
<1> DEFINE n == Learnt(r, p)
<1>1. CASE p.function \in {"keys", "factor"}
  <2>1. n = Meter!Curtailed(r, p)
    BY <1>1, FeatureParts DEF Learnt
  <2>2. CASE p.function = "keys"
    <3>1. n = [r EXCEPT !.key = TRUE]
      BY <2>1, <2>2, Zenon DEF Meter!Curtailed
    <3> HIDE DEF n
    <3>2. n = [quantity |-> r.quantity, phases |-> r.phases, values |-> r.values,
               described |-> r.described, key |-> TRUE, factor |-> r.factor]
      BY <3>1 DEF ReadingsShape
    <3>3. TRUE = (r.key \/ p.function = "keys")
      BY <2>2, Zenon
    <3>4. ReadingsShape(n)
      BY <3>2 DEF ReadingsShape
    <3>5. n.key = (r.key \/ p.function = "keys")
      BY <3>2, <3>3
    <3>6. n.factor = r.factor /\ n.quantity = r.quantity /\ n.phases = r.phases
      BY <3>2
    <3>7. QED
      BY <2>2, <3>4, <3>5, <3>6, Zenon DEF n
  <2>3. CASE p.function = "factor"
    <3>1. n = [r EXCEPT !.factor = p.data]
      BY <2>1, <2>3, Zenon DEF Meter!Curtailed
    <3>2. p.data \in PublishedFactors
      BY <2>3, PayloadIsTyped
    <3> HIDE DEF n
    <3>3. n = [quantity |-> r.quantity, phases |-> r.phases, values |-> r.values,
               described |-> r.described, key |-> r.key, factor |-> p.data]
      BY <3>1 DEF ReadingsShape
    <3>4. QED
      BY <2>3, <3>2, <3>3 DEF ReadingsShape, n
  <2>4. QED
    BY <1>1, <2>2, <2>3
<1>2. CASE p.function \notin {"keys", "factor"}
  <2> DEFINE d == Meter!Described(r, p)
             a == Meter!Applied(d, p)
             kept == [i \in Slots |->
                         IF i \in DOMAIN p.data /\ Meter!Resolves(d, i)
                         THEN [value |-> p.data[i].value, state |-> p.data[i].state,
                               phases |-> d.phases[i]]
                         ELSE d.values[i]]
  <2>1. n = [a EXCEPT !.described = a.described \/ \E i \in Slots : Meter!Resolves(a, i)]
    BY <1>2, FeatureParts, PayloadIsTyped DEF Learnt, Meter!LearnReadings, MeterFunctions
  <2>2. a = IF p.function = "measurements" THEN [d EXCEPT !.values = kept] ELSE d
    BY DEF Meter!Applied
  <2>3. /\ ReadingsShape(d) /\ d.values = r.values /\ d.key = r.key /\ d.factor = r.factor
        /\ d.quantity = IF p.function \in {"parameters", "descriptions"}
                        THEN [i \in Slots |-> TRUE] ELSE r.quantity
        /\ d.phases = IF p.function = "parameters" THEN p.data
                      ELSE IF p.function = "descriptions"
                      THEN [i \in Slots |-> IF i \in PerPhase THEN r.phases[i] ELSE Total]
                      ELSE r.phases
    BY DescribedParts
  <2>4. p.function = "measurements" => \A i \in DOMAIN p.data : Meter!Resolves(d, i) =>
          kept[i] = [value |-> p.data[i].value, state |-> p.data[i].state,
                      phases |-> d.phases[i]]
    BY PayloadIsTyped
  <2> HIDE DEF n, d, a, kept
  <2>5. /\ n.quantity = d.quantity /\ n.phases = d.phases
        /\ n.key = d.key /\ n.factor = d.factor
        /\ n.values = IF p.function = "measurements" THEN kept ELSE d.values
        /\ ReadingsShape(n)
    <3>1. /\ a = [quantity |-> d.quantity, phases |-> d.phases, values |-> a.values,
                  described |-> d.described, key |-> d.key, factor |-> d.factor]
          /\ a.values = IF p.function = "measurements" THEN kept ELSE d.values
      BY <2>2, <2>3 DEF ReadingsShape
    <3> DEFINE b == a.described \/ \E i \in Slots : Meter!Resolves(a, i)
    <3> HIDE DEF b
    <3>2. n = [a EXCEPT !.described = b]
      BY <2>1 DEF b
    <3>3. n = [quantity |-> d.quantity, phases |-> d.phases, values |-> a.values,
               described |-> b, key |-> d.key, factor |-> d.factor]
      BY <3>1, <3>2
    <3>4. QED
      BY <2>3, <3>1, <3>3 DEF ReadingsShape
  <2>6. \A i \in Slots : Meter!Resolves(n, i) <=> Meter!Resolves(d, i)
    BY <2>5 DEF Meter!Resolves
  <2>7. p.function = "measurements" => \A i \in DOMAIN p.data : Meter!Resolves(n, i) =>
          n.values[i] = [value |-> p.data[i].value, state |-> p.data[i].state,
                         phases |-> n.phases[i]]
    BY <2>4, <2>5, <2>6, PayloadIsTyped
  <2>8. n.key = (r.key \/ p.function = "keys")
    <3>1. r.key \in BOOLEAN /\ n.key = r.key
      BY <2>3, <2>5 DEF ReadingsShape
    <3>2. QED
      BY <1>2, <3>1, Zenon
  <2>9. QED
    BY <1>2, <2>3, <2>5, <2>7, <2>8 DEF n
<1>3. QED
  BY <1>1, <1>2

-----------------------------------------------------------------------------
(* The invariant *)

AskedFor(g) == \E j \in DOMAIN toMeter : toMeter[j] = Meter!Read(g)

\* Keys and factor: what is on its way, or what the reader has.
HasOf(g) == IF g = "keys" THEN readings.key ELSE readings.factor = meter.factor
FreshOf(g) ==
    /\ g \in answered
    /\ \/ g \in meterMissed
       \/ \E k \in DOMAIN toReader : LastIn(toReader, k, g, Meter!Payload(meter, g))
       \/ NoneIn(toReader, g) /\ HasOf(g)

\* Which phases are meant: the reader that has heard everything up to k knows them.
LabelledAt(k, i) == PhaseIn(toReader, readings.phases[i], k, i, meter.phases[i])
ReadyAt(k) == ReadyIn(toReader, AllResolve(readings), k)
BehindAll == Len(toReader) + 1
Labelling ==
    /\ "parameters" \in answered /\ ReadyAt(BehindAll)
    /\ \A i \in Slots : LabelledAt(BehindAll, i) \/ (i \in relabelled /\ "parameters" \in meterMissed)

\* The values: a read behind the one that tells what they mean, or the latest of them on
\* its way behind it, or told.
ReadBehind(g) == \E j \in DOMAIN toMeter :
    toMeter[j] = Meter!Read(g)
    /\ (Labelling \/ \E i \in DOMAIN toMeter : i < j /\ toMeter[i] = Meter!Read("parameters"))
SentAt(k) ==
    /\ LastIn(toReader, k, "measurements", Meter!Payload(meter, "measurements"))
    /\ ReadyAt(k) /\ \A i \in Slots : i \in relabelled \/ LabelledAt(k, i)
MeterTold ==
    /\ NoneIn(toReader, "measurements")
    /\ \A i \in Meter!Listed(meter) :
         /\ meterTold.values[i].value = meter.value[i] /\ meterTold.values[i].state = meter.state[i]
         /\ i \in relabelled \/ meterTold.values[i].phases = meter.phases[i]
Valued ==
    /\ Labelling /\ "measurements" \in answered
    /\ "measurements" \in meterMissed \/ (\E k \in DOMAIN toReader : SentAt(k)) \/ MeterTold

MeterTypes ==
    /\ meter \in Meters /\ toMeter \in Seq(MeterRequests)
    /\ toReader \in Seq(MeterPayloads) /\ ReadingsShape(readings)
FactorTold == Meter!FactorPercent(readings) = Meter!None \/ meterTold.factor = Meter!FactorPercent(readings)
MeterInv ==
    /\ MeterTypes /\ FactorTold
    /\ \A g \in {"keys", "factor"} : AskedFor(g) \/ FreshOf(g)
    /\ AskedFor("parameters") \/ Labelling
    /\ ReadBehind("measurements") \/ Valued

LEMMA AttachAsks ==
    /\ Meter!Attach \in Seq(MeterRequests)
    /\ \A g \in {"keys", "factor", "parameters"} : \E j \in DOMAIN Meter!Attach : Meter!Attach[j] = Meter!Read(g)
    /\ \E i, j \in DOMAIN Meter!Attach :
         i < j /\ Meter!Attach[i] = Meter!Read("parameters") /\ Meter!Attach[j] = Meter!Read("measurements")
<1>1. /\ DOMAIN Meter!Attach = 1 .. 10 /\ Meter!Attach[2] = Meter!Read("parameters")
      /\ Meter!Attach[6] = Meter!Read("measurements")
      /\ Meter!Attach[8] = Meter!Read("keys") /\ Meter!Attach[9] = Meter!Read("factor")
  BY DEF Meter!Attach
<1>2. Meter!Attach \in Seq(MeterRequests)
  <2>1. \A g \in MeterFunctions : Meter!Read(g) \in MeterRequests
    BY DEF MeterRequests
  <2>2. \A f \in {"ElectricalConnection", "Measurement", "DeviceConfiguration"} :
          Meter!Subscribe(f) \in MeterRequests
    BY DEF MeterRequests
  <2>3. QED
    BY <2>1, <2>2 DEF Meter!Attach, MeterFunctions
<1>3. 2 \in 1 .. 10 /\ 6 \in 1 .. 10 /\ 8 \in 1 .. 10 /\ 9 \in 1 .. 10 /\ 2 < 6
  OBVIOUS
<1>4. QED
  BY <1>1, <1>2, <1>3

LEMMA NewReadingsShaped ==
    ReadingsShape(Meter!NewReadings) /\ Meter!FactorPercent(Meter!NewReadings) = Meter!None
BY DEF ReadingsShape, Meter!NewReadings, Meter!FactorPercent

LEMMA MInitKeeps == ASSUME MeterConstants, Meter!MInit PROVE MeterInv
<1>1. meter \in Meters
  <2> DEFINE v == [i \in Slots |-> Meter!None]
             s == [i \in Slots |-> "normal"]
             l == [i \in Slots |-> IF i \in PerPhase THEN CHOOSE p \in Phases : TRUE
                                   ELSE Total]
  <2>1. v \in [Slots -> Levels] /\ s \in [Slots -> {"normal", "outOfRange", "error"}]
    BY DEF Levels
  <2>2. (CHOOSE p \in Phases : TRUE) \in Phases
    BY DEF MeterConstants
  <2>3. l \in Labels
    BY <2>2 DEF Labels
  <2>4. meter = [value |-> v, state |-> s, phases |-> l, factor |-> Percent[2]]
    BY DEF Meter!MInit
  <2> HIDE DEF v, s, l
  <2>5. QED
    BY <2>1, <2>3, <2>4 DEF Meters, PublishedFactors
<1>2. MeterTypes /\ FactorTold
  BY <1>1, AttachAsks, NewReadingsShaped DEF Meter!MInit, MeterTypes, FactorTold
<1>3. toMeter = Meter!Attach
  BY DEF Meter!MInit
<1>4. /\ \A g \in {"keys", "factor", "parameters"} : AskedFor(g)
      /\ ReadBehind("measurements")
  BY <1>3, AttachAsks DEF AskedFor, ReadBehind
<1>5. QED
  BY <1>2, <1>4 DEF MeterInv

LEMMA MeterReattachKeeps ==
    ASSUME MeterInv, NEW lost \in BOOLEAN, Meter!Reattach(lost)
    PROVE  MeterInv'
<1>1. /\ readings' = Meter!NewReadings /\ UNCHANGED <<meter, meterTold>>
      /\ toReader' = IF lost THEN <<>> ELSE toReader
      /\ toMeter' = IF lost THEN Meter!Attach ELSE toMeter \o Meter!Attach
      /\ meter \in Meters /\ toMeter \in Seq(MeterRequests) /\ toReader \in Seq(MeterPayloads)
  BY DEF Meter!Reattach, MeterInv, MeterTypes
<1>2. PICK n \in Nat : /\ toMeter' \in Seq(MeterRequests)
                       /\ \A j \in DOMAIN Meter!Attach : n + j \in DOMAIN toMeter'
                                                   /\ toMeter'[n + j] = Meter!Attach[j]
  <2>1. CASE lost
    <3>1. \A j \in DOMAIN Meter!Attach : 0 + j = j
      BY AttachAsks
    <3>2. toMeter' = Meter!Attach
      BY <1>1, <2>1
    <3>3. 0 \in Nat /\ \A j \in DOMAIN Meter!Attach : 0 + j \in DOMAIN toMeter'
                                               /\ toMeter'[0 + j] = Meter!Attach[j]
      BY <3>1, <3>2
    <3>4. QED
      BY <3>2, <3>3, AttachAsks
  <2>2. CASE ~lost
    <3>1. toMeter' = toMeter \o Meter!Attach
      BY <1>1, <2>2
    <3> DEFINE A == Meter!Attach
    <3>2. A \in Seq(MeterRequests) /\ toMeter' = toMeter \o A
      BY <3>1, AttachAsks
    <3> HIDE DEF A
    <3>3. /\ toMeter' \in Seq(MeterRequests) /\ Len(toMeter) \in Nat
          /\ \A j \in DOMAIN A : Len(toMeter) + j \in DOMAIN toMeter'
                                 /\ toMeter'[Len(toMeter) + j] = A[j]
      <4>1. toMeter \in Seq(MeterRequests)
        BY <1>1
      <4>2. /\ toMeter' \in Seq(MeterRequests) /\ Len(toMeter') = Len(toMeter) + Len(A)
            /\ \A j \in 1 .. Len(A) : toMeter'[Len(toMeter) + j] = A[j]
        BY ONLY <3>2, <4>1, Placed
      <4>3. DOMAIN A = 1 .. Len(A) /\ Len(A) \in Nat /\ Len(toMeter) \in Nat
        BY ONLY <3>2, <4>1
      <4>4. DOMAIN toMeter' = 1 .. Len(toMeter')
        BY ONLY <4>2
      <4>5. \A j \in 1 .. Len(A) : Len(toMeter) + j \in 1 .. (Len(toMeter) + Len(A))
        BY ONLY <4>3
      <4>6. QED
        BY ONLY <4>2, <4>3, <4>4, <4>5
    <3>4. QED
      BY <3>3 DEF A
  <2>3. QED
    BY <2>1, <2>2
<1>3. /\ \A g \in {"keys", "factor", "parameters"} : AskedFor(g)'
  BY <1>2, AttachAsks DEF AskedFor
<1>4. ReadBehind("measurements")'
  <2>1. PICK i, j \in DOMAIN Meter!Attach :
          i < j /\ Meter!Attach[i] = Meter!Read("parameters") /\ Meter!Attach[j] = Meter!Read("measurements")
    BY AttachAsks
  <2>2. i \in Nat /\ j \in Nat
    BY AttachAsks
  <2>3. n + i < n + j
    BY <2>1, <2>2
  <2>4. QED
    BY <1>2, <2>1, <2>3 DEF ReadBehind
<1>5. MeterTypes' /\ FactorTold'
  BY <1>1, <1>2, NewReadingsShaped DEF MeterTypes, FactorTold
<1>6. QED
  BY <1>3, <1>4, <1>5 DEF MeterInv

-----------------------------------------------------------------------------
(* A payload is sent *)

\* The unit that differs in function h only.
DiffersIn(u, h) ==
    /\ h # "factor" => u.factor = meter.factor
    /\ h # "parameters" => u.phases = meter.phases
    /\ h # "measurements" => u.value = meter.value /\ u.state = meter.state
\* What becomes of the values whose phases are not told.
Relabels(u, h) ==
    IF h = "measurements"
    THEN relabelled' = Meter!StillRelabelled /\ ("parameters" \in meterMissed => "parameters" \in meterMissed')
    ELSE /\ relabelled \subseteq relabelled'
         /\ \A i \in Slots : i \in relabelled' \/ u.phases[i] = meter.phases[i]

LEMMA OtherPayloads ==
    ASSUME NEW u \in Meters, NEW h, DiffersIn(u, h), meter \in Meters, NEW g, g # h
    PROVE  Meter!Payload(u, g) = Meter!Payload(meter, g)
<1>1. /\ Meter!Payload(u, g) = [function |-> g, data |-> Meter!Payload(u, g).data]
      /\ Meter!Payload(meter, g) = [function |-> g, data |-> Meter!Payload(meter, g).data]
  BY PayloadParts, Zenon
<1>2. CASE g = "parameters"
  <2>1. Meter!Payload(u, g).data = u.phases /\ Meter!Payload(meter, g).data = meter.phases
    BY <1>2, PayloadParts, Zenon
  <2>2. QED
    BY <1>1, <1>2, <2>1, Zenon DEF DiffersIn
<1>3. CASE g = "factor"
  <2>1. Meter!Payload(u, g).data = u.factor /\ Meter!Payload(meter, g).data = meter.factor
    BY <1>3, PayloadParts, Zenon
  <2>2. QED
    BY <1>1, <1>3, <2>1, Zenon DEF DiffersIn
<1>4. CASE g = "measurements"
  <2>1. /\ Meter!Payload(u, g).data = ValuesOf(u)
        /\ Meter!Payload(meter, g).data = ValuesOf(meter)
    BY <1>4, PayloadParts, Zenon
  <2>2. u.value = meter.value /\ u.state = meter.state
    BY <1>4 DEF DiffersIn
  <2>3. Meter!Listed(u) = Meter!Listed(meter)
    BY <2>2 DEF Meter!Listed
  <2>4. Meter!Payload(u, g).data = Meter!Payload(meter, g).data
    BY <2>1, <2>2, <2>3 DEF ValuesOf
  <2>5. QED
    BY <1>1, <2>4, Zenon
<1>5. CASE g \notin {"parameters", "measurements", "factor"}
  <2>1. Meter!Payload(u, g).data = <<>> /\ Meter!Payload(meter, g).data = <<>>
    BY <1>5, PayloadParts, Zenon
  <2>2. QED
    BY <1>1, <2>1, Zenon
<1>6. QED
  BY <1>2, <1>3, <1>4, <1>5

LEMMA AppendLabels ==
    ASSUME MeterTypes, NEW u \in Meters, NEW h \in MeterFunctions, DiffersIn(u, h),
           meter' = u, toReader' = Append(toReader, Meter!Payload(u, h)),
           readings' = readings,
           answered \subseteq answered', meterMissed \ {h} \subseteq meterMissed',
           Relabels(u, h),
           Labelling \/ (h = "parameters" /\ h \in answered')
    PROVE  Labelling'
<1> DEFINE p == Meter!Payload(u, h)
<1>1. p \in MeterPayloads /\ p.function = h /\ toReader \in Seq(MeterPayloads)
  BY PayloadFits DEF MeterTypes
<1>2. h = "parameters" => \A i \in Slots : p.data[i] = u.phases[i]
  <2>1. h = "parameters" => p.data = u.phases
    BY PayloadParts, Zenon
  <2>2. QED
    BY <2>1, Zenon
<1>3. toReader' = Append(toReader, p)
  OBVIOUS
<1> HIDE DEF p
<1>4. Len(toReader') + 1 = Len(toReader) + 2
  BY <1>1, <1>3
<1>5. CASE h = "parameters"
  <2>1. "parameters" \in answered'
    BY <1>5 DEF Labelling
  <2>2. ReadyIn(toReader', AllResolve(readings'), Len(toReader) + 2)
    BY <1>1, <1>3, <1>5, AppendBehind
  <2>3. ASSUME NEW i \in Slots
        PROVE  PhaseIn(toReader', readings'.phases[i], Len(toReader) + 2, i, u.phases[i])
    BY <1>1, <1>2, <1>3, <1>5, AppendBehind
  <2>4. QED
    BY <1>4, <2>1, <2>2, <2>3 DEF Labelling, LabelledAt, ReadyAt, BehindAll
<1>6. CASE h # "parameters"
  <2>1. Labelling /\ u.phases = meter.phases
    BY <1>6 DEF DiffersIn
  <2>2. ReadyIn(toReader', AllResolve(readings'), Len(toReader) + 2)
    <3>1. ReadyIn(toReader, AllResolve(readings), Len(toReader) + 1)
      BY <2>1 DEF Labelling, ReadyAt, BehindAll
    <3> DEFINE a == AllResolve(readings)
    <3> HIDE DEF a
    <3>2. ReadyIn(Append(toReader, p), a, Len(toReader) + 2)
      BY <1>1, <3>1, AppendBehind DEF a
    <3>3. QED
      BY <1>3, <3>2 DEF a, AllResolve
  <2>3. ASSUME NEW i \in Slots,
               PhaseIn(toReader, readings.phases[i], Len(toReader) + 1, i, u.phases[i])
        PROVE  PhaseIn(toReader', readings'.phases[i], Len(toReader) + 2, i, u.phases[i])
    BY <1>1, <1>3, <1>6, <2>3, AppendBehind
  <2>4. ASSUME NEW i \in Slots, i \in relabelled, "parameters" \in meterMissed
        PROVE  i \in relabelled' /\ "parameters" \in meterMissed'
    BY <1>6, <2>4 DEF Relabels, Meter!StillRelabelled
  <2>5. QED
    BY <1>4, <2>1, <2>2, <2>3, <2>4 DEF Labelling, LabelledAt, ReadyAt, BehindAll
<1>7. QED
  BY <1>5, <1>6

LEMMA AppendFresh ==
    ASSUME MeterTypes, NEW u \in Meters, NEW h \in MeterFunctions, DiffersIn(u, h),
           meter' = u, toReader' = Append(toReader, Meter!Payload(u, h)),
           readings' = readings,
           answered \subseteq answered', meterMissed \ {h} \subseteq meterMissed',
           NEW g \in {"keys", "factor"}, FreshOf(g) \/ (g = h /\ g \in answered')
    PROVE  FreshOf(g)'
<1> DEFINE p == Meter!Payload(u, h)
<1>1. p \in MeterPayloads /\ p.function = h /\ toReader \in Seq(MeterPayloads)
  BY PayloadFits DEF MeterTypes
<1>2. toReader' = Append(toReader, p)
  OBVIOUS
<1>3. g \in answered'
  BY DEF FreshOf
<1>4. CASE g = h
  <2>1. p = Meter!Payload(meter', g)
    BY <1>4
  <2> HIDE DEF p
  <2>2. PICK n \in DOMAIN toReader' : LastIn(toReader', n, g, p)
    BY <1>1, <1>2, AppendLast DEF LastIn
  <2>3. QED
    BY <1>3, <2>1, <2>2 DEF FreshOf
<1>5. CASE g # h
  <2>1. Meter!Payload(meter', g) = Meter!Payload(meter, g)
    BY <1>5, OtherPayloads DEF MeterTypes
  <2>2. FreshOf(g) /\ (HasOf(g) => HasOf(g)')
    BY <1>5 DEF HasOf, DiffersIn
  <2> HIDE DEF p
  <2>3. ASSUME NEW k \in DOMAIN toReader, LastIn(toReader, k, g, Meter!Payload(meter, g))
        PROVE  /\ k \in DOMAIN toReader'
               /\ LastIn(toReader', k, g, Meter!Payload(meter', g))
    <3>1. LastIn(toReader', k, g, Meter!Payload(meter', g))
      BY <1>1, <1>2, <1>5, <2>1, <2>3, AppendLast
    <3>2. QED
      BY <3>1 DEF LastIn
  <2>4. NoneIn(toReader, g) => NoneIn(toReader', g)
    BY <1>1, <1>2, <1>5, AppendLast
  <2>5. g \in meterMissed => g \in meterMissed'
    BY <1>5
  <2>6. QED
    BY <1>3, <2>2, <2>3, <2>4, <2>5 DEF FreshOf
<1>6. QED
  BY <1>4, <1>5

LEMMA AppendValued ==
    ASSUME MeterTypes, NEW u \in Meters, NEW h \in MeterFunctions, DiffersIn(u, h),
           meter' = u, toReader' = Append(toReader, Meter!Payload(u, h)),
           readings' = readings,
           meterTold' = meterTold,
           answered \subseteq answered', meterMissed \ {h} \subseteq meterMissed',
           Relabels(u, h),
           Valued \/ (h = "measurements" /\ Labelling /\ h \in answered')
    PROVE  Valued'
<1> DEFINE p == Meter!Payload(u, h)
<1>1. p \in MeterPayloads /\ p.function = h /\ toReader \in Seq(MeterPayloads)
  BY PayloadFits DEF MeterTypes
<1>2. toReader' = Append(toReader, p)
  OBVIOUS
<1>3. Labelling /\ Labelling' /\ "measurements" \in answered'
  BY AppendLabels DEF Valued
<1>4. AllResolve(readings') = AllResolve(readings)
  OBVIOUS
<1>5. ASSUME NEW k \in 1 .. Len(toReader) + 1, ReadyAt(k) PROVE ReadyAt(k)'
  <2> DEFINE a == AllResolve(readings)
  <2>1. ReadyIn(toReader, a, k)
    BY <1>5 DEF ReadyAt
  <2> HIDE DEF a, p
  <2>2. ReadyIn(toReader', a, k)
    BY <1>1, <1>2, <2>1, AppendAhead
  <2>3. QED
    BY <1>4, <2>2 DEF a, ReadyAt
<1>6. ASSUME NEW k \in 1 .. Len(toReader) + 1, NEW i \in Slots, LabelledAt(k, i),
             u.phases[i] = meter.phases[i]
      PROVE  LabelledAt(k, i)'
  <2> HIDE DEF p
  <2>1. PhaseIn(toReader', readings.phases[i], k, i, meter.phases[i])
    BY <1>1, <1>2, <1>6, AppendAhead DEF LabelledAt
  <2>2. QED
    BY <1>6, <2>1 DEF LabelledAt
<1>7. CASE h = "measurements"
  <2>1. PICK n \in 1 .. Len(toReader) + 1 : n = Len(toReader) + 1
    BY <1>1
  <2>2. LastIn(toReader', n, "measurements", p)
    <3> HIDE DEF p
    <3>1. QED
      BY <1>1, <1>2, <2>1, AppendLast
  <2>3. p = Meter!Payload(meter', "measurements")
    BY <1>7
  <2>4. ReadyAt(n)
    BY <1>3, <2>1 DEF Labelling, BehindAll
  <2>5. ReadyAt(n)'
    BY <1>5, <2>4
  <2>6. ASSUME NEW i \in Slots PROVE i \in relabelled' \/ LabelledAt(n, i)'
    <3>1. LabelledAt(n, i) \/ (i \in relabelled /\ "parameters" \in meterMissed)
      BY <1>3, <2>1 DEF Labelling, BehindAll
    <3>2. u.phases[i] = meter.phases[i]
      BY <1>7 DEF DiffersIn
    <3>3. i \in relabelled /\ "parameters" \in meterMissed => i \in relabelled'
      BY <1>7 DEF Relabels, Meter!StillRelabelled
    <3>4. QED
      BY <1>6, <3>1, <3>2, <3>3
  <2>7. n \in DOMAIN toReader'
    BY <2>2 DEF LastIn
  <2>8. SentAt(n)'
    BY <2>2, <2>3, <2>5, <2>6 DEF SentAt
  <2>9. QED
    BY <1>3, <2>7, <2>8 DEF Valued
<1>8. CASE h # "measurements"
  <2>1. Meter!Payload(meter', "measurements") = Meter!Payload(meter, "measurements")
    BY <1>8, OtherPayloads DEF MeterTypes
  <2>2. /\ Valued /\ relabelled \subseteq relabelled'
        /\ \A i \in Slots : i \in relabelled' \/ u.phases[i] = meter.phases[i]
    BY <1>8 DEF Relabels
  <2>3. CASE "measurements" \in meterMissed
    BY <1>3, <1>8, <2>3 DEF Valued
  <2>4. ASSUME NEW k \in DOMAIN toReader, SentAt(k) PROVE Valued'
    <3>1. k \in 1 .. Len(toReader) + 1
      BY <1>1, <2>4
    <3>2. LastIn(toReader', k, "measurements", Meter!Payload(meter', "measurements"))
      <4> HIDE DEF p
      <4>1. QED
        BY <1>1, <1>2, <1>8, <2>1, <2>4, AppendLast DEF SentAt
    <3>3. ReadyAt(k)'
      BY <1>5, <2>4, <3>1 DEF SentAt
    <3>4. ASSUME NEW i \in Slots PROVE i \in relabelled' \/ LabelledAt(k, i)'
      BY <1>6, <2>2, <2>4, <3>1 DEF SentAt
    <3>5. k \in DOMAIN toReader'
      BY <3>2 DEF LastIn
    <3>6. SentAt(k)'
      BY <3>2, <3>3, <3>4 DEF SentAt
    <3>7. QED
      BY <1>3, <3>5, <3>6 DEF Valued
  <2>5. CASE MeterTold
    <3>1. NoneIn(toReader', "measurements")
      <4> HIDE DEF p
      <4>1. QED
        BY <1>1, <1>2, <1>8, <2>5, AppendLast DEF MeterTold
    <3>2. u.value = meter.value /\ u.state = meter.state
      BY <1>8 DEF DiffersIn
    <3>3. Meter!Listed(meter') = Meter!Listed(meter) /\ Meter!Listed(meter) \subseteq Slots
      BY <3>2 DEF Meter!Listed
    <3>4. MeterTold'
      BY <2>2, <2>5, <3>1, <3>2, <3>3 DEF MeterTold
    <3>5. QED
      BY <1>3, <3>4 DEF Valued
  <2>6. QED
    BY <2>2, <2>3, <2>4, <2>5 DEF Valued
<1>9. QED
  BY <1>7, <1>8

-----------------------------------------------------------------------------
(* A change that nobody is meterTold *)

LEMMA SilentKeeps ==
    ASSUME MeterTypes, NEW u \in Meters, NEW h \in MeterFunctions, DiffersIn(u, h),
           meter' = u, toReader' = toReader, readings' = readings, meterTold' = meterTold,
           answered' = answered, meterMissed' = meterMissed \cup ({h} \cap answered),
           relabelled \subseteq relabelled',
           \A i \in Slots : i \in relabelled' \/ u.phases[i] = meter.phases[i]
    PROVE  /\ \A g \in {"keys", "factor"} : FreshOf(g) => FreshOf(g)'
           /\ Labelling => Labelling'
           /\ Valued => Valued'
<1>1. AllResolve(readings') = AllResolve(readings)
  OBVIOUS
<1>2. ASSUME NEW g \in {"keys", "factor"}, FreshOf(g) PROVE FreshOf(g)'
  <2>1. CASE g = h
    BY <1>2, <2>1 DEF FreshOf
  <2>2. CASE g # h
    <3>1. Meter!Payload(meter', g) = Meter!Payload(meter, g)
      BY <2>2, OtherPayloads DEF MeterTypes
    <3>2. HasOf(g) => HasOf(g)'
      BY <2>2 DEF HasOf, DiffersIn
    <3>3. QED
      BY <1>2, <3>1, <3>2 DEF FreshOf
  <2>3. QED
    BY <2>1, <2>2
<1>3. \A k : ReadyAt(k) => ReadyAt(k)'
  BY <1>1 DEF ReadyAt
<1>4. \A k, i : LabelledAt(k, i) /\ u.phases[i] = meter.phases[i] => LabelledAt(k, i)'
  BY DEF LabelledAt
<1>5. ASSUME Labelling PROVE Labelling'
  <2>1. "parameters" \in answered' /\ ReadyAt(BehindAll)'
    BY <1>1, <1>5 DEF Labelling, ReadyAt, BehindAll
  <2>2. ASSUME NEW i \in Slots
        PROVE  LabelledAt(BehindAll, i)' \/ (i \in relabelled' /\ "parameters" \in meterMissed')
    <3>1. h # "parameters" => u.phases[i] = meter.phases[i]
      BY DEF DiffersIn
    <3>2. h = "parameters" => h \in meterMissed'
      BY <1>5 DEF Labelling
    <3>3. LabelledAt(BehindAll, i) \/ (i \in relabelled /\ "parameters" \in meterMissed)
      BY <1>5 DEF Labelling
    <3>4. LabelledAt(BehindAll, i) /\ u.phases[i] = meter.phases[i] => LabelledAt(BehindAll, i)'
      BY DEF LabelledAt, BehindAll
    <3>5. QED
      BY <3>1, <3>2, <3>3, <3>4
  <2>3. QED
    BY <2>1, <2>2 DEF Labelling
<1>6. ASSUME Valued PROVE Valued'
  <2>1. Labelling' /\ "measurements" \in answered'
    BY <1>5, <1>6 DEF Valued
  <2>2. CASE "measurements" \in meterMissed \/ h = "measurements"
    BY <1>6, <2>1, <2>2 DEF Valued
  <2>3. CASE h # "measurements"
    <3>1. Meter!Payload(meter', "measurements") = Meter!Payload(meter, "measurements")
      BY <2>3, OtherPayloads DEF MeterTypes
    <3>2. \A k \in DOMAIN toReader : SentAt(k) => SentAt(k)'
      BY <1>3, <1>4, <3>1 DEF SentAt
    <3>3. u.value = meter.value /\ u.state = meter.state
      BY <2>3 DEF DiffersIn
    <3>4. Meter!Listed(meter') = Meter!Listed(meter) /\ Meter!Listed(meter) \subseteq Slots
      BY <3>3 DEF Meter!Listed
    <3>5. MeterTold => MeterTold'
      BY <3>3, <3>4 DEF MeterTold
    <3>6. QED
      BY <1>6, <2>1, <3>2, <3>5 DEF Valued
  <2>4. QED
    BY <2>2, <2>3
<1>7. QED
  BY <1>2, <1>5, <1>6

-----------------------------------------------------------------------------
(* The unit's own meterSteps *)

LEMMA MeterPublishKeeps ==
    ASSUME MeterInv, NEW u \in Meters, NEW h \in MeterFunctions, DiffersIn(u, h),
           Meter!Publish(u, h),
           IF Meter!FeatureOf(h) \in meterGranted THEN Relabels(u, h)
           ELSE /\ relabelled \subseteq relabelled'
                /\ \A i \in Slots : i \in relabelled' \/ u.phases[i] = meter.phases[i]
    PROVE  MeterInv'
<1>1. /\ meter' = u /\ readings' = readings /\ meterTold' = meterTold /\ toMeter' = toMeter
      /\ answered' = answered
      /\ IF Meter!FeatureOf(h) \in meterGranted
         THEN toReader' = Append(toReader, Meter!Payload(u,
         h)) /\ meterMissed' = meterMissed \ {h}
         ELSE toReader' = toReader /\ meterMissed' = meterMissed \cup ({h} \cap answered)
  BY DEF Meter!Publish
<1>2. MeterTypes
  BY DEF MeterInv
<1>3. /\ \A g \in {"keys", "factor"} : FreshOf(g) => FreshOf(g)'
      /\ Labelling => Labelling'
      /\ Valued => Valued'
  <2>1. CASE Meter!FeatureOf(h) \in meterGranted
    <3>1. /\ toReader' = Append(toReader, Meter!Payload(u, h)) /\ meterMissed \ {h} \subseteq meterMissed'
          /\ answered \subseteq answered' /\ Relabels(u, h)
      BY <1>1, <2>1
    <3>2. \A g \in {"keys", "factor"} : FreshOf(g) => FreshOf(g)'
      BY <1>1, <1>2, <3>1, AppendFresh
    <3>3. Labelling => Labelling'
      BY <1>1, <1>2, <3>1, AppendLabels
    <3>4. Valued => Valued'
      BY <1>1, <1>2, <3>1, AppendValued
    <3>5. QED
      BY <3>2, <3>3, <3>4
  <2>2. CASE Meter!FeatureOf(h) \notin meterGranted
    BY <1>1, <1>2, <2>2, SilentKeeps
  <2>3. QED
    BY <2>1, <2>2
<1>4. MeterTypes'
  <2>1. Meter!Payload(u, h) \in MeterPayloads
    BY PayloadFits
  <2>2. toReader' \in Seq(MeterPayloads)
    BY SMTT(20), <1>1, <1>2, <2>1 DEF MeterTypes
  <2>3. QED
    BY <1>1, <1>2, <2>2 DEF MeterTypes
<1>5. FactorTold'
  BY <1>1 DEF MeterInv, FactorTold
<1>6. \A g \in {"keys", "factor", "parameters"} : AskedFor(g) => AskedFor(g)'
  BY <1>1 DEF AskedFor
<1>7. ReadBehind("measurements") => ReadBehind("measurements")'
  BY <1>1, <1>3 DEF ReadBehind
<1>8. QED
  BY <1>3, <1>4, <1>5, <1>6, <1>7 DEF MeterInv

LEMMA MeasureKeeps ==
    ASSUME MeterConstants, MeterInv, NEW i \in Slots, NEW v \in Values, Meter!Measure(i, v)
    PROVE  MeterInv'
<1> DEFINE u == Meter!Record(meter, i, v)
           s == IF v \in InRange THEN "normal" ELSE "outOfRange"
<1>1. meter \in Meters
  BY DEF MeterInv, MeterTypes
<1>2. u = [value |-> [meter.value EXCEPT ![i] = v], state |-> [meter.state EXCEPT ![i] = s],
           phases |-> meter.phases, factor |-> meter.factor]
  <2>1. u = [meter EXCEPT !.value[i] = v, !.state[i] = s]
    BY Zenon DEF Meter!Record
  <2> HIDE DEF u, s
  <2> DEFINE a == [meter EXCEPT !.value[i] = v]
  <2>2. a = [value |-> [meter.value EXCEPT ![i] = v], state |-> meter.state,
             phases |-> meter.phases, factor |-> meter.factor]
    BY <1>1 DEF Meters
  <2>3. u = [a EXCEPT !.state[i] = s]
    BY <2>1
  <2> HIDE DEF a
  <2>4. QED
    BY <2>2, <2>3
<1>3. u \in Meters /\ DiffersIn(u, "measurements")
  BY <1>1, <1>2 DEF Meters, Levels, DiffersIn
<1>4. /\ Meter!Publish(u, "measurements")
      /\ relabelled' = IF "Measurement" \in meterGranted THEN Meter!StillRelabelled ELSE relabelled
  BY DEF Meter!Measure
<1> HIDE DEF u
<1>5. /\ u.phases = meter.phases
      /\ IF "Measurement" \in meterGranted THEN meterMissed' = meterMissed \ {"measurements"} ELSE TRUE
  BY <1>3, <1>4, FeatureParts DEF DiffersIn, Meter!Publish
<1>6. "Measurement" \in meterGranted => Relabels(u, "measurements")
  BY <1>4, <1>5 DEF Relabels
<1>7. "Measurement" \notin meterGranted =>
        /\ relabelled \subseteq relabelled'
        /\ \A j \in Slots : j \in relabelled' \/ u.phases[j] = meter.phases[j]
  BY <1>4, <1>5
<1>8. QED
  BY <1>3, <1>4, <1>6, <1>7, FeatureParts, MeterPublishKeeps DEF MeterFunctions

LEMMA FailKeeps ==
    ASSUME MeterConstants, MeterInv, NEW i \in Slots, Meter!Fail(i)
    PROVE  MeterInv'
<1> DEFINE u == [meter EXCEPT !.state[i] = "error"]
<1>1. meter \in Meters
  BY DEF MeterInv, MeterTypes
<1>2. u = [value |-> meter.value, state |-> [meter.state EXCEPT ![i] = "error"],
           phases |-> meter.phases, factor |-> meter.factor]
  BY <1>1 DEF Meters
<1>3. u \in Meters /\ DiffersIn(u, "measurements")
  BY <1>1, <1>2 DEF Meters, Levels, DiffersIn
<1>4. /\ Meter!Publish(u, "measurements")
      /\ relabelled' = IF "Measurement" \in meterGranted THEN Meter!StillRelabelled ELSE relabelled
  BY DEF Meter!Fail
<1> HIDE DEF u
<1>5. /\ u.phases = meter.phases
      /\ IF "Measurement" \in meterGranted THEN meterMissed' = meterMissed \ {"measurements"} ELSE TRUE
  BY <1>3, <1>4, FeatureParts DEF DiffersIn, Meter!Publish
<1>6. "Measurement" \in meterGranted => Relabels(u, "measurements")
  BY <1>4, <1>5 DEF Relabels
<1>7. "Measurement" \notin meterGranted =>
        /\ relabelled \subseteq relabelled'
        /\ \A j \in Slots : j \in relabelled' \/ u.phases[j] = meter.phases[j]
  BY <1>4, <1>5
<1>8. QED
  BY <1>3, <1>4, <1>6, <1>7, FeatureParts, MeterPublishKeeps DEF MeterFunctions

LEMMA RelabelKeeps ==
    ASSUME MeterConstants, MeterInv, NEW i \in Slots, NEW p \in Phases, Meter!Relabel(i, p)
    PROVE  MeterInv'
<1> DEFINE u == [meter EXCEPT !.phases[i] = p]
<1>1. meter \in Meters /\ i \in PerPhase
  BY DEF MeterInv, MeterTypes, Meter!Relabel
<1>2. u = [value |-> meter.value, state |-> meter.state,
           phases |-> [meter.phases EXCEPT ![i] = p], factor |-> meter.factor]
  BY <1>1 DEF Meters
<1>3. u.phases \in Labels /\ \A j \in Slots : j # i => u.phases[j] = meter.phases[j]
  BY <1>1, <1>2 DEF Meters, Labels
<1>4. u \in Meters /\ DiffersIn(u, "parameters")
  BY <1>1, <1>2, <1>3 DEF Meters, DiffersIn
<1>5. Meter!Publish(u, "parameters") /\ relabelled' = relabelled \cup {i}
  BY DEF Meter!Relabel
<1> HIDE DEF u
<1>6. /\ relabelled \subseteq relabelled'
      /\ \A j \in Slots : j \in relabelled' \/ u.phases[j] = meter.phases[j]
  BY <1>3, <1>5
<1>7. QED
  BY <1>4, <1>5, <1>6, MeterPublishKeeps DEF MeterFunctions, Relabels

LEMMA CurtailKeeps ==
    ASSUME MeterConstants, MeterInv, NEW f \in Factors, Meter!Curtail(f)
    PROVE  MeterInv'
<1> DEFINE u == [meter EXCEPT !.factor = f]
<1>1. meter \in Meters
  BY DEF MeterInv, MeterTypes
<1>2. u = [value |-> meter.value, state |-> meter.state, phases |-> meter.phases,
           factor |-> f]
  BY <1>1 DEF Meters
<1>3. u \in Meters /\ DiffersIn(u, "factor")
  BY <1>1, <1>2 DEF Meters, PublishedFactors, DiffersIn
<1>4. Meter!Publish(u, "factor") /\ relabelled' = relabelled /\ u.phases = meter.phases
  BY <1>2 DEF Meter!Curtail
<1> HIDE DEF u
<1>5. /\ relabelled \subseteq relabelled'
      /\ \A j \in Slots : j \in relabelled' \/ u.phases[j] = meter.phases[j]
  BY <1>4
<1>6. QED
  BY <1>3, <1>4, <1>5, MeterPublishKeeps DEF MeterFunctions, Relabels

-----------------------------------------------------------------------------
(* A request is served *)

LEMMA TailAsks ==
    ASSUME MeterTypes, toMeter # <<>>, toMeter' = Tail(toMeter), NEW g,
           Labelling \/ Head(toMeter) = Meter!Read("parameters") => Labelling'
    PROVE  /\ AskedFor(g) => AskedFor(g)' \/ Head(toMeter) = Meter!Read(g)
           /\ ReadBehind(g) => ReadBehind(g)' \/ (Head(toMeter) = Meter!Read(g) /\ Labelling)
<1>1. /\ \A l \in DOMAIN toMeter :
           l \in Nat /\ (l # 1 => l - 1 \in DOMAIN toMeter' /\ toMeter'[l - 1] = toMeter[l])
      /\ toMeter[1] = Head(toMeter)
  BY DEF MeterTypes
<1>2. \A l \in DOMAIN toMeter : ~(l < 1)
  BY DEF MeterTypes
<1>3. AskedFor(g) => AskedFor(g)' \/ Head(toMeter) = Meter!Read(g)
  BY <1>1 DEF AskedFor
<1>4. ASSUME NEW j \in DOMAIN toMeter, toMeter[j] = Meter!Read(g),
             Labelling \/ \E i \in DOMAIN toMeter : i < j /\ toMeter[i] = Meter!Read("parameters")
      PROVE  ReadBehind(g)' \/ (Head(toMeter) = Meter!Read(g) /\ Labelling)
  <2>1. CASE j = 1
    <3>1. ~ \E i \in DOMAIN toMeter : i < j
      BY <1>2, <2>1
    <3>2. QED
      BY <1>1, <1>4, <2>1, <3>1
  <2>2. CASE j # 1
    <3>1. j - 1 \in DOMAIN toMeter' /\ toMeter'[j - 1] = Meter!Read(g)
      BY <1>1, <1>4, <2>2
    <3>2. CASE Labelling
      BY <3>1, <3>2 DEF ReadBehind
    <3>3. ASSUME NEW i \in DOMAIN toMeter, i < j, toMeter[i] = Meter!Read("parameters")
          PROVE  ReadBehind(g)'
      <4>1. CASE i = 1
        BY <1>1, <3>1, <3>3, <4>1 DEF ReadBehind
      <4>2. CASE i # 1
        <5>1. /\ i - 1 \in DOMAIN toMeter' /\ toMeter'[i - 1] = Meter!Read("parameters")
              /\ i - 1 < j - 1
          BY <1>1, <3>3, <4>2
        <5>2. QED
          BY <3>1, <5>1 DEF ReadBehind
      <4>3. QED
        BY <4>1, <4>2
    <3>4. QED
      BY <1>4, <3>2, <3>3
  <2>3. QED
    BY <2>1, <2>2
<1>5. QED
  BY <1>3, <1>4 DEF ReadBehind

LEMMA MeterServeKeeps == ASSUME MeterInv, Meter!Serve PROVE MeterInv'
<1>1. PICK m \in MeterRequests : m = Head(toMeter)
  BY DEF Meter!Serve, MeterInv, MeterTypes
<1>2. /\ toMeter # <<>> /\ toMeter' = Tail(toMeter) /\ MeterTypes
      /\ UNCHANGED <<meter, readings, meterTold, meterMissed>>
      /\ \/ /\ m.what = "read"
            /\ toReader' = Append(toReader, Meter!Payload(meter, m.function))
            /\ answered' = answered \cup {m.function}
            /\ relabelled' = IF m.function = "measurements" THEN Meter!StillRelabelled
                              ELSE relabelled
         \/ /\ m.what = "subscribe"
            /\ UNCHANGED <<toReader, answered, relabelled>>
  BY <1>1 DEF Meter!Serve, MeterInv
<1>3. toMeter' \in Seq(MeterRequests)
  BY <1>2 DEF MeterTypes
<1>4. FactorTold'
  BY <1>2 DEF MeterInv, FactorTold
<1>5. CASE m.what = "read"
  <2>1. PICK h \in MeterFunctions : m = Meter!Read(h)
    BY <1>5 DEF MeterRequests, Meter!Subscribe
  <2>2. m.function = h
    BY <2>1 DEF Meter!Read
  <2>3. /\ toReader' = Append(toReader, Meter!Payload(meter, h))
        /\ answered' = answered \cup {h}
        /\ relabelled' = IF h = "measurements" THEN Meter!StillRelabelled ELSE relabelled
    BY <1>2, <1>5, <2>2
  <2>4. PICK u \in Meters : u = meter
    BY <1>2 DEF MeterTypes
  <2>5. /\ DiffersIn(u, h) /\ Relabels(u, h) /\ meter' = u
        /\ toReader' = Append(toReader, Meter!Payload(u, h)) /\ readings' = readings
        /\ meterTold' = meterTold /\ answered \subseteq answered' /\ meterMissed \ {h} \subseteq meterMissed'
        /\ h \in answered'
    BY <1>2, <2>3, <2>4 DEF DiffersIn, Relabels
  <2>6. Labelling \/ h = "parameters" => Labelling'
    BY <1>2, <2>5, AppendLabels
  <2>7. \A g \in {"keys", "factor"} : FreshOf(g) \/ g = h => FreshOf(g)'
    BY <1>2, <2>5, AppendFresh
  <2>8. Valued \/ (h = "measurements" /\ Labelling) => Valued'
    BY <1>2, <2>5, AppendValued
  <2>9. \A g : Head(toMeter) = Meter!Read(g) => g = h
    BY <1>1, <2>1 DEF Meter!Read
  <2>10. Labelling \/ Head(toMeter) = Meter!Read("parameters") => Labelling'
    BY <2>6, <2>9
  <2>11. \A g \in {"keys", "factor", "parameters"} : AskedFor(g) => AskedFor(g)' \/ g = h
    BY <1>2, <2>9, <2>10, TailAsks
  <2>12. ReadBehind("measurements") =>
           ReadBehind("measurements")' \/ (h = "measurements" /\ Labelling)
    BY <1>2, <2>9, <2>10, TailAsks
  <2>13. Meter!Payload(u, h) \in MeterPayloads
    BY PayloadFits
  <2>14. toReader' \in Seq(MeterPayloads)
    BY <1>2, <2>5, <2>13 DEF MeterTypes
  <2>15. MeterTypes'
    BY <1>2, <1>3, <2>14 DEF MeterTypes
  <2>16. QED
    BY <1>4, <2>6, <2>7, <2>8, <2>11, <2>12, <2>15 DEF MeterInv
<1>6. CASE m.what = "subscribe"
  <2>1. UNCHANGED <<toReader, answered, relabelled>>
    BY <1>2, <1>6
  <2>2. \A g : Head(toMeter) # Meter!Read(g)
    BY <1>1, <1>6 DEF Meter!Read
  <2>3. /\ Labelling => Labelling'
        /\ Valued => Valued'
        /\ \A g \in {"keys", "factor"} : FreshOf(g) => FreshOf(g)'
    <3>1. Labelling' = Labelling
      BY <1>2, <2>1 DEF Labelling, LabelledAt, ReadyAt, BehindAll
    <3>2. \A k : SentAt(k) => SentAt(k)'
      BY <1>2, <2>1 DEF SentAt, LabelledAt, ReadyAt
    <3>3. MeterTold => MeterTold'
      BY <1>2, <2>1 DEF MeterTold
    <3>4. Valued => Valued'
      BY <1>2, <2>1, <3>1, <3>2, <3>3 DEF Valued
    <3>5. \A g \in {"keys", "factor"} : FreshOf(g) => FreshOf(g)'
      BY <1>2, <2>1 DEF FreshOf, HasOf
    <3>6. QED
      BY <3>1, <3>4, <3>5
  <2>4. \A g \in {"keys", "factor", "parameters"} : AskedFor(g) => AskedFor(g)'
    BY <1>2, <2>2, <2>3, TailAsks
  <2>5. ReadBehind("measurements") => ReadBehind("measurements")'
    BY <1>2, <2>2, <2>3, TailAsks
  <2>6. MeterTypes'
    BY <1>2, <1>3, <2>1 DEF MeterTypes
  <2>7. QED
    BY <1>4, <2>3, <2>4, <2>5, <2>6 DEF MeterInv
<1>7. QED
  BY <1>2, <1>5, <1>6

-----------------------------------------------------------------------------
(* A payload is heard *)

LEMMA HearLearns ==
    ASSUME MeterConstants, MeterTypes, Meter!Hear, NEW p \in MeterPayloads, p = Head(toReader)
    PROVE  /\ ReadingsShape(readings')
           /\ readings' = Learnt(readings, p)
           /\ meterTold'.values = [i \in Slots |->
                IF p.function = "measurements" /\ i \in DOMAIN p.data /\ Meter!Resolves(readings', i)
                THEN readings'.values[i] ELSE meterTold.values[i]]
           /\ meterTold'.factor = IF Meter!FactorPercent(readings') # Meter!FactorPercent(readings)
                             THEN Meter!FactorPercent(readings') ELSE meterTold.factor
           /\ p.function = "parameters" => AllResolve(readings')
           /\ AllResolve(readings) => AllResolve(readings')
           /\ \A i \in Slots :
                IF p.function = "parameters" THEN readings'.phases[i] = p.data[i]
                ELSE \/ readings'.phases[i] = readings.phases[i]
                     \/ readings'.phases[i] = meter.phases[i]
<1>1. /\ ReadingsShape(readings) /\ meter \in Meters
  BY DEF MeterTypes
<1>2. readings' = Learnt(readings, p)
  BY DEF Meter!Hear, Learnt
<1>3. /\ meterTold'.values = [i \in Slots |->
                IF p.function = "measurements" /\ i \in DOMAIN p.data /\ Meter!Resolves(readings', i)
                THEN readings'.values[i] ELSE meterTold.values[i]]
      /\ meterTold'.factor = IF Meter!FactorPercent(readings') # Meter!FactorPercent(readings)
                        THEN Meter!FactorPercent(readings') ELSE meterTold.factor
  BY <1>2 DEF Meter!Hear, Learnt
<1>4. /\ ReadingsShape(readings')
      /\ readings'.quantity = IF p.function \in {"parameters", "descriptions"}
                              THEN [i \in Slots |-> TRUE] ELSE readings.quantity
      /\ readings'.phases =
           IF p.function = "parameters" THEN p.data
           ELSE IF p.function = "descriptions"
           THEN [i \in Slots |-> IF i \in PerPhase THEN readings.phases[i] ELSE Total]
           ELSE readings.phases
  <2> DEFINE n == Learnt(readings, p)
             open == [i \in Slots |-> IF i \in PerPhase THEN readings.phases[i] ELSE Total]
             all == [i \in Slots |-> TRUE]
  <2>1. /\ ReadingsShape(n)
        /\ n.quantity = IF p.function \in {"parameters", "descriptions"}
                        THEN all ELSE readings.quantity
        /\ n.phases = IF p.function = "parameters" THEN p.data
                      ELSE IF p.function = "descriptions" THEN open ELSE readings.phases
    BY ONLY <1>1, LearntParts, p \in MeterPayloads
  <2> HIDE DEF n
  <2>2. readings' = n
    BY <1>2 DEF n
  <2>3. QED
    BY <2>1, <2>2
<1>5. \A i \in Slots : i \notin PerPhase => meter.phases[i] = Total
  BY <1>1 DEF Meters, Labels
<1>6. CASE p.function = "parameters"
  <2>1. p.data \in Labels /\ readings'.phases = p.data
    BY <1>4, <1>6, PayloadIsTyped
  <2>2. \A i \in Slots : readings'.quantity[i] /\ readings'.phases[i] # "unknown"
    BY <1>4, <1>6, <2>1 DEF Labels, MeterConstants
  <2>3. AllResolve(readings')
    BY <2>2 DEF AllResolve, Meter!Resolves
  <2>4. QED
    BY <1>2, <1>3, <1>4, <1>6, <2>1, <2>3
<1>7. CASE p.function = "descriptions"
  <2>1. \A i \in Slots :
          /\ readings'.quantity[i]
          /\ i \in PerPhase => readings'.phases[i] = readings.phases[i]
          /\ i \notin PerPhase => readings'.phases[i] = Total
    BY <1>4, <1>7
  <2>2. AllResolve(readings) => AllResolve(readings')
    BY <2>1 DEF AllResolve, Meter!Resolves, MeterConstants
  <2>3. QED
    BY <1>2, <1>3, <1>4, <1>5, <1>7, <2>1, <2>2
<1>8. CASE p.function \notin {"parameters", "descriptions"}
  <2>1. readings'.quantity = readings.quantity /\ readings'.phases = readings.phases
    BY <1>4, <1>8
  <2>2. AllResolve(readings) => AllResolve(readings')
    BY <2>1 DEF AllResolve, Meter!Resolves
  <2>3. QED
    BY <1>2, <1>3, <1>4, <1>8, <2>1, <2>2
<1>9. QED
  BY <1>6, <1>7, <1>8

LEMMA HearAhead ==
    ASSUME MeterConstants, MeterTypes, Meter!Hear, NEW k \in 2 .. Len(toReader) + 1,
           NEW n, n = k - 1
    PROVE  /\ ReadyAt(k) => ReadyAt(n)'
           /\ \A i \in Slots : LabelledAt(k, i) => LabelledAt(n, i)'
<1>1. PICK p \in MeterPayloads : p = Head(toReader)
  BY DEF Meter!Hear, MeterTypes
<1>2. /\ toReader # <<>> /\ toReader \in Seq(MeterPayloads) /\ toReader' = Tail(toReader)
      /\ meter' = meter
  BY DEF Meter!Hear, MeterTypes
<1>3. toReader[1] = p
  BY <1>1, <1>2
<1> DEFINE ready == AllResolve(readings)
           steady == AllResolve(readings')
<1>4. /\ p.function = "parameters" => steady
      /\ ready => steady
  BY <1>1, HearLearns
<1>5. \A i \in Slots :
        IF p.function = "parameters" THEN readings'.phases[i] = p.data[i]
        ELSE readings'.phases[i] = readings.phases[i] \/ readings'.phases[i] = meter.phases[i]
  BY <1>1, HearLearns
<1> HIDE DEF ready, steady
<1>6. ASSUME NEW i \in Slots
      PROVE  /\ PhaseIn(toReader, readings.phases[i], k, i, meter.phases[i]) =>
                  PhaseIn(toReader', readings'.phases[i], n, i, meter.phases[i])
             /\ ReadyIn(toReader, ready, k) => ReadyIn(toReader', steady, n)
  <2> DEFINE x == readings.phases[i]
             y == readings'.phases[i]
             d == meter.phases[i]
  <2>1. IF toReader[1].function = "parameters" THEN steady /\ y = toReader[1].data[i]
        ELSE (ready => steady) /\ (y = x \/ y = d)
    BY <1>3, <1>4, <1>5
  <2> HIDE DEF x, y, d
  <2>2. /\ PhaseIn(toReader, x, k, i, d) => PhaseIn(Tail(toReader), y, k - 1, i, d)
        /\ ReadyIn(toReader, ready, k) => ReadyIn(Tail(toReader), steady, k - 1)
    BY <1>2, <2>1, TailAhead
  <2>3. QED
    BY <1>2, <2>2 DEF x, y, d
<1>7. ReadyIn(toReader, ready, k) => ReadyIn(toReader', steady, n)
  <2> DEFINE y == IF p.function = "parameters" THEN p.data[1] ELSE 1
  <2>1. IF toReader[1].function = "parameters" THEN steady /\ y = toReader[1].data[1]
        ELSE (ready => steady) /\ (y = 1 \/ y = 1)
    BY <1>3, <1>4
  <2> HIDE DEF y
  <2>2. ReadyIn(toReader, ready, k) => ReadyIn(Tail(toReader), steady, k - 1)
    BY <1>2, <2>1, TailAhead
  <2>3. QED
    BY <1>2, <2>2
<1>8. ReadyAt(k) => ReadyAt(n)'
  BY <1>7 DEF ReadyAt, ready, steady
<1>9. QED
  BY <1>2, <1>6, <1>8 DEF LabelledAt

LEMMA HearLabels ==
    ASSUME MeterConstants, MeterTypes, Meter!Hear, Labelling
    PROVE  Labelling'
<1>1. /\ toReader # <<>> /\ toReader \in Seq(MeterPayloads) /\ toReader' = Tail(toReader)
      /\ UNCHANGED <<answered, meterMissed, relabelled, meter>>
  BY DEF Meter!Hear, MeterTypes
<1>2. PICK k \in 2 .. Len(toReader) + 1 : k = Len(toReader) + 1
  BY <1>1
<1>3. PICK n : n = k - 1
  OBVIOUS
<1>4. BehindAll = k /\ BehindAll' = n
  BY <1>1, <1>2, <1>3 DEF BehindAll
<1>5. /\ ReadyAt(k) => ReadyAt(n)'
      /\ \A i \in Slots : LabelledAt(k, i) => LabelledAt(n, i)'
  BY <1>3, HearAhead
<1>6. /\ ReadyAt(k)
      /\ \A i \in Slots : LabelledAt(k, i) \/ (i \in relabelled /\ "parameters" \in meterMissed)
  BY <1>4 DEF Labelling
<1>7. ReadyAt(n)' => ReadyAt(BehindAll)'
  BY <1>4 DEF ReadyAt
<1>8. \A i \in Slots : LabelledAt(n, i)' => LabelledAt(BehindAll, i)'
  BY <1>4 DEF LabelledAt
<1>9. "parameters" \in answered'
  BY <1>1 DEF Labelling
<1>10. QED
  BY <1>1, <1>5, <1>6, <1>7, <1>8, <1>9 DEF Labelling

LEMMA HearFresh ==
    ASSUME MeterConstants, MeterTypes, Meter!Hear, NEW g \in {"keys", "factor"}, FreshOf(g)
    PROVE  FreshOf(g)'
<1>1. /\ toReader # <<>> /\ toReader \in Seq(MeterPayloads) /\ toReader' = Tail(toReader)
      /\ UNCHANGED <<answered, meterMissed, meter>> /\ ReadingsShape(readings) /\ meter \in Meters
  BY DEF Meter!Hear, MeterTypes
<1>2. PICK p \in MeterPayloads : p = Head(toReader)
  BY <1>1
<1>3. toReader[1] = p
  BY <1>1, <1>2
<1>4. readings' = Learnt(readings, p)
  BY <1>2, HearLearns
<1>5. /\ readings'.key = (readings.key \/ p.function = "keys")
      /\ readings'.factor = IF p.function = "factor" THEN p.data ELSE readings.factor
  <2> DEFINE l == Learnt(readings, p)
  <2>1. /\ l.key = (readings.key \/ p.function = "keys")
        /\ l.factor = IF p.function = "factor" THEN p.data ELSE readings.factor
    BY ONLY <1>1, LearntParts, p \in MeterPayloads
  <2> HIDE DEF l
  <2>2. readings' = l
    BY <1>4 DEF l
  <2>3. QED
    BY <2>1, <2>2
<1>6. g \in answered'
  BY <1>1 DEF FreshOf
<1>7. CASE g \in meterMissed
  BY <1>1, <1>6, <1>7 DEF FreshOf
<1>8. ASSUME NEW k \in DOMAIN toReader, LastIn(toReader, k, g, Meter!Payload(meter, g))
      PROVE  FreshOf(g)'
  <2> DEFINE q == Meter!Payload(meter, g)
  <2>1. q = Meter!Payload(meter, g)'
    BY <1>1
  <2>2. LastIn(toReader, k, g, q)
    BY <1>8
  <2>3. CASE k # 1
    <3>1. PICK n : n = k - 1
      OBVIOUS
    <3>2. LastIn(toReader', n, g, q)
      <4> HIDE DEF q
      <4>1. QED
        BY <1>1, <2>2, <2>3, <3>1, TailLast
    <3>3. n \in DOMAIN toReader'
      BY <3>2 DEF LastIn
    <3>4. QED
      BY <1>6, <2>1, <3>2, <3>3 DEF FreshOf
  <2>4. CASE k = 1
    <3>1. NoneIn(toReader', g)
      <4> HIDE DEF q
      <4>1. QED
        BY <1>1, <2>2, <2>4, TailLast
    <3>2. p = q
      BY <1>3, <2>2, <2>4 DEF LastIn
    <3>3. p.function = g /\ (g = "factor" => p.data = meter.factor)
      BY <3>2, PayloadParts, Zenon
    <3>4. g = "keys" => readings'.key
      BY <1>5, <3>3
    <3>5. g = "factor" => readings'.factor = meter'.factor
      BY <1>1, <1>5, <3>3
    <3>6. HasOf(g)'
      BY <3>4, <3>5 DEF HasOf
    <3>7. QED
      BY <1>6, <3>1, <3>6 DEF FreshOf
  <2>5. QED
    BY <2>3, <2>4
<1>9. CASE NoneIn(toReader, g) /\ HasOf(g)
  <2>1. NoneIn(toReader', g) /\ p.function # g
    BY <1>1, <1>3, <1>9, TailLast
  <2>2. g = "keys" => readings'.key
    BY <1>5, <1>9 DEF HasOf
  <2>3. g = "factor" => readings'.factor = meter'.factor
    BY <1>1, <1>5, <1>9, <2>1 DEF HasOf
  <2>4. HasOf(g)'
    BY <2>2, <2>3 DEF HasOf
  <2>5. QED
    BY <1>6, <2>1, <2>4 DEF FreshOf
<1>10. QED
  BY <1>7, <1>8, <1>9 DEF FreshOf

LEMMA HearValues ==
    ASSUME MeterConstants, MeterTypes, Meter!Hear, Valued
    PROVE  Valued'
<1>1. /\ toReader # <<>> /\ toReader \in Seq(MeterPayloads) /\ toReader' = Tail(toReader)
      /\ UNCHANGED <<answered, meterMissed, relabelled, meter>> /\ ReadingsShape(readings)
      /\ meter \in Meters
  BY DEF Meter!Hear, MeterTypes
<1>2. PICK p \in MeterPayloads : p = Head(toReader)
  BY <1>1
<1>3. toReader[1] = p
  BY <1>1, <1>2
<1>4. Labelling' /\ "measurements" \in answered'
  BY <1>1, HearLabels DEF Valued
<1>5. /\ readings' = Learnt(readings, p)
      /\ meterTold'.values = [i \in Slots |->
           IF p.function = "measurements" /\ i \in DOMAIN p.data /\ Meter!Resolves(readings', i)
           THEN readings'.values[i] ELSE meterTold.values[i]]
      /\ AllResolve(readings) => AllResolve(readings')
  BY <1>2, HearLearns
<1>6. CASE "measurements" \in meterMissed
  BY <1>1, <1>4, <1>6 DEF Valued
<1>7. ASSUME NEW k \in DOMAIN toReader, k # 1, SentAt(k)
      PROVE  Valued'
  <2>1. PICK n : n = k - 1
    OBVIOUS
  <2>2. k \in 2 .. Len(toReader) + 1
    BY <1>1, <1>7
  <2>3. Meter!Payload(meter', "measurements") = Meter!Payload(meter, "measurements")
    BY <1>1
  <2>4. LastIn(toReader', n, "measurements", Meter!Payload(meter', "measurements"))
    BY <1>1, <1>7, <2>1, <2>3, TailLast DEF SentAt
  <2>5. /\ ReadyAt(k) => ReadyAt(n)'
        /\ \A i \in Slots : LabelledAt(k, i) => LabelledAt(n, i)'
    BY <2>1, <2>2, HearAhead
  <2>6. SentAt(n)'
    BY <1>1, <1>7, <2>4, <2>5 DEF SentAt
  <2>7. n \in DOMAIN toReader'
    BY <2>4 DEF LastIn
  <2>8. QED
    BY <1>4, <2>6, <2>7 DEF Valued
<1>8. CASE SentAt(1)
  <2>1. LastIn(toReader, 1, "measurements", Meter!Payload(meter, "measurements"))
    BY <1>8 DEF SentAt
  <2>2. NoneIn(toReader', "measurements")
    BY <1>1, <2>1, TailLast
  <2>3. p = Meter!Payload(meter, "measurements")
    BY <1>3, <2>1 DEF LastIn
  <2>4. p.function = "measurements" /\ p.data = ValuesOf(meter)
    BY <2>3, PayloadParts, Zenon
  <2>5. \A l \in DOMAIN toReader : ~(l < 1)
    BY <1>1
  <2>6. AllResolve(readings)
    BY <1>8, <2>5 DEF SentAt, ReadyAt, ReadyIn
  <2>7. \A i \in Slots : i \in relabelled \/ readings.phases[i] = meter.phases[i]
    BY <1>8, <2>5 DEF SentAt, LabelledAt, PhaseIn
  <2>8. /\ readings'.phases = readings.phases
        /\ \A i \in DOMAIN p.data : Meter!Resolves(readings', i) =>
             readings'.values[i] = [value |-> p.data[i].value, state |-> p.data[i].state,
                                    phases |-> readings'.phases[i]]
    <3> DEFINE l == Learnt(readings, p)
    <3>1. /\ l.phases = readings.phases
          /\ \A i \in DOMAIN p.data : Meter!Resolves(l, i) =>
               l.values[i] = [value |-> p.data[i].value, state |-> p.data[i].state,
                              phases |-> l.phases[i]]
      BY ONLY ZenonT(30), <1>1, <2>4, LearntParts, p \in MeterPayloads
    <3> HIDE DEF l
    <3>2. readings' = l
      BY <1>5 DEF l
    <3>3. QED
      BY <3>1, <3>2
  <2>9. /\ DOMAIN p.data = Meter!Listed(meter) /\ Meter!Listed(meter) \subseteq Slots
        /\ \A i \in Meter!Listed(meter) :
             p.data[i] = [value |-> meter.value[i], state |-> meter.state[i]]
    BY <2>4 DEF ValuesOf, Meter!Listed
  <2>10. \A i \in Slots : Meter!Resolves(readings', i)
    BY <1>5, <2>6 DEF AllResolve
  <2>11. ASSUME NEW i \in Meter!Listed(meter)
         PROVE  meterTold'.values[i] = [value |-> meter.value[i], state |-> meter.state[i],
                                   phases |-> readings.phases[i]]
    <3>1. readings'.values[i] = [value |-> p.data[i].value, state |-> p.data[i].state,
                                 phases |-> readings.phases[i]]
      BY <2>8, <2>9, <2>10
    <3>2. meterTold'.values[i] = readings'.values[i]
      BY <1>5, <2>4, <2>9, <2>10
    <3>3. p.data[i] = [value |-> meter.value[i], state |-> meter.state[i]]
      BY <2>9
    <3>4. p.data[i].value = meter.value[i] /\ p.data[i].state = meter.state[i]
      BY <3>3
    <3>5. QED
      BY <3>1, <3>2, <3>4
  <2>12. MeterTold'
    <3>1. ASSUME NEW i \in Meter!Listed(meter)
          PROVE  /\ meterTold'.values[i].value = meter.value[i]
                 /\ meterTold'.values[i].state = meter.state[i]
                 /\ i \in relabelled \/ meterTold'.values[i].phases = meter.phases[i]
      <4>1. meterTold'.values[i] = [value |-> meter.value[i], state |-> meter.state[i],
                               phases |-> readings.phases[i]]
        BY <2>11
      <4>2. i \in relabelled \/ readings.phases[i] = meter.phases[i]
        BY <2>7, <2>9
      <4>3. QED
        BY <4>1, <4>2
    <3>2. QED
      BY <1>1, <2>2, <3>1 DEF MeterTold
  <2>13. QED
    BY <1>4, <2>12 DEF Valued
<1>9. CASE MeterTold
  <2>1. NoneIn(toReader', "measurements") /\ p.function # "measurements"
    BY <1>1, <1>3, <1>9, TailLast DEF MeterTold
  <2>2. Meter!Listed(meter) \subseteq Slots /\ \A i \in Slots : meterTold'.values[i] = meterTold.values[i]
    BY <1>5, <2>1 DEF Meter!Listed
  <2>3. MeterTold'
    BY <1>1, <1>9, <2>1, <2>2 DEF MeterTold
  <2>4. QED
    BY <1>4, <2>3 DEF Valued
<1>10. QED
  BY <1>6, <1>7, <1>8, <1>9 DEF Valued

LEMMA MeterHearKeeps == ASSUME MeterConstants, MeterInv, Meter!Hear PROVE MeterInv'
<1>1. MeterTypes /\ FactorTold
  BY DEF MeterInv
<1>2. /\ toReader # <<>> /\ toReader \in Seq(MeterPayloads) /\ toReader' = Tail(toReader)
      /\ UNCHANGED <<toMeter, meter>>
  BY <1>1 DEF Meter!Hear, MeterTypes
<1>3. PICK p \in MeterPayloads : p = Head(toReader)
  BY <1>2
<1>4. /\ ReadingsShape(readings')
      /\ meterTold'.factor = IF Meter!FactorPercent(readings') # Meter!FactorPercent(readings)
                        THEN Meter!FactorPercent(readings') ELSE meterTold.factor
  BY <1>1, <1>3, HearLearns
<1>5. MeterTypes'
  BY <1>1, <1>2, <1>4 DEF MeterTypes
<1>6. FactorTold'
  BY <1>1, <1>4 DEF FactorTold
<1>7. /\ \A g \in {"keys", "factor"} : FreshOf(g) => FreshOf(g)'
      /\ Labelling => Labelling'
      /\ Valued => Valued'
  BY <1>1, HearFresh, HearLabels, HearValues
<1>8. \A g \in {"keys", "factor", "parameters"} : AskedFor(g) => AskedFor(g)'
  BY <1>2 DEF AskedFor
<1>9. ReadBehind("measurements") => ReadBehind("measurements")'
  BY <1>2, <1>7 DEF ReadBehind
<1>10. QED
  BY <1>5, <1>6, <1>7, <1>8, <1>9 DEF MeterInv

-----------------------------------------------------------------------------
LEMMA MNextKeeps ==
    ASSUME MeterConstants, MeterInv, [Meter!MNext]_(Meter!mvars)
    PROVE  MeterInv'
<1>1. CASE UNCHANGED Meter!mvars
  <2>1. /\ UNCHANGED <<meter, answered, toMeter, toReader, readings, meterTold, meterMissed, relabelled>>
    BY <1>1 DEF Meter!mvars
  <2>2. Labelling' = Labelling
    BY <2>1 DEF Labelling, LabelledAt, ReadyAt, BehindAll
  <2>3. \A k : SentAt(k) => SentAt(k)'
    BY <2>1 DEF SentAt, LabelledAt, ReadyAt
  <2>4. MeterTold => MeterTold'
    BY <2>1 DEF MeterTold
  <2>5. Valued => Valued'
    BY <2>1, <2>2, <2>3, <2>4 DEF Valued
  <2>6. \A g \in {"keys", "factor"} : FreshOf(g) => FreshOf(g)'
    BY <2>1 DEF FreshOf, HasOf
  <2>7. \A g : AskedFor(g) => AskedFor(g)'
    BY <2>1 DEF AskedFor
  <2>8. ReadBehind("measurements") => ReadBehind("measurements")'
    BY <2>1, <2>2 DEF ReadBehind
  <2>9. (MeterTypes => MeterTypes') /\ (FactorTold => FactorTold')
    BY <2>1 DEF MeterTypes, FactorTold
  <2>10. QED
    BY <2>2, <2>5, <2>6, <2>7, <2>8, <2>9 DEF MeterInv
<1>2. CASE Meter!MNext
  <2>1. CASE \E i \in Slots : \E v \in Values : Meter!Measure(i, v)
    BY <2>1, MeasureKeeps
  <2>2. CASE \E i \in Slots : Meter!Fail(i)
    BY <2>2, FailKeeps
  <2>3. CASE \E i \in Slots : \E p \in Phases : Meter!Relabel(i, p)
    BY <2>3, RelabelKeeps
  <2>4. CASE \E f \in Factors : Meter!Curtail(f)
    BY <2>4, CurtailKeeps
  <2>5. CASE Meter!Serve
    BY <2>5, MeterServeKeeps
  <2>6. CASE Meter!Hear
    BY <2>6, MeterHearKeeps
  <2>7. CASE \E lost \in BOOLEAN : Meter!Reattach(lost)
    BY <2>7, MeterReattachKeeps
  <2>8. QED
    BY <1>2, <2>1, <2>2, <2>3, <2>4, <2>5, <2>6, <2>7 DEF Meter!MNext
<1>3. QED
  BY <1>1, <1>2

LEMMA ReadingsSeen ==
    ASSUME MeterConstants, MeterInv
    PROVE  Meter!ReadingsAreTrue
<1> SUFFICES ASSUME toMeter = <<>>, toReader = <<>>, meterMissed = {}
             PROVE  /\ \A i \in Meter!Listed(meter) :
                         /\ meterTold.values[i].value = meter.value[i]
                         /\ meterTold.values[i].state = meter.state[i]
                         /\ i \notin relabelled => meterTold.values[i].phases = meter.phases[i]
                         /\ readings.phases[i] = meter.phases[i]
                    /\ meterTold.factor = Meter!Clamp(meter.factor)
                    /\ Meter!FactorPercent(readings) = meterTold.factor
  BY DEF Meter!ReadingsAreTrue
<1>1. DOMAIN toMeter = {} /\ DOMAIN toReader = {}
  OBVIOUS
<1>2. /\ \A g \in {"keys", "factor"} : FreshOf(g)
      /\ Labelling /\ Valued
  BY <1>1 DEF MeterInv, AskedFor, ReadBehind
<1>3. HasOf("keys") /\ HasOf("factor")
  BY <1>1, <1>2 DEF FreshOf
<1>4. readings.key /\ readings.factor = meter.factor
  BY <1>3 DEF HasOf
<1>5. meter.factor \in Int \ {Meter!None} /\ Percent[1] \in Nat /\ Percent[2] \in Nat
  <2>1. meter.factor \in PublishedFactors
    BY DEF MeterInv, MeterTypes, Meters
  <2>2. Percent[1] \in Nat /\ Percent[2] \in Nat /\ Factors \subseteq Int \ {Meter!None}
    BY DEF MeterConstants
  <2>3. Percent[2] \in Int \ {Meter!None}
    BY <2>2 DEF Meter!None
  <2>4. QED
    BY <2>1, <2>2, <2>3 DEF PublishedFactors
<1>6. Meter!FactorPercent(readings) = Meter!Clamp(meter.factor) /\ Meter!Clamp(meter.factor) # Meter!None
  BY <1>4, <1>5 DEF Meter!FactorPercent, Meter!Clamp, Meter!None
<1>7. meterTold.factor = Meter!FactorPercent(readings)
  BY <1>6 DEF MeterInv, FactorTold
<1>8. MeterTold
  BY <1>1, <1>2 DEF Valued
<1>9. \A i \in Slots : readings.phases[i] = meter.phases[i]
  BY <1>1, <1>2 DEF Labelling, LabelledAt, PhaseIn
<1>10. Meter!Listed(meter) \subseteq Slots
  BY DEF Meter!Listed
<1>11. QED
  BY <1>6, <1>7, <1>8, <1>9, <1>10 DEF MeterTold

\* The application is told what the unit measures, under the phases it is measured on, and
\* the factor by which feed-in is curtailed, when nothing is under way and nothing changed
\* between a read and the subscription behind it.
\* (Readings::describe, learn and apply, Curtailment, MonitoringApplianceActor::attach)
THEOREM ReadingsFollowed ==
    MeterConstants /\ Meter!MInit /\ [][Meter!MNext]_(Meter!mvars) => []Meter!ReadingsAreTrue
<1>1. CASE MeterConstants
  <2>1. Meter!MInit => MeterInv
    BY <1>1, MInitKeeps
  <2>2. MeterInv /\ [Meter!MNext]_(Meter!mvars) => MeterInv'
    BY <1>1, MNextKeeps
  <2>3. MeterInv => Meter!ReadingsAreTrue
    BY <1>1, ReadingsSeen
  <2>4. QED
    BY <2>1, <2>2, <2>3, PTL
<1>2. QED
  BY <1>1

=============================================================================
