------------------------- MODULE SpineEngine_proofs -------------------------
(***************************************************************************)
(* Theorems of SpineEngine, for every set of devices and features, every   *)
(* retry schedule and every value of the limits.                           *)
(***************************************************************************)
EXTENDS SpineEngine, FiniteSetTheorems, WellFoundedInduction, TLAPS

-----------------------------------------------------------------------------
(***************************************************************************)
(* One controller.  The invariant is inductive by itself: every step that  *)
(* touches bindings takes some away and adds at most one, which MayBind    *)
(* has compared with all the others.                                       *)
(***************************************************************************)
OneControllerIn(bound) ==
    \A a, b \in bound :
        a[2] \in Group /\ b[2] \in Group => SameEntity(a[1], b[1])

\* Granting a binding, or refusing it, keeps the controller of the group one
\* (Relations::add_binding).
LEMMA AddBindingKeepsOne ==
    ASSUME NEW bound, NEW c, NEW s, OneControllerIn(bound)
    PROVE  OneControllerIn(AddBinding(bound, c, s))
<1>1. CASE <<c, s>> \in bound \/ ~MayBind(bound, c, s)
  BY <1>1 DEF AddBinding
<1>2. CASE MayBind(bound, c, s) /\ <<c, s>> \notin bound
  <2>1. AddBinding(bound, c, s) = bound \cup {<<c, s>>}
    BY <1>2 DEF AddBinding
  <2>2. ASSUME NEW b \in bound, b[2] \in Group, s \in Group
        PROVE  SameEntity(b[1], c) /\ SameEntity(c, b[1])
    BY <1>2, <2>2 DEF MayBind, GroupOf, SameEntity
  <2>3. SameEntity(c, c)
    BY DEF SameEntity
  <2>4. QED
    BY <2>1, <2>2, <2>3 DEF OneControllerIn
<1>3. QED
  BY <1>1, <1>2

\* Each step leaves a part of the bindings, or one more.
LEMMA BindingsStep ==
    ASSUME Next
    PROVE  \/ bindings' \subseteq bindings
           \/ \E gone, c, s : bindings' = AddBinding(BoundBut(gone), c, s)
<1> USE DEF BoundBut
<1>1. ASSUME NEW d \in Devices, NEW n \in Counters, NEW c \in Clients,
             NEW s \in Servers \cup {NodeManagement}, BindingCalled(d, n, c, s)
      PROVE  \/ bindings' \subseteq bindings
             \/ \E gone, x, y : bindings' = AddBinding(BoundBut(gone), x, y)
  BY <1>1 DEF BindingCalled
<1>2. CASE \E d \in Devices, n \in Counters :
             \/ ReadArrives(d, n)
             \/ \E c \in Clients, s \in Servers \cup {NodeManagement} :
                  \/ BindingReleased(d, n, c, s)
                  \/ SubscriptionCalled(d, n, c, s) \/ SubscriptionReleased(d, n, c, s)
             \/ \E r \in References, b \in BOOLEAN :
                  DataArrives(d, n, r, b) \/ ResultArrives(d, n, r, b)
  BY <1>2 DEF ReadArrives, BindingReleased, SubscriptionCalled,
       SubscriptionReleased, DataArrives, ResultArrives, NoBinding
<1>3. CASE \E c \in Clients, n \in Counters, s \in Servers, b \in BOOLEAN :
             WriteArrives(c, n, s, b)
  BY <1>3 DEF WriteArrives, NoBinding
<1>4. CASE \E kind \in RequestKinds, d \in Devices \cup {NoDevice} : Request(kind, d)
  BY <1>4 DEF Request
<1>5. CASE \E w \in deferred : Reject(w) \/ \E b \in BOOLEAN : Accept(w, b)
  BY <1>5 DEF Reject, Accept
<1>6. CASE \E d \in Devices : RemovePeer(d)
  BY <1>6 DEF RemovePeer
<1>7. CASE RemoveEntity \/ AddEntity \/ HandleTimeout \/ Tick
  BY <1>7 DEF RemoveEntity, AddEntity, HandleTimeout, Tick, tables
<1>8. QED
  BY <1>1, <1>2, <1>3, <1>4, <1>5, <1>6, <1>7 DEF Next

\* Whoever asks for which feature of a use case in which order, all bindings on
\* the group are of one client entity (bind_together, add_binding).
THEOREM OneControllerOnly == Spec => []OneController
<1>1. Init => OneController
  BY DEF Init, OneController
<1>2. ASSUME OneController, [Next]_vars PROVE OneController'
  <2>1. CASE UNCHANGED vars
    BY <1>2, <2>1 DEF OneController, vars, tables
  <2>2. CASE Next
    <3>1. OneControllerIn(bindings)
      BY <1>2 DEF OneController, OneControllerIn
    <3>2. OneControllerIn(bindings')
      <4>1. CASE bindings' \subseteq bindings
        BY <3>1, <4>1 DEF OneControllerIn
      <4>2. ASSUME NEW gone, NEW c, NEW s,
                   bindings' = AddBinding(BoundBut(gone), c, s)
            PROVE  OneControllerIn(bindings')
        <5>1. OneControllerIn(BoundBut(gone))
          BY <3>1 DEF OneControllerIn, BoundBut
        <5>2. QED
          BY <4>2, <5>1, AddBindingKeepsOne
      <4>3. QED
        BY <2>2, <4>1, <4>2, BindingsStep
    <3>3. QED
      BY <3>2 DEF OneController, OneControllerIn
  <2>3. QED
    BY <1>2, <2>1, <2>2
<1>3. QED
  BY <1>1, <1>2, PTL DEF Spec

-----------------------------------------------------------------------------
(***************************************************************************)
(* Duplicates.  The property alone is not inductive: a window that moves   *)
(* on has to be known to have held every counter processed so far, not     *)
(* only to refuse them.                                                    *)
(***************************************************************************)
\* A tracker remembers the counters p: none is ahead of last, and each one that
\* is behind it and less than the window away is in seen.
Remembers(t, p) ==
    /\ t.last = None => p = {}
    /\ \A n \in p : n <= t.last /\ (n < t.last /\ t.last - n < WINDOW => t.last - n \in t.seen)

Tracker == [last : Nat, seen : SUBSET Nat]

AllRemember ==
    /\ tracker \in [Devices -> Tracker]
    /\ processed \in [Devices -> SUBSET (Nat \ {0})]
    /\ \A d \in Devices : Remembers(tracker[d], processed[d])

\* Observing an acceptable counter keeps the memory of what was processed since
\* the record or the peer's restart (MsgCounterTracker::observe).
LEMMA ObserveRemembers ==
    ASSUME NEW t \in Tracker, NEW p \in SUBSET (Nat \ {0}), NEW n \in Nat \ {0},
           Remembers(t, p), Acceptable(t, n)
    PROVE  /\ Observe(t, n) \in Tracker
           /\ Restarts(t, n) => Remembers(Observe(t, n), {n})
           /\ ~Restarts(t, n) => Remembers(Observe(t, n), p \cup {n})
<1> USE LimitsAssumption
<1>0. t.last \in Nat /\ t.seen \subseteq Nat /\ WINDOW \in Nat
      /\ RESTART_THRESHOLD \in Nat
  BY DEF Tracker
<1>1. CASE t.last = None \/ Restarts(t, n)
  <2>1. Observe(t, n) = [last |-> n, seen |-> {}]
    BY <1>1 DEF Observe
  <2>2. ~Restarts(t, n) => p = {}
    BY <1>1 DEF Remembers
  <2>3. QED
    BY <2>1, <2>2 DEF Remembers, Tracker, None
<1>2. CASE t.last # None /\ ~Restarts(t, n) /\ n > t.last
  <2> DEFINE ahead == n - t.last
  <2>1. Observe(t, n) = [last |-> n, seen |-> Shifted(t.seen, ahead)]
    BY <1>2 DEF Observe
  <2>2. ahead \in Nat /\ ahead > 0
    BY <1>0, <1>2
  <2>3. Shifted(t.seen, ahead) \subseteq Nat
    BY <1>0, <2>2 DEF Shifted
  <2>4. ASSUME NEW m \in p, n - m < WINDOW
        PROVE  m < n /\ n - m \in Shifted(t.seen, ahead)
    <3>1. m <= t.last /\ m \in Nat
      BY <2>4 DEF Remembers
    <3>2. ahead < WINDOW
      BY <1>0, <2>4, <3>1
    <3>3. CASE m = t.last
      BY <1>0, <1>2, <3>2, <3>3 DEF Shifted
    <3>4. CASE m < t.last
      <4>1. t.last - m \in t.seen
        BY <1>0, <1>2, <2>4, <3>1, <3>4 DEF Remembers
      <4>2. (t.last - m) + ahead = n - m
        BY <1>0, <3>1
      <4>3. QED
        BY <1>0, <1>2, <2>4, <3>1, <3>2, <4>1, <4>2 DEF Shifted
    <3>5. QED
      BY <1>0, <1>2, <3>1, <3>3, <3>4
  <2>5. \A m \in p : m <= n
    BY <1>0, <1>2 DEF Remembers
  <2>6. QED
    <3> HIDE DEF ahead
    <3>1. Observe(t, n).last = n /\ Observe(t, n).seen = Shifted(t.seen, ahead)
      BY <2>1
    <3>2. Observe(t, n) \in Tracker
      BY <2>1, <2>3 DEF Tracker
    <3>3. Remembers(Observe(t, n), p \cup {n})
      BY <2>4, <2>5, <3>1 DEF Remembers, None
    <3>4. QED
      BY <1>2, <3>2, <3>3
<1>3. CASE t.last # None /\ ~Restarts(t, n) /\ ~(n > t.last)
  <2>1. Observe(t, n) = [t EXCEPT !.seen = @ \cup {t.last - n}]
    BY <1>3 DEF Observe
  <2>2. t.last - n \in Nat
    BY <1>0, <1>3
  <2>3. Observe(t, n) \in Tracker /\ Observe(t, n).last = t.last
        /\ Observe(t, n).seen = t.seen \cup {t.last - n}
    BY <2>1, <2>2 DEF Tracker
  <2>4. QED
    BY <1>0, <1>3, <2>3 DEF Remembers
<1>4. QED
  BY <1>1, <1>2, <1>3

\* Every datagram that is processed passes Admit.
LEMMA AdmitRemembers ==
    ASSUME AllRemember, NEW d \in Devices, NEW n \in Counters, Admit(d, n)
    PROVE  AllRemember'
<1> DEFINE p == Forgetting(processed, Evicted(d), {})[d]
<1>1. n \in Nat \ {0}
  BY EngineAssumption
<1>2. p \subseteq processed[d] /\ p \in SUBSET (Nat \ {0})
  BY DEF AllRemember, Forgetting
<1>3. Remembers(tracker[d], p) /\ tracker[d] \in Tracker
  BY <1>2 DEF AllRemember, Remembers
<1>4. NewTracker \in Tracker /\ Remembers(NewTracker, {})
  BY DEF NewTracker, Tracker, Remembers, None
<1>5. /\ Observe(tracker[d], n) \in Tracker
      /\ Restarts(tracker[d], n) => Remembers(Observe(tracker[d], n), {n})
      /\ ~Restarts(tracker[d], n) => Remembers(Observe(tracker[d], n), p \cup {n})
  BY <1>1, <1>2, <1>3, ObserveRemembers DEF Admit
<1>6. /\ tracker' = [e \in Devices |-> IF e = d THEN Observe(tracker[d], n)
                       ELSE IF e \in Evicted(d) THEN NewTracker ELSE tracker[e]]
      /\ processed' = [e \in Devices |->
                         IF e = d THEN (IF Restarts(tracker[d], n) THEN {n} ELSE p \cup {n})
                         ELSE IF e \in Evicted(d) THEN {} ELSE processed[e]]
  BY DEF Admit, Forgetting
<1>7. QED
  <2> HIDE DEF p
  <2>1. tracker' \in [Devices -> Tracker]
    BY <1>4, <1>5, <1>6 DEF AllRemember
  <2>2. processed' \in [Devices -> SUBSET (Nat \ {0})]
    BY <1>1, <1>2, <1>6 DEF AllRemember
  <2>3. ASSUME NEW e \in Devices PROVE Remembers(tracker'[e], processed'[e])
    BY <1>4, <1>5, <1>6 DEF AllRemember
  <2>4. QED
    BY <2>1, <2>2, <2>3 DEF AllRemember, Remembers

\* A disconnection ends the record and the memory with it (remove_peer).
LEMMA RemovePeerRemembers ==
    ASSUME AllRemember, NEW d \in Devices, RemovePeer(d)
    PROVE  AllRemember'
<1>1. NewTracker \in Tracker /\ Remembers(NewTracker, {})
  BY DEF NewTracker, Tracker, Remembers, None
<1>2. /\ tracker' = [e \in Devices |-> IF e \in {d} THEN NewTracker ELSE tracker[e]]
      /\ processed' = [e \in Devices |-> IF e \in {d} THEN {} ELSE processed[e]]
  BY DEF RemovePeer, Forgetting
<1>3. \A e \in Devices : Remembers(tracker'[e], processed'[e])
  BY <1>1, <1>2 DEF AllRemember
<1>4. QED
  BY <1>1, <1>2, <1>3 DEF AllRemember, Remembers

\* Each step is a datagram that Admit lets pass, a disconnection, or leaves the
\* trackers alone.
LEMMA TrackersStep ==
    ASSUME Next
    PROVE  \/ \E d \in Devices, n \in Counters : Admit(d, n)
           \/ \E d \in Devices : RemovePeer(d)
           \/ UNCHANGED <<tracker, processed>>
<1>1. CASE \E d \in Devices, n \in Counters :
             \/ ReadArrives(d, n)
             \/ \E c \in Clients, s \in Servers \cup {NodeManagement} :
                  \/ BindingCalled(d, n, c, s) \/ BindingReleased(d, n, c, s)
                  \/ SubscriptionCalled(d, n, c, s) \/ SubscriptionReleased(d, n, c, s)
             \/ \E r \in References, b \in BOOLEAN :
                  DataArrives(d, n, r, b) \/ ResultArrives(d, n, r, b)
  BY <1>1 DEF ReadArrives, BindingCalled, BindingReleased, SubscriptionCalled,
       SubscriptionReleased, DataArrives, ResultArrives
<1>2. CASE \E c \in Clients, n \in Counters, s \in Servers, b \in BOOLEAN :
             WriteArrives(c, n, s, b)
  BY <1>2, EngineAssumption DEF WriteArrives
<1>3. CASE \E kind \in RequestKinds, d \in Devices \cup {NoDevice} : Request(kind, d)
  BY <1>3 DEF Request
<1>4. CASE \E w \in deferred : Reject(w) \/ \E b \in BOOLEAN : Accept(w, b)
  BY <1>4 DEF Reject, Accept
<1>5. CASE RemoveEntity \/ AddEntity \/ HandleTimeout \/ Tick
  BY <1>5 DEF RemoveEntity, AddEntity, HandleTimeout, Tick, tables
<1>6. QED
  BY <1>1, <1>2, <1>3, <1>4, <1>5 DEF Next

\* In whatever order datagrams arrive, no counter that was processed and is less
\* than the window behind the newest one is processed again
\* (MsgCounterTracker::observe, handle_datagram).
THEOREM NoDuplicateIsProcessed == Spec => []DuplicatesAreRefused
<1>1. Init => AllRemember
  BY DEF Init, AllRemember, NewTracker, Tracker, Remembers, None
<1>2. ASSUME AllRemember, [Next]_vars PROVE AllRemember'
  <2>1. ASSUME UNCHANGED <<tracker, processed>> PROVE AllRemember'
    BY <1>2, <2>1 DEF AllRemember, Remembers
  <2>2. CASE UNCHANGED vars
    BY <2>1, <2>2 DEF vars, tables
  <2>3. CASE Next
    BY <1>2, <2>1, <2>3, TrackersStep, AdmitRemembers, RemovePeerRemembers
  <2>4. QED
    BY <1>2, <2>2, <2>3
<1>3. AllRemember => DuplicatesAreRefused
  <2> SUFFICES ASSUME AllRemember, NEW d \in Devices, NEW n \in processed[d],
                      tracker[d].last - n < WINDOW
               PROVE  ~Acceptable(tracker[d], n)
    BY DEF DuplicatesAreRefused
  <2>1. /\ tracker[d].last \in Nat /\ n \in Nat \ {0} /\ n <= tracker[d].last
        /\ tracker[d].last # None
        /\ n < tracker[d].last => tracker[d].last - n \in tracker[d].seen
    BY DEF AllRemember, Remembers, Tracker
  <2>2. QED
    BY <2>1, LimitsAssumption DEF Acceptable, Restarts
<1>4. QED
  BY <1>1, <1>2, <1>3, PTL DEF Spec

-----------------------------------------------------------------------------
(***************************************************************************)
(* Peer records.  A full table gives up one record, which is not the one   *)
(* of the device that made it do so; every other device keeps its own.     *)
(***************************************************************************)
\* A set of naturals has a least element.
LEMMA LeastExists ==
    ASSUME NEW S \in SUBSET Nat, S # {}
    PROVE  \E i \in S : \A j \in S : i <= j
<1>1. PICK i \in S : \A j \in S : ~(<<j, i>> \in OpToRel(<, Nat))
  BY NatLessThanWellFounded, WFMin
<1>2. \A j \in S : ~(j < i)
  BY <1>1 DEF OpToRel
<1>3. QED
  BY <1>2

\* The record that goes is one of the table (peer_entry).
LEMMA VictimIsRecorded ==
    ASSUME peers \in Seq(Devices), Len(peers) >= MAX_PEERS
    PROVE  Victim \in 1 .. Len(peers)
<1> DEFINE unknown == {i \in 1 .. Len(peers) : peers[i] \notin discovered}
<1>1. Len(peers) \in Nat /\ Len(peers) >= 1
  BY LimitsAssumption
<1>2. CASE unknown = {}
  BY <1>1, <1>2 DEF Victim
<1>3. CASE unknown # {}
  <2>1. \E i \in unknown : \A j \in unknown : i <= j
    <3>1. unknown \in SUBSET Nat
      BY <1>1
    <3> HIDE DEF unknown
    <3>2. QED
      BY <1>3, <3>1, LeastExists
  <2>2. Victim = CHOOSE i \in unknown : \A j \in unknown : i <= j
    BY <1>3 DEF Victim
  <2>3. QED
    BY <2>1, <2>2
<1>4. QED
  BY <1>2, <1>3

\* Taking one record out leaves a table with all the others.
LEMMA WithoutKeeps ==
    ASSUME NEW S, NEW q \in Seq(S), NEW i \in 1 .. Len(q)
    PROVE  /\ Without(q, i) \in Seq(S) /\ Len(Without(q, i)) = Len(q) - 1
           /\ \A j \in 1 .. Len(q) : j # i =>
                \E k \in 1 .. Len(q) - 1 : Without(q, i)[k] = q[j]
<1>1. Len(q) \in Nat /\ Len(q) - 1 \in Nat
  OBVIOUS
<1>2. Without(q, i) = [j \in 1 .. Len(q) - 1 |-> IF j < i THEN q[j] ELSE q[j + 1]]
  BY DEF Without
<1>3. Without(q, i) \in [1 .. Len(q) - 1 -> S]
  BY <1>1, <1>2
<1>4. Without(q, i) \in Seq(S) /\ Len(Without(q, i)) = Len(q) - 1
  BY <1>1, <1>3
<1>5. ASSUME NEW j \in 1 .. Len(q), j # i
      PROVE  \E k \in 1 .. Len(q) - 1 : Without(q, i)[k] = q[j]
  <2>1. CASE j < i
    <3>1. j \in 1 .. Len(q) - 1
      BY <1>1, <2>1
    <3>2. Without(q, i)[j] = q[j]
      BY <1>2, <2>1, <3>1
    <3>3. QED
      BY <3>1, <3>2
  <2>2. CASE j > i
    <3>1. j - 1 \in 1 .. Len(q) - 1 /\ ~(j - 1 < i) /\ (j - 1) + 1 = j
      BY <1>1, <2>2
    <3>2. Without(q, i)[j - 1] = q[j]
      BY <1>2, <3>1
    <3>3. QED
      BY <3>1, <3>2
  <2>3. QED
    BY <1>5, <2>1, <2>2
<1>6. QED
  BY <1>4, <1>5

PeersOK == peers \in Seq(Devices) /\ Len(peers) <= MAX_PEERS

\* After peer_entry(d) the table is within its limit, has a record of d, and has
\* kept all but the evicted one.
LEMMA EnteredKeeps ==
    ASSUME PeersOK, NEW d \in Devices, peers' = Entered(d)
    PROVE  /\ PeersOK'
           /\ d \in Recorded' /\ Recorded \ Evicted(d) \subseteq Recorded'
           /\ d \notin Evicted(d) /\ Evicted(d) \subseteq Devices
<1> USE LimitsAssumption DEF PeersOK
<1>0. Len(peers) \in Nat
  OBVIOUS
<1>1. CASE d \in Recorded
  BY <1>1 DEF Entered, Evicted, Recorded
<1>2. CASE d \notin Recorded /\ Len(peers) < MAX_PEERS
  <2>1. peers' = Append(peers, d) /\ Evicted(d) = {}
    BY <1>2 DEF Entered, Evicted
  <2>2. Len(peers') = Len(peers) + 1 /\ peers'[Len(peers) + 1] = d
        /\ \A i \in 1 .. Len(peers) : peers'[i] = peers[i]
    BY <2>1
  <2>3. QED
    BY <1>0, <1>2, <2>1, <2>2 DEF Recorded
<1>3. CASE d \notin Recorded /\ ~(Len(peers) < MAX_PEERS)
  <2> DEFINE kept == Without(peers, Victim)
  <2>1. peers' = Append(kept, d) /\ Evicted(d) = {peers[Victim]}
    BY <1>3 DEF Entered, Evicted
  <2>2. Victim \in 1 .. Len(peers)
    BY <1>0, <1>3, VictimIsRecorded
  <2>3. /\ kept \in Seq(Devices) /\ Len(kept) = Len(peers) - 1
        /\ \A j \in 1 .. Len(peers) : j # Victim =>
             \E k \in 1 .. Len(peers) - 1 : kept[k] = peers[j]
    BY <2>2, WithoutKeeps
  <2>4. peers[Victim] \in Recorded /\ peers[Victim] \in Devices
    BY <2>2 DEF Recorded
  <2> HIDE DEF kept
  <2>5. Len(peers') = Len(peers) /\ peers'[Len(peers)] = d /\ peers' \in Seq(Devices)
        /\ \A k \in 1 .. Len(peers) - 1 : peers'[k] = kept[k]
    BY <1>0, <2>1, <2>3
  <2>6. Recorded \ Evicted(d) \subseteq Recorded'
    <3> SUFFICES ASSUME NEW j \in 1 .. Len(peers), peers[j] # peers[Victim]
                 PROVE  peers[j] \in Recorded'
      BY <2>1 DEF Recorded
    <3>1. PICK k \in 1 .. Len(peers) - 1 : kept[k] = peers[j]
      BY <2>3
    <3>2. QED
      BY <1>0, <2>5, <3>1 DEF Recorded
  <2>7. Len(peers) \in 1 .. Len(peers')
    BY <1>0, <2>2, <2>5
  <2>8. QED
    BY <1>0, <1>3, <2>1, <2>4, <2>5, <2>6, <2>7 DEF Recorded
<1>4. QED
  BY <1>1, <1>2, <1>3

\* remove_peer takes one record and leaves the others.
LEMMA RemovePeerKeeps ==
    ASSUME PeersOK, NEW d \in Devices, RemovePeer(d)
    PROVE  PeersOK' /\ Recorded \ {d} \subseteq Recorded'
<1> USE LimitsAssumption DEF PeersOK
<1>0. Len(peers) \in Nat
  OBVIOUS
<1>1. CASE d \notin Recorded
  BY <1>1 DEF RemovePeer, Recorded
<1>2. CASE d \in Recorded
  <2> DEFINE i == CHOOSE j \in 1 .. Len(peers) : peers[j] = d
  <2>1. i \in 1 .. Len(peers) /\ peers[i] = d
    BY <1>2 DEF Recorded
  <2>2. peers' = Without(peers, i)
    BY <1>2 DEF RemovePeer
  <2> HIDE DEF i
  <2>3. /\ peers' \in Seq(Devices) /\ Len(peers') = Len(peers) - 1
        /\ \A j \in 1 .. Len(peers) : j # i =>
             \E k \in 1 .. Len(peers) - 1 : peers'[k] = peers[j]
    BY <2>1, <2>2, WithoutKeeps
  <2>4. PeersOK'
    BY <1>0, <2>3
  <2>5. ASSUME NEW j \in 1 .. Len(peers), peers[j] # d PROVE peers[j] \in Recorded'
    <3>1. PICK k \in 1 .. Len(peers) - 1 : peers'[k] = peers[j]
      BY <2>1, <2>3, <2>5
    <3>2. QED
      BY <1>0, <2>3, <3>1 DEF Recorded
  <2>6. QED
    BY <2>4, <2>5 DEF Recorded
<1>3. QED
  BY <1>1, <1>2

-----------------------------------------------------------------------------
(***************************************************************************)
(* Requests.  The ledger is implemented because names are unique among the *)
(* pending requests, are below the next counter, and are disjoint from the *)
(* names of what has ended; and because the request an answer belongs to   *)
(* is never one that the same datagram's eviction takes.                   *)
(***************************************************************************)
RequestOK(r, c) ==
    /\ r \in Pending /\ r.request < c
    /\ r.dest = NoDevice => r.kind = "read"
    /\ r.awaiting = "Retry" => r.retries < Len(RETRY_SCHEDULE)

UniqueNames(rs) == \A r, q \in rs : r.request = q.request => r = q

RequestsInv ==
    /\ PeersOK
    /\ counter \in Nat \ {0}
    /\ IsFiniteSet(pending)
    /\ \A r \in pending : RequestOK(r, counter)
    /\ UniqueNames(pending)
    /\ answered \cup timedOut \cup forgotten \subseteq 1 .. counter - 1
    /\ Names(pending) \cap (answered \cup timedOut \cup forgotten) = {}

\* The image of a finite set under a function is finite and no larger.
LEMMA ImageIsFinite ==
    ASSUME NEW S, IsFiniteSet(S), NEW f, DOMAIN f = S, f = [x \in S |-> f[x]],
           NEW T, T = {f[x] : x \in S}
    PROVE  IsFiniteSet(T) /\ Cardinality(T) <= Cardinality(S)
<1>1. f \in Surjection(S, T)
  BY DEF Surjection
<1>2. QED
  BY <1>1, FS_Surjection

\* Retried, under the counter n.
RetriedUnder(r, n) ==
    [r EXCEPT !.retries = @ + 1, !.transmissions = @ \cup {n},
              !.awaiting = "Answer", !.deadline = ResponseDelay]

\* A retry is the same request: what it asks of whom does not change.
LEMMA RetriedKeeps ==
    ASSUME NEW r \in Pending, NEW n \in Nat \ {0}, r.retries < Len(RETRY_SCHEDULE)
    PROVE  /\ RetriedUnder(r, n) \in Pending
           /\ RetriedUnder(r, n).request = r.request
           /\ RetriedUnder(r, n).dest = r.dest
           /\ RetriedUnder(r, n).kind = r.kind
           /\ RetriedUnder(r, n).awaiting = "Answer"
<1> DEFINE q == RetriedUnder(r, n)
<1>0. Len(RETRY_SCHEDULE) \in Nat /\ ResponseDelay \in Nat
  BY EngineAssumption, LimitsAssumption
<1>1. r.retries \in 0 .. Len(RETRY_SCHEDULE) /\ r.transmissions \in SUBSET (Nat \ {0})
  BY DEF Pending
<1> DEFINE k == r.retries + 1
           ts == r.transmissions \cup {n}
           a == [r EXCEPT !.retries = k, !.transmissions = ts]
<1>2. k \in 0 .. Len(RETRY_SCHEDULE) /\ ts \in SUBSET (Nat \ {0})
  BY <1>0, <1>1
<1>3. q = [a EXCEPT !.awaiting = "Answer", !.deadline = ResponseDelay]
  BY DEF RetriedUnder
<1>4. /\ a \in Pending /\ a.request = r.request /\ a.dest = r.dest
      /\ a.kind = r.kind
  <2> HIDE DEF k, ts
  <2>1. QED
    BY <1>2 DEF Pending
<1> HIDE DEF a, q
<1>5. /\ q \in Pending /\ q.request = a.request /\ q.dest = a.dest
      /\ q.kind = a.kind /\ q.awaiting = "Answer"
  BY <1>0, <1>3, <1>4 DEF Pending
<1>6. QED
  BY <1>4, <1>5 DEF q

\* What handle_timeout makes of a request that it keeps.
LEMMA ServedKeeps ==
    ASSUME RequestsInv, NEW r \in pending \ Abandoned
    PROVE  /\ Served(r).request = r.request
           /\ RequestOK(Served(r), counter)
<1>0. /\ Len(RETRY_SCHEDULE) \in Nat
      /\ \A i \in 1 .. Len(RETRY_SCHEDULE) : RETRY_SCHEDULE[i] \in Nat
  BY EngineAssumption
<1>1. /\ RequestOK(r, counter) /\ r \in Pending /\ counter \in Nat \ {0}
      /\ r.retries \in 0 .. Len(RETRY_SCHEDULE) /\ r.awaiting \in {"Answer", "Retry"}
  BY DEF RequestsInv, RequestOK, Pending
<1>2. CASE r \notin Due
  BY <1>1, <1>2 DEF Served
<1>3. CASE r \in Retrying
  <2> DEFINE before == {q \in Retrying : q.request < r.request}
  <2>1. before \in SUBSET pending
    BY DEF Retrying, Due
  <2>2. Cardinality(before) \in Nat
    BY <2>1, FS_Subset, FS_CardinalityType DEF RequestsInv
  <2> DEFINE n == counter + Cardinality(before)
  <2>3. n \in Nat \ {0}
    BY <1>1, <2>2
  <2>4. r.retries < Len(RETRY_SCHEDULE) /\ r \in Due
    BY <1>1, <1>3 DEF RequestOK, Retrying
  <2>5. Served(r) = RetriedUnder(r, n)
    BY <1>3, <2>4 DEF Served, Retried, RetriedUnder
  <2> HIDE DEF n
  <2>6. /\ Served(r) \in Pending /\ Served(r).request = r.request
        /\ Served(r).dest = r.dest /\ Served(r).kind = r.kind
        /\ Served(r).awaiting = "Answer"
    BY <1>1, <2>3, <2>4, <2>5, RetriedKeeps
  <2>7. QED
    BY <1>1, <2>6 DEF RequestOK
<1>4. CASE r \in Due /\ r \notin Retrying
  <2>1. r.retries + 1 \in 1 .. Len(RETRY_SCHEDULE) /\ r.awaiting = "Answer"
    BY <1>0, <1>1, <1>4 DEF Retrying, Abandoned
  <2> DEFINE delay == RETRY_SCHEDULE[r.retries + 1]
  <2>2. delay \in Nat
    BY <1>0, <2>1
  <2>3. Served(r) = [r EXCEPT !.awaiting = "Retry", !.deadline = delay]
    BY <1>4 DEF Served, Delayed
  <2> HIDE DEF delay
  <2>4. /\ Served(r) \in Pending /\ Served(r).request = r.request
        /\ Served(r).dest = r.dest /\ Served(r).kind = r.kind
        /\ Served(r).retries = r.retries
    BY <1>1, <2>2, <2>3 DEF Pending
  <2>5. QED
    BY <1>0, <1>1, <2>1, <2>4 DEF RequestOK
<1>5. QED
  BY <1>2, <1>3, <1>4 DEF Retrying

\* A step that ends the requests in a, t and f, each in its own way, and issues
\* requests under names n that nobody has seen.
LedgerStep(a, t, f, n) ==
    /\ a \subseteq pending /\ t \subseteq pending /\ f \subseteq pending
    /\ a \cap t = {} /\ a \cap f = {} /\ t \cap f = {}
    /\ n \subseteq counter .. counter' - 1
    /\ counter' \in Nat /\ counter <= counter'
    /\ Names(pending') = Names(pending \ (a \cup t \cup f)) \cup n
    /\ answered' = answered \cup Names(a)
    /\ timedOut' = timedOut \cup Names(t)
    /\ forgotten' = forgotten \cup Names(f)

LEMMA IntervalsGrow ==
    \A j, k \in Nat : j <= k => \A x \in 1 .. j - 1 : x \in 1 .. k - 1
OBVIOUS

\* Such a step is one of the ledger, and keeps what has ended apart from what is
\* pending.
LEMMA LedgerStepIsSound ==
    ASSUME RequestsInv, NEW a, NEW t, NEW f, NEW n, LedgerStep(a, t, f, n)
    PROVE  /\ Ledger!Next
           /\ (answered \cup timedOut \cup forgotten \subseteq 1 .. counter - 1)'
           /\ (Names(pending) \cap (answered \cup timedOut \cup forgotten) = {})'
<1> DEFINE Ended == answered \cup timedOut \cup forgotten
           Going == a \cup t \cup f
<1>0. /\ counter \in Nat /\ counter # 0 /\ counter' \in Nat /\ counter <= counter'
      /\ \A x \in n : x \in counter .. counter' - 1
  BY DEF RequestsInv, LedgerStep
<1>1. /\ counter \in Nat \ {0} /\ counter' \in Nat /\ counter <= counter'
      /\ Ended \subseteq 1 .. counter - 1 /\ Names(pending) \cap Ended = {}
      /\ Going \subseteq pending
      /\ n \subseteq counter .. counter' - 1
  BY DEF RequestsInv, LedgerStep
<1>2. \A r \in pending : r.request \in 1 .. counter - 1
  BY DEF RequestsInv, RequestOK, Pending
<1>3. Names(pending) \subseteq 1 .. counter - 1
  BY <1>2 DEF Names
<1>4. \A x, y \in SUBSET pending : x \cap y = {} => Names(x) \cap Names(y) = {}
  BY DEF RequestsInv, UniqueNames, Names
<1>5. /\ Names(Going) = Names(a) \cup Names(t) \cup Names(f)
      /\ Names(pending) = Names(pending \ Going) \cup Names(Going)
      /\ Names(pending \ Going) \cap Names(Going) = {}
      /\ Names(a) \cap Names(t) = {} /\ Names(a) \cap Names(f) = {}
      /\ Names(t) \cap Names(f) = {}
  <2>1. Names(Going) = Names(a) \cup Names(t) \cup Names(f)
    BY DEF Names
  <2>2. Names(pending) = Names(pending \ Going) \cup Names(Going)
    BY <1>1 DEF Names
  <2>3. Names(pending \ Going) \cap Names(Going) = {}
    BY <1>1, <1>4
  <2>4. QED
    BY <1>4, <2>1, <2>2, <2>3 DEF LedgerStep
<1>6. n \cap (Names(pending) \cup Ended) = {}
  <2>1. \A x \in n : x \in Nat /\ x >= counter
    BY <1>0
  <2>2. \A x \in 1 .. counter - 1 : x \in Nat /\ ~(x >= counter)
    BY <1>1
  <2> HIDE DEF Ended
  <2>3. QED
    BY <1>1, <1>3, <2>1, <2>2
<1>7. /\ Names(pending)' = Names(pending \ Going) \cup n
      /\ answered' = answered \cup Names(a)
      /\ timedOut' = timedOut \cup Names(t)
      /\ forgotten' = forgotten \cup Names(f)
  BY DEF LedgerStep, Names
<1> HIDE DEF Going
<1>8. Ledger!Next
  <2>1. answered' \ answered = Names(a) /\ timedOut' \ timedOut = Names(t)
        /\ forgotten' \ forgotten = Names(f)
    BY <1>1, <1>5, <1>7
  <2>2. Names(pending)' \ Names(pending) = n
    BY <1>5, <1>6, <1>7
  <2>3. Names(pending) \ Names(pending)' = Names(Going)
    BY <1>5, <1>6, <1>7
  <2>4. n \subseteq (Nat \ {0}) \ (Names(pending) \cup Ended)
    <3>1. \A x \in n : x \in Nat \ {0}
      BY <1>0
    <3>2. QED
      BY <1>6, <3>1
  <2> HIDE DEF Names
  <2>5. QED
    BY <1>5, <1>7, <2>1, <2>2, <2>3, <2>4 DEF Ledger!Next, Ledger!Used
<1>9. Ended' \subseteq 1 .. counter' - 1
  <2>1. Ended' \subseteq Ended \cup Names(pending)
    BY <1>5, <1>7
  <2>2. \A x \in 1 .. counter - 1 : x \in 1 .. counter' - 1
    BY <1>0, IntervalsGrow
  <2>3. Ended \subseteq 1 .. counter - 1
    BY <1>1
  <2> HIDE DEF Ended
  <2>4. QED
    BY <1>3, <2>1, <2>2, <2>3
<1>10. Names(pending)' \cap Ended' = {}
  BY <1>1, <1>5, <1>6, <1>7
<1>11. QED
  BY <1>8, <1>9, <1>10

\* What every step is shown to do.
RequestsStep ==
    /\ \E a, t, f, n : LedgerStep(a, t, f, n)
    /\ PeersOK'
    /\ IsFiniteSet(pending')
    /\ \A r \in pending' : RequestOK(r, counter')
    /\ UniqueNames(pending')

\* A datagram may end one request with its answer, and the requests of the peer
\* that loses its record.
LEMMA DatagramRequests ==
    ASSUME RequestsInv, NEW d \in Devices, NEW n \in Counters, Admit(d, n),
           NEW a, a = {} \/ \E k \in References : a = Resolved(d, k),
           pending' = Staying(Evicted(d)) \ a,
           answered' = answered \cup Names(a),
           forgotten' = forgotten \cup Names(pending \ Staying(Evicted(d))),
           timedOut' = timedOut
    PROVE  RequestsStep
<1> DEFINE f == pending \ Staying(Evicted(d))
<1>0. PeersOK /\ counter \in Nat \ {0} /\ counter' = counter /\ peers' = Entered(d)
  BY DEF RequestsInv, Admit
<1>1. PeersOK' /\ d \notin Evicted(d) /\ Evicted(d) \subseteq Devices
  BY <1>0, EnteredKeeps
<1>2. a \subseteq pending /\ \A r \in a : r.dest \in {d, NoDevice}
  BY DEF Resolved
<1>3. \A r \in f : r \in pending /\ r.dest \in Evicted(d)
  BY DEF Staying
<1>4. a \cap f = {}
  BY <1>1, <1>2, <1>3, EngineAssumption
<1>5. pending' = pending \ (a \cup {} \cup f) /\ pending' \subseteq pending
  BY DEF Staying
<1>6. LedgerStep(a, {}, f, {})
  <2>1. Names({}) = {}
    BY DEF Names
  <2> HIDE DEF f
  <2>2. Names(pending') = Names(pending \ (a \cup {} \cup f)) \cup {}
    BY <1>5
  <2>3. f \subseteq pending /\ forgotten' = forgotten \cup Names(f)
    BY DEF f
  <2>4. QED
    BY <1>0, <1>2, <1>4, <2>1, <2>2, <2>3 DEF LedgerStep
<1>7. IsFiniteSet(pending')
  BY <1>5, FS_Subset DEF RequestsInv
<1>8. QED
  BY <1>0, <1>1, <1>5, <1>6, <1>7 DEF RequestsStep, RequestsInv, UniqueNames

\* remove_peer forgets the requests to the peer.
LEMMA RemovePeerRequests ==
    ASSUME RequestsInv, NEW d \in Devices, RemovePeer(d)
    PROVE  RequestsStep
<1> DEFINE f == pending \ Staying({d})
<1>1. PeersOK' /\ counter' = counter /\ counter \in Nat \ {0}
  BY RemovePeerKeeps DEF RequestsInv, RemovePeer
<1>2. pending' = pending \ ({} \cup {} \cup f) /\ pending' \subseteq pending
  BY DEF RemovePeer, Staying
<1>3. LedgerStep({}, {}, f, {})
  <2>1. Names({}) = {}
    BY DEF Names
  <2>2. f \subseteq pending /\ forgotten' = forgotten \cup Names(f)
        /\ answered' = answered /\ timedOut' = timedOut
    BY DEF RemovePeer
  <2> HIDE DEF f
  <2>3. Names(pending') = Names(pending \ ({} \cup {} \cup f)) \cup {}
    BY <1>2
  <2>4. QED
    BY <1>1, <2>1, <2>2, <2>3 DEF LedgerStep
<1>4. IsFiniteSet(pending')
  BY <1>2, FS_Subset DEF RequestsInv
<1>5. QED
  BY <1>1, <1>2, <1>3, <1>4 DEF RequestsStep, RequestsInv, UniqueNames

\* A new request has a name of its own, and may cost the oldest its place.
LEMMA RequestRequests ==
    ASSUME RequestsInv, NEW kind \in RequestKinds, NEW dest \in Devices \cup {NoDevice},
           Request(kind, dest)
    PROVE  RequestsStep
<1> DEFINE q == NewRequest(kind, dest)
<1>0. /\ counter \in Nat \ {0} /\ counter' = counter + 1 /\ peers' = peers
      /\ pending' = (pending \ Overflow) \cup {q}
      /\ timedOut' = timedOut \cup Names(Overflow)
      /\ answered' = answered /\ forgotten' = forgotten
      /\ dest = NoDevice => kind = "read"
  BY DEF RequestsInv, Request
<1>1. /\ q \in Pending /\ q.request = counter /\ q.dest = dest /\ q.kind = kind
      /\ q.awaiting = "Answer"
  BY <1>0, EngineAssumption, LimitsAssumption DEF NewRequest, Pending
<1>2. Overflow \subseteq pending
  BY DEF Overflow, Oldest
<1> HIDE DEF q
<1>3. \A r \in pending : r.request \in Nat /\ r.request < counter /\ RequestOK(r, counter')
  BY <1>0 DEF RequestsInv, RequestOK, Pending
<1>4. RequestOK(q, counter')
  BY <1>0, <1>1 DEF RequestOK
<1>5. LedgerStep({}, Overflow, {}, {counter})
  <2>1. Names({}) = {}
    BY DEF Names
  <2>2. Names(pending') = Names(pending \ ({} \cup Overflow \cup {})) \cup {counter}
    BY <1>0, <1>1 DEF Names
  <2>3. {counter} \subseteq counter .. counter' - 1
    BY <1>0
  <2>4. counter' \in Nat /\ counter <= counter'
    BY <1>0
  <2>5. QED
    BY <1>0, <1>2, <2>1, <2>2, <2>3, <2>4 DEF LedgerStep
<1>6. IsFiniteSet(pending')
  BY <1>0, <1>2, FS_Subset, FS_AddElement DEF RequestsInv
<1>7. \A r \in pending : r.request # q.request
  BY <1>0, <1>1, <1>3
<1>8. UniqueNames(pending')
  BY <1>0, <1>2, <1>7 DEF UniqueNames, RequestsInv
<1>9. PeersOK'
  BY <1>0 DEF RequestsInv, PeersOK
<1>10. QED
  BY <1>0, <1>2, <1>3, <1>4, <1>5, <1>6, <1>8, <1>9 DEF RequestsStep

\* handle_timeout ends what has no retry left; the rest keeps its name.
LEMMA TimeoutRequests ==
    ASSUME RequestsInv, HandleTimeout
    PROVE  RequestsStep
<1> DEFINE rest == pending \ Abandoned
           g == [r \in rest |-> Served(r)]
<1>0. /\ counter \in Nat \ {0} /\ counter' = counter + Cardinality(Retrying)
      /\ peers' = peers /\ pending' = {Served(r) : r \in rest}
      /\ timedOut' = timedOut \cup Names(Abandoned)
      /\ answered' = answered /\ forgotten' = forgotten
  BY DEF RequestsInv, HandleTimeout
<1>1. Abandoned \subseteq pending /\ Retrying \in SUBSET pending
  BY DEF Abandoned, Retrying, Due
<1>2. Cardinality(Retrying) \in Nat
  BY <1>1, FS_Subset, FS_CardinalityType DEF RequestsInv
<1>3. counter' \in Nat /\ counter <= counter'
  BY <1>0, <1>2
<1>4. \A r \in rest : Served(r).request = r.request /\ RequestOK(Served(r), counter)
  BY ServedKeeps
<1>5. LedgerStep({}, Abandoned, {}, {})
  <2>1. Names({}) = {}
    BY DEF Names
  <2>2. Names(pending') = Names(pending \ ({} \cup Abandoned \cup {})) \cup {}
    BY <1>0, <1>4 DEF Names
  <2>3. QED
    BY <1>0, <1>1, <1>3, <2>1, <2>2 DEF LedgerStep
<1>6. IsFiniteSet(pending')
  <2>1. IsFiniteSet(rest)
    BY FS_Subset DEF RequestsInv
  <2>2. pending' = {g[r] : r \in rest}
    BY <1>0
  <2>3. DOMAIN g = rest /\ g = [r \in rest |-> g[r]]
    OBVIOUS
  <2> HIDE DEF g, rest
  <2>4. QED
    BY <2>1, <2>2, <2>3, ImageIsFinite
<1>7. \A r \in pending' : RequestOK(r, counter')
  <2>1. ASSUME NEW r \in rest PROVE RequestOK(Served(r), counter')
    <3>1. RequestOK(Served(r), counter) /\ Served(r).request \in Nat
      BY <1>4 DEF RequestOK, Pending
    <3>2. QED
      BY <1>0, <1>3, <3>1 DEF RequestOK
  <2>2. QED
    BY <1>0, <2>1
<1>8. UniqueNames(pending')
  BY <1>0, <1>4 DEF UniqueNames, RequestsInv
<1>9. PeersOK'
  BY <1>0 DEF RequestsInv, PeersOK
<1>10. QED
  BY <1>5, <1>6, <1>7, <1>8, <1>9 DEF RequestsStep

\* Time passes alike for all requests.
LEMMA TickRequests ==
    ASSUME RequestsInv, Tick
    PROVE  RequestsStep
<1> DEFINE Later(r) == [r EXCEPT !.deadline = @ - 1]
           g == [r \in pending |-> Later(r)]
<1>0. /\ counter \in Nat \ {0} /\ counter' = counter /\ peers' = peers
      /\ pending' = {Later(r) : r \in pending}
      /\ timedOut' = timedOut /\ answered' = answered /\ forgotten' = forgotten
  BY DEF RequestsInv, Tick, ends
<1>1. ASSUME NEW r \in pending
      PROVE  Later(r).request = r.request /\ RequestOK(Later(r), counter)
  <2>1. RequestOK(r, counter) /\ r \in Pending /\ r.deadline \in Nat
    BY DEF RequestsInv, RequestOK, Pending
  <2>2. r.deadline # 0
    BY DEF Tick, Deadlines, RequestDeadlines
  <2> DEFINE k == r.deadline - 1
  <2>3. k \in Nat
    BY <2>1, <2>2
  <2>4. Later(r) = [r EXCEPT !.deadline = k]
    OBVIOUS
  <2> HIDE DEF k, Later
  <2>5. /\ Later(r) \in Pending /\ Later(r).request = r.request
        /\ Later(r).dest = r.dest /\ Later(r).kind = r.kind
        /\ Later(r).awaiting = r.awaiting /\ Later(r).retries = r.retries
    BY <2>1, <2>3, <2>4 DEF Pending
  <2>6. QED
    BY <2>1, <2>5 DEF RequestOK
<1>2. IsFiniteSet(pending')
  <2>1. pending' = {g[r] : r \in pending}
    BY <1>0
  <2>2. DOMAIN g = pending /\ g = [r \in pending |-> g[r]]
    OBVIOUS
  <2> HIDE DEF g
  <2>3. QED
    BY <2>1, <2>2, ImageIsFinite DEF RequestsInv
<1> HIDE DEF Later
<1>3. LedgerStep({}, {}, {}, {})
  <2>1. Names({}) = {}
    BY DEF Names
  <2>2. Names(pending') = Names(pending \ ({} \cup {} \cup {})) \cup {}
    BY <1>0, <1>1 DEF Names
  <2>3. QED
    BY <1>0, <2>1, <2>2 DEF LedgerStep
<1>4. UniqueNames(pending')
  BY <1>0, <1>1 DEF UniqueNames, RequestsInv
<1>5. PeersOK'
  BY <1>0 DEF RequestsInv, PeersOK
<1>6. QED
  BY <1>0, <1>1, <1>2, <1>3, <1>4, <1>5 DEF RequestsStep

\* Every step does what RequestsStep says.
LEMMA NextRequests ==
    ASSUME RequestsInv, [Next]_vars
    PROVE  RequestsStep
<1>1. ASSUME NEW d \in Devices, NEW n \in Counters, Admit(d, n), NoAnswer(d)
      PROVE  RequestsStep
  <2>1. Names({}) = {}
    BY DEF Names
  <2>2. QED
    BY <1>1, <2>1, DatagramRequests DEF NoAnswer
<1>2. ASSUME NEW d \in Devices, NEW n \in Counters, NEW k \in References,
             Admit(d, n), Answers(d, k)
      PROVE  RequestsStep
  BY <1>2, DatagramRequests DEF Answers
<1>3. ASSUME UNCHANGED <<peers, pending, counter, answered, timedOut, forgotten>>
      PROVE  RequestsStep
  <2>1. Names({}) = {}
    BY DEF Names
  <2>2. Names(pending') = Names(pending \ ({} \cup {} \cup {})) \cup {}
    BY <1>3
  <2>3. counter \in Nat
    BY DEF RequestsInv
  <2>4. LedgerStep({}, {}, {}, {})
    BY <1>3, <2>1, <2>2, <2>3 DEF LedgerStep
  <2>5. QED
    BY <1>3, <2>4 DEF RequestsStep, RequestsInv, PeersOK
<1>4. CASE UNCHANGED vars
  BY <1>3, <1>4 DEF vars, tables, ends
<1>5. CASE \E d \in Devices, n \in Counters :
             \/ ReadArrives(d, n)
             \/ \E c \in Clients, s \in Servers \cup {NodeManagement} :
                  \/ BindingCalled(d, n, c, s) \/ BindingReleased(d, n, c, s)
                  \/ SubscriptionCalled(d, n, c, s) \/ SubscriptionReleased(d, n, c, s)
  BY <1>1, <1>5 DEF ReadArrives, BindingCalled, BindingReleased,
       SubscriptionCalled, SubscriptionReleased
<1>6. CASE \E d \in Devices, n \in Counters, r \in References, b \in BOOLEAN :
             DataArrives(d, n, r, b) \/ ResultArrives(d, n, r, b)
  BY <1>2, <1>6 DEF DataArrives, ResultArrives
<1>7. CASE \E c \in Clients, n \in Counters, s \in Servers, b \in BOOLEAN :
             WriteArrives(c, n, s, b)
  BY <1>1, <1>7, EngineAssumption DEF WriteArrives
<1>8. CASE \E kind \in RequestKinds, d \in Devices \cup {NoDevice} : Request(kind, d)
  BY <1>8, RequestRequests
<1>9. CASE \E w \in deferred : Reject(w) \/ \E b \in BOOLEAN : Accept(w, b)
  BY <1>3, <1>9 DEF Reject, Accept, ends
<1>10. CASE \E d \in Devices : RemovePeer(d)
  BY <1>10, RemovePeerRequests
<1>11. CASE RemoveEntity \/ AddEntity
  BY <1>3, <1>11 DEF RemoveEntity, AddEntity, tables, ends
<1>12. CASE HandleTimeout \/ Tick
  BY <1>12, TimeoutRequests, TickRequests
<1>13. QED
  BY <1>4, <1>5, <1>6, <1>7, <1>8, <1>9, <1>10, <1>11, <1>12 DEF Next

LEMMA RequestsInductive ==
    ASSUME RequestsInv, [Next]_vars
    PROVE  RequestsInv' /\ Ledger!Next
<1>1. RequestsStep
  BY NextRequests
<1>2. PICK a, t, f, n : LedgerStep(a, t, f, n)
  BY <1>1 DEF RequestsStep
<1>3. /\ Ledger!Next
      /\ (answered \cup timedOut \cup forgotten \subseteq 1 .. counter - 1)'
      /\ (Names(pending) \cap (answered \cup timedOut \cup forgotten) = {})'
  BY <1>2, LedgerStepIsSound
<1>4. counter' \in Nat \ {0}
  BY <1>2 DEF LedgerStep, RequestsInv
<1>5. RequestsInv'
  BY <1>1, <1>3, <1>4 DEF RequestsStep, RequestsInv, UniqueNames
<1>6. QED
  BY <1>3, <1>5

LEMMA RequestsInitially == Init => RequestsInv
<1> SUFFICES ASSUME Init PROVE RequestsInv
  OBVIOUS
<1>1. IsFiniteSet(pending)
  BY FS_EmptySet DEF Init
<1>2. PeersOK
  BY LimitsAssumption DEF Init, PeersOK
<1>3. QED
  BY <1>1, <1>2 DEF Init, RequestsInv, UniqueNames, Names

\* Whatever answers come late, twice or from another peer, and however retries,
\* overflow and evictions interleave with them, every request ends at most once
\* and in one way, under a name of its own: the engine implements the ledger
\* (send, resolve_pending, handle_timeout, remove_peer).
THEOREM RequestsEndOnce == Spec => RefinesLedger
<1>1. Init => Ledger!Init
  BY DEF Init, Ledger!Init, Names
<1>2. RequestsInv /\ [Next]_vars => RequestsInv' /\ [Ledger!Next]_(Ledger!ledger)
  BY RequestsInductive
<1>3. QED
  BY <1>1, <1>2, RequestsInitially, PTL DEF Spec, RefinesLedger, Ledger!Spec

-----------------------------------------------------------------------------
(***************************************************************************)
(* Writes that wait for the application.                                   *)
(***************************************************************************)
WritesInv ==
    /\ next_token \in Nat \ {0}
    /\ deferred \subseteq DeferredWrite /\ IsFiniteSet(deferred)
    /\ Cardinality(deferred) <= MAX_DEFERRED_WRITES

\* Giving up some of the writes that wait keeps the queue within its limit.
LEMMA FewerWrites ==
    ASSUME WritesInv, NEW W \in SUBSET deferred
    PROVE  /\ W \subseteq DeferredWrite /\ IsFiniteSet(W)
           /\ Cardinality(W) <= MAX_DEFERRED_WRITES /\ Cardinality(W) \in Nat
<1>1. IsFiniteSet(W) /\ Cardinality(W) <= Cardinality(deferred)
  BY FS_Subset DEF WritesInv
<1>2. Cardinality(W) \in Nat /\ Cardinality(deferred) \in Nat
  BY <1>1, FS_CardinalityType DEF WritesInv
<1>3. QED
  BY <1>1, <1>2, LimitsAssumption DEF WritesInv

\* The queue of handle_write: a write goes in only below MAX_DEFERRED_WRITES.
LEMMA WriteArrivesWrites ==
    ASSUME WritesInv, NEW c \in Clients, NEW n \in Counters, NEW s \in Servers,
           NEW b \in BOOLEAN, WriteArrives(c, n, s, b)
    PROVE  /\ WritesInv'
           /\ \A w \in deferred' : w \in Waiting(Evicted(c.device)) \/ w.client = c
<1> DEFINE waiting == Waiting(Evicted(c.device))
           w == [token |-> next_token, client |-> c, server |-> s,
                 reference |-> n, deadline |-> DecisionWindow]
<1>0. waiting \in SUBSET deferred
  BY DEF Waiting
<1>1. /\ waiting \subseteq DeferredWrite /\ IsFiniteSet(waiting)
      /\ Cardinality(waiting) <= MAX_DEFERRED_WRITES /\ Cardinality(waiting) \in Nat
  BY <1>0, FewerWrites
<1>2. \/ /\ deferred' = waiting \cup {w} /\ next_token' = next_token + 1
         /\ s \in Approved /\ Cardinality(waiting) < MAX_DEFERRED_WRITES
      \/ deferred' = waiting /\ next_token' = next_token
  BY DEF WriteArrives, NoWrite
<1>3. CASE deferred' = waiting /\ next_token' = next_token
  <2> HIDE DEF waiting
  <2>1. WritesInv'
    BY <1>1, <1>3 DEF WritesInv
  <2>2. QED
    BY <1>3, <2>1 DEF waiting
<1>4. CASE /\ deferred' = waiting \cup {w} /\ next_token' = next_token + 1
           /\ s \in Approved /\ Cardinality(waiting) < MAX_DEFERRED_WRITES
  <2>1. w \in DeferredWrite /\ w.client = c
    BY <1>4, LimitsAssumption DEF DeferredWrite, WritesInv
  <2> HIDE DEF waiting, w
  <2>2. IsFiniteSet(deferred')
    BY <1>1, <1>4, FS_AddElement
  <2>3. Cardinality(deferred') <= MAX_DEFERRED_WRITES
    <3>1. Cardinality(waiting \cup {w}) =
            IF w \in waiting THEN Cardinality(waiting) ELSE Cardinality(waiting) + 1
      BY <1>1, FS_AddElement
    <3>2. MAX_DEFERRED_WRITES \in Nat
      BY LimitsAssumption
    <3>3. QED
      BY <1>1, <1>4, <3>1, <3>2
  <2>4. WritesInv'
    BY <1>1, <1>4, <2>1, <2>2, <2>3 DEF WritesInv
  <2>5. QED
    BY <1>4, <2>1, <2>4 DEF waiting
<1>5. QED
  BY <1>2, <1>3, <1>4

\* Time passes alike for all writes.
LEMMA TickWrites ==
    ASSUME WritesInv, Tick
    PROVE  /\ WritesInv'
           /\ \A w \in deferred' : \E v \in deferred : w.client = v.client
<1> DEFINE Later(w) == [w EXCEPT !.deadline = @ - 1]
           g == [w \in deferred |-> Later(w)]
<1>0. deferred' = {Later(w) : w \in deferred} /\ next_token' = next_token
  BY DEF Tick
<1>1. ASSUME NEW w \in deferred
      PROVE  Later(w) \in DeferredWrite /\ Later(w).client = w.client
  <2>1. w \in DeferredWrite /\ w.deadline \in 0 .. DecisionWindow
    BY DEF WritesInv, DeferredWrite
  <2>2. w.deadline # 0
    BY DEF Tick, Deadlines, WriteDeadlines
  <2> DEFINE k == w.deadline - 1
  <2>3. k \in 0 .. DecisionWindow
    BY <2>1, <2>2, LimitsAssumption
  <2>4. Later(w) = [w EXCEPT !.deadline = k]
    OBVIOUS
  <2> HIDE DEF k, Later
  <2>5. QED
    BY <2>1, <2>3, <2>4 DEF DeferredWrite
<1>2. IsFiniteSet(deferred') /\ Cardinality(deferred') <= Cardinality(deferred)
  <2>1. deferred' = {g[w] : w \in deferred}
    BY <1>0
  <2>2. DOMAIN g = deferred /\ g = [w \in deferred |-> g[w]]
    OBVIOUS
  <2> HIDE DEF g
  <2>3. QED
    BY <2>1, <2>2, ImageIsFinite DEF WritesInv
<1> HIDE DEF Later
<1>3. Cardinality(deferred') \in Nat /\ Cardinality(deferred) \in Nat
  BY <1>2, FS_CardinalityType DEF WritesInv
<1>4. Cardinality(deferred') <= MAX_DEFERRED_WRITES
  BY <1>2, <1>3, LimitsAssumption DEF WritesInv
<1>5. QED
  BY <1>0, <1>1, <1>2, <1>4 DEF WritesInv

\* Every step but an arriving write and the passing of time leaves a part of
\* the queue as it is.
LEMMA WritesStep ==
    ASSUME Next
    PROVE  \/ \E c \in Clients, n \in Counters, s \in Servers, b \in BOOLEAN :
                WriteArrives(c, n, s, b)
           \/ Tick
           \/ deferred' \subseteq deferred /\ next_token' = next_token
<1> USE DEF Waiting
<1>1. CASE \E d \in Devices, n \in Counters :
             \/ ReadArrives(d, n)
             \/ \E c \in Clients, s \in Servers \cup {NodeManagement} :
                  \/ BindingCalled(d, n, c, s) \/ BindingReleased(d, n, c, s)
                  \/ SubscriptionCalled(d, n, c, s) \/ SubscriptionReleased(d, n, c, s)
             \/ \E r \in References, b \in BOOLEAN :
                  DataArrives(d, n, r, b) \/ ResultArrives(d, n, r, b)
  BY <1>1 DEF ReadArrives, BindingCalled, BindingReleased, SubscriptionCalled,
       SubscriptionReleased, DataArrives, ResultArrives, NoWrite
<1>2. CASE \E kind \in RequestKinds, d \in Devices \cup {NoDevice} : Request(kind, d)
  BY <1>2 DEF Request
<1>3. CASE \E w \in deferred : Reject(w) \/ \E b \in BOOLEAN : Accept(w, b)
  BY <1>3 DEF Reject, Accept
<1>4. CASE \E d \in Devices : RemovePeer(d)
  BY <1>4 DEF RemovePeer
<1>5. CASE RemoveEntity \/ AddEntity \/ HandleTimeout
  BY <1>5 DEF RemoveEntity, AddEntity, HandleTimeout, tables
<1>6. QED
  BY <1>1, <1>2, <1>3, <1>4, <1>5 DEF Next

LEMMA WritesInductive ==
    ASSUME WritesInv, [Next]_vars
    PROVE  WritesInv'
<1>1. ASSUME deferred' \subseteq deferred, next_token' = next_token PROVE WritesInv'
  BY <1>1, FewerWrites DEF WritesInv
<1>2. CASE UNCHANGED vars
  BY <1>1, <1>2 DEF vars, tables
<1>3. CASE Next
  BY <1>1, <1>3, WritesStep, WriteArrivesWrites, TickWrites
<1>4. QED
  BY <1>2, <1>3

LEMMA WritesInitially == Init => WritesInv
BY FS_EmptySet, LimitsAssumption DEF Init, WritesInv

-----------------------------------------------------------------------------
(***************************************************************************)
(* What is filed under a peer.  A datagram of d adds at most what is d's,  *)
(* to what remains once the evicted peer's has gone; that no request for a *)
(* relation goes to an unknown device is part of RequestsInv.              *)
(***************************************************************************)
FiledInv == RequestsInv /\ WritesInv /\ NothingOutlivesItsPeer

FiledStep(d) ==
    /\ \A x \in bindings' \cup subscriptions' :
         \/ x \in bindings \cup subscriptions /\ x[1].device \notin Evicted(d)
         \/ x[1].device = d /\ x[2] \in present \cup {NodeManagement}
    /\ \A w \in deferred' :
         \/ w \in deferred /\ w.client.device \notin Evicted(d)
         \/ w.client.device = d
    /\ \A h \in held' :
         \/ h \in held /\ h.device \notin Evicted(d)
         \/ h.device = d

LEMMA FiledStepIsSound ==
    ASSUME FiledInv, NEW d \in Devices, NEW n \in Counters, Admit(d, n), FiledStep(d)
    PROVE  NothingOutlivesItsPeer'
<1>1. d \in Recorded' /\ Recorded \ Evicted(d) \subseteq Recorded' /\ present' = present
  BY EnteredKeeps DEF FiledInv, RequestsInv, Admit
<1>2. \A x \in bindings' \cup subscriptions' :
         x[1].device \in Recorded' /\ x[2] \in present' \cup {NodeManagement}
  BY <1>1 DEF FiledInv, NothingOutlivesItsPeer, FiledStep
<1>3. \A w \in deferred' : w.client.device \in Recorded'
  BY <1>1 DEF FiledInv, NothingOutlivesItsPeer, FiledStep
<1>4. \A h \in held' : h.device \in Recorded'
  BY <1>1 DEF FiledInv, NothingOutlivesItsPeer, FiledStep
<1>5. QED
  BY <1>2, <1>3, <1>4 DEF NothingOutlivesItsPeer

LEMMA AddedRelations ==
    ASSUME NEW rel, NEW c, NEW s
    PROVE  /\ AddBinding(rel, c, s) \subseteq rel \cup {<<c, s>>}
           /\ AddSubscription(rel, c, s) \subseteq rel \cup {<<c, s>>}
BY DEF AddBinding, AddSubscription

\* Each datagram files only what is its sender's (handle_datagram).
LEMMA DatagramFiles ==
    ASSUME FiledInv, NEW d \in Devices, NEW n \in Counters,
           \/ ReadArrives(d, n)
           \/ \E c \in Clients, s \in Servers \cup {NodeManagement} :
                \/ BindingCalled(d, n, c, s) \/ BindingReleased(d, n, c, s)
                \/ SubscriptionCalled(d, n, c, s) \/ SubscriptionReleased(d, n, c, s)
           \/ \E r \in References, b \in BOOLEAN :
                DataArrives(d, n, r, b) \/ ResultArrives(d, n, r, b)
    PROVE  Admit(d, n) /\ FiledStep(d)
<1> USE DEF NoWrite, NoBinding, NoSubscription, NoGrant, Waiting, BoundBut,
            SubscribedBut, HeldBut
<1>1. CASE ReadArrives(d, n)
  BY <1>1 DEF ReadArrives, FiledStep
<1>2. ASSUME NEW c \in Clients, NEW s \in Servers \cup {NodeManagement},
             BindingCalled(d, n, c, s)
      PROVE  Admit(d, n) /\ FiledStep(d)
  <2>1. \A x \in bindings' : \/ x \in BoundBut(Evicted(d))
                             \/ x = <<c, s>> /\ c.device = d /\ s \in present
    BY <1>2, AddedRelations DEF BindingCalled
  <2>2. \A x \in bindings' : \/ x \in bindings /\ x[1].device \notin Evicted(d)
                             \/ x[1].device = d /\ x[2] \in present \cup {NodeManagement}
    BY <2>1
  <2>3. QED
    BY <1>2, <2>2 DEF BindingCalled, FiledStep
<1>3. ASSUME NEW c \in Clients, NEW s \in Servers \cup {NodeManagement},
             SubscriptionCalled(d, n, c, s)
      PROVE  Admit(d, n) /\ FiledStep(d)
  <2>1. \A x \in subscriptions' :
             \/ x \in SubscribedBut(Evicted(d))
             \/ x = <<c, s>> /\ c.device = d /\ s \in present \cup {NodeManagement}
    BY <1>3, AddedRelations DEF SubscriptionCalled
  <2>2. \A x \in subscriptions' :
             \/ x \in subscriptions /\ x[1].device \notin Evicted(d)
             \/ x[1].device = d /\ x[2] \in present \cup {NodeManagement}
    BY <2>1
  <2>3. QED
    BY <1>3, <2>2 DEF SubscriptionCalled, FiledStep
<1>4. ASSUME NEW c \in Clients, NEW s \in Servers \cup {NodeManagement},
             BindingReleased(d, n, c, s) \/ SubscriptionReleased(d, n, c, s)
      PROVE  Admit(d, n) /\ FiledStep(d)
  BY <1>4 DEF BindingReleased, SubscriptionReleased, FiledStep
<1>5. ASSUME NEW r \in References, NEW b \in BOOLEAN, DataArrives(d, n, r, b)
      PROVE  Admit(d, n) /\ FiledStep(d)
  BY <1>5 DEF DataArrives, FiledStep
<1>6. ASSUME NEW r \in References, NEW b \in BOOLEAN, ResultArrives(d, n, r, b)
      PROVE  Admit(d, n) /\ FiledStep(d)
  <2> DEFINE granted == {q \in Resolved(d, r) : q.kind \in {"bind", "subscribe"}}
  <2>1. \A q \in granted : q.dest = d
    BY DEF Resolved, FiledInv, RequestsInv, RequestOK
  <2>2. \A h \in held' : h \in HeldBut(Evicted(d)) \/ \E q \in granted : h.device = q.dest
    BY <1>6 DEF ResultArrives
  <2>3. \A h \in held' : (h \in held /\ h.device \notin Evicted(d)) \/ h.device = d
    BY <2>1, <2>2
  <2>4. QED
    BY <1>6, <2>3 DEF ResultArrives, FiledStep
<1>7. QED
  BY <1>1, <1>2, <1>3, <1>4, <1>5, <1>6

\* Whatever is filed under a peer goes with its record, also when a newcomer
\* takes its place, and no relation is granted on a feature that is gone
\* (peer_entry, remove_peer, remove_local_entity).
THEOREM NothingIsLeftBehind == Spec => []NothingOutlivesItsPeer
<1>1. Init => FiledInv
  BY RequestsInitially, WritesInitially DEF Init, FiledInv, NothingOutlivesItsPeer
<1>2. ASSUME FiledInv, [Next]_vars PROVE FiledInv'
  <2>0. RequestsInv' /\ WritesInv' /\ PeersOK
    BY <1>2, RequestsInductive, WritesInductive DEF FiledInv, RequestsInv
  <2> SUFFICES NothingOutlivesItsPeer'
    BY <2>0 DEF FiledInv
  <2>1. ASSUME UNCHANGED <<peers, present>>, bindings' \subseteq bindings,
               subscriptions' \subseteq subscriptions, held' \subseteq held,
               \A w \in deferred' : \E v \in deferred : w.client = v.client
        PROVE  NothingOutlivesItsPeer'
    <3>1. Recorded' = Recorded
      BY <2>1 DEF Recorded
    <3>2. QED
      BY <1>2, <2>1, <3>1 DEF FiledInv, NothingOutlivesItsPeer
  <2>2. CASE UNCHANGED vars
    BY <2>1, <2>2 DEF vars, tables
  <2>3. CASE \E d \in Devices, n \in Counters :
               \/ ReadArrives(d, n)
               \/ \E c \in Clients, s \in Servers \cup {NodeManagement} :
                    \/ BindingCalled(d, n, c, s) \/ BindingReleased(d, n, c, s)
                    \/ SubscriptionCalled(d, n, c, s) \/ SubscriptionReleased(d, n, c, s)
               \/ \E r \in References, b \in BOOLEAN :
                    DataArrives(d, n, r, b) \/ ResultArrives(d, n, r, b)
    BY <1>2, <2>3, DatagramFiles, FiledStepIsSound
  <2>4. ASSUME NEW c \in Clients, NEW n \in Counters, NEW s \in Servers,
               NEW b \in BOOLEAN, WriteArrives(c, n, s, b)
        PROVE  NothingOutlivesItsPeer'
    <3>1. c.device \in Devices /\ Admit(c.device, n)
      BY <2>4, EngineAssumption DEF WriteArrives
    <3>2. \A w \in deferred' : w \in Waiting(Evicted(c.device)) \/ w.client = c
      BY <1>2, <2>4, WriteArrivesWrites DEF FiledInv
    <3>3. FiledStep(c.device)
      BY <2>4, <3>2 DEF WriteArrives, FiledStep, Waiting, BoundBut, SubscribedBut,
           HeldBut, NoBinding, NoSubscription, NoGrant
    <3>4. QED
      BY <1>2, <3>1, <3>3, FiledStepIsSound
  <2>5. CASE \E kind \in RequestKinds, d \in Devices \cup {NoDevice} : Request(kind, d)
    BY <2>1, <2>5 DEF Request
  <2>6. CASE \E w \in deferred : Reject(w) \/ \E b \in BOOLEAN : Accept(w, b)
    BY <2>1, <2>6 DEF Reject, Accept
  <2>7. ASSUME NEW d \in Devices, RemovePeer(d) PROVE NothingOutlivesItsPeer'
    <3>1. Recorded \ {d} \subseteq Recorded' /\ present' = present
      BY <2>0, <2>7, RemovePeerKeeps DEF RemovePeer
    <3>2. /\ bindings' = BoundBut({d}) /\ subscriptions' = SubscribedBut({d})
          /\ deferred' = Waiting({d}) /\ held' = HeldBut({d})
      BY <2>7 DEF RemovePeer
    <3>3. QED
      BY <1>2, <3>1, <3>2 DEF FiledInv, NothingOutlivesItsPeer, BoundBut,
           SubscribedBut, Waiting, HeldBut
  <2>8. CASE RemoveEntity
    <3>1. Recorded' = Recorded
      BY <2>8 DEF RemoveEntity, Recorded
    <3>2. QED
      BY <1>2, <2>8, <3>1 DEF RemoveEntity, FiledInv, NothingOutlivesItsPeer
  <2>9. CASE AddEntity
    <3>1. Recorded' = Recorded
      BY <2>9 DEF AddEntity, tables, Recorded
    <3>2. QED
      BY <1>2, <2>9, <3>1 DEF AddEntity, tables, FiledInv, NothingOutlivesItsPeer
  <2>10. CASE HandleTimeout
    BY <2>1, <2>10 DEF HandleTimeout
  <2>11. CASE Tick
    <3>1. \A w \in deferred' : \E v \in deferred : w.client = v.client
      BY <1>2, <2>11, TickWrites DEF FiledInv
    <3>2. QED
      BY <2>1, <2>11, <3>1 DEF Tick
  <2>12. QED
    BY <1>2, <2>2, <2>3, <2>4, <2>5, <2>6, <2>7, <2>8, <2>9, <2>10, <2>11 DEF Next
<1>3. QED
  BY <1>1, <1>2, PTL DEF Spec, FiledInv

-----------------------------------------------------------------------------
(***************************************************************************)
(* Types and limits.                                                       *)
(***************************************************************************)
PendingBounded == Cardinality(pending) <= MAX_PENDING_REQUESTS

\* send makes room: what it gives up is at least one request.
LEMMA RequestBounded ==
    ASSUME RequestsInv, PendingBounded,
           NEW kind, NEW dest, Request(kind, dest)
    PROVE  PendingBounded'
<1> DEFINE q == NewRequest(kind, dest)
           rest == pending \ Overflow
<1>0. MAX_PENDING_REQUESTS \in Nat /\ MAX_PENDING_REQUESTS > 0
  BY LimitsAssumption
<1>1. /\ IsFiniteSet(pending) /\ Cardinality(pending) \in Nat
      /\ pending' = rest \cup {q}
      /\ Cardinality(pending) <= MAX_PENDING_REQUESTS
  BY FS_CardinalityType DEF RequestsInv, Request, PendingBounded
<1>2. IsFiniteSet(rest) /\ Cardinality(rest) \in Nat
  BY <1>1, FS_Subset, FS_CardinalityType
<1>3. Cardinality(rest) < MAX_PENDING_REQUESTS
  <2>1. CASE Cardinality(pending) < MAX_PENDING_REQUESTS
    <3>1. rest = pending
      BY <1>0, <1>1, <2>1 DEF Overflow
    <3>2. QED
      BY <2>1, <3>1
  <2>2. CASE ~(Cardinality(pending) < MAX_PENDING_REQUESTS)
    <3>1. Overflow = Oldest
      BY <1>0, <1>1, <2>2 DEF Overflow
    <3>2. pending # {}
      BY <1>0, <1>1, <2>2, FS_EmptySet
    <3>3. Names(pending) \in SUBSET Nat /\ Names(pending) # {}
      BY <3>2 DEF RequestsInv, RequestOK, Pending, Names
    <3>4. PICK i \in Names(pending) : \A j \in Names(pending) : i <= j
      BY <3>3, LeastExists
    <3>5. PICK r \in pending : r.request = i
      BY <3>4 DEF Names
    <3>6. r \in Oldest
      BY <3>4, <3>5 DEF Oldest, Names
    <3>7. rest \in SUBSET (pending \ {r})
      BY <3>1, <3>6
    <3>8. IsFiniteSet(pending \ {r}) /\ Cardinality(pending \ {r}) = Cardinality(pending) - 1
      BY <1>1, FS_RemoveElement
    <3>9. Cardinality(rest) <= Cardinality(pending \ {r})
      BY <3>7, <3>8, FS_Subset
    <3>10. QED
      BY <1>0, <1>1, <1>2, <3>8, <3>9
  <2>3. QED
    BY <2>1, <2>2
<1>4. Cardinality(rest \cup {q}) =
        IF q \in rest THEN Cardinality(rest) ELSE Cardinality(rest) + 1
  BY <1>2, FS_AddElement
<1> HIDE DEF rest, q
<1>5. Cardinality(rest \cup {q}) <= MAX_PENDING_REQUESTS
  BY <1>0, <1>2, <1>3, <1>4
<1>6. QED
  BY <1>1, <1>5 DEF PendingBounded

\* Handling what is due, and the passing of time, make no request more.
LEMMA TimeBounded ==
    ASSUME RequestsInv, PendingBounded, HandleTimeout \/ Tick
    PROVE  PendingBounded'
<1>0. MAX_PENDING_REQUESTS \in Nat
  BY LimitsAssumption
<1>1. ASSUME NEW S \in SUBSET pending, NEW g, DOMAIN g = S, g = [r \in S |-> g[r]],
             pending' = {g[r] : r \in S}
      PROVE  PendingBounded'
  <2>1. IsFiniteSet(S) /\ Cardinality(S) <= Cardinality(pending)
    BY FS_Subset DEF RequestsInv
  <2>2. IsFiniteSet(pending') /\ Cardinality(pending') <= Cardinality(S)
    BY <1>1, <2>1, ImageIsFinite
  <2>3. Cardinality(pending) \in Nat /\ Cardinality(S) \in Nat
        /\ Cardinality(pending') \in Nat
    BY <2>1, <2>2, FS_CardinalityType DEF RequestsInv
  <2>4. QED
    BY <1>0, <2>1, <2>2, <2>3 DEF PendingBounded
<1>2. CASE HandleTimeout
  <2> DEFINE S == pending \ Abandoned
             g == [r \in S |-> Served(r)]
  <2>1. pending' = {g[r] : r \in S}
    BY <1>2 DEF HandleTimeout
  <2>2. DOMAIN g = S /\ g = [r \in S |-> g[r]] /\ S \in SUBSET pending
    OBVIOUS
  <2> HIDE DEF g, S
  <2>3. QED
    BY <1>1, <2>1, <2>2
<1>3. CASE Tick
  <2> DEFINE Later(r) == [r EXCEPT !.deadline = @ - 1]
             g == [r \in pending |-> Later(r)]
  <2>1. pending' = {g[r] : r \in pending}
    BY <1>3 DEF Tick
  <2>2. DOMAIN g = pending /\ g = [r \in pending |-> g[r]] /\ pending \in SUBSET pending
    OBVIOUS
  <2> HIDE DEF g
  <2>3. QED
    BY <1>1, <2>1, <2>2
<1>4. QED
  BY <1>2, <1>3

LEMMA BoundedInductive ==
    ASSUME RequestsInv, PendingBounded, [Next]_vars
    PROVE  PendingBounded'
<1>1. ASSUME pending' \subseteq pending PROVE PendingBounded'
  <2>1. IsFiniteSet(pending') /\ Cardinality(pending') <= Cardinality(pending)
    BY <1>1, FS_Subset DEF RequestsInv
  <2>2. Cardinality(pending) \in Nat /\ Cardinality(pending') \in Nat
    BY <2>1, FS_CardinalityType DEF RequestsInv
  <2>3. QED
    BY <2>1, <2>2, LimitsAssumption DEF PendingBounded
<1>2. CASE UNCHANGED vars
  BY <1>1, <1>2 DEF vars, tables
<1>3. CASE \E d \in Devices, n \in Counters :
             \/ ReadArrives(d, n)
             \/ \E c \in Clients, s \in Servers \cup {NodeManagement} :
                  \/ BindingCalled(d, n, c, s) \/ BindingReleased(d, n, c, s)
                  \/ SubscriptionCalled(d, n, c, s) \/ SubscriptionReleased(d, n, c, s)
             \/ \E r \in References, b \in BOOLEAN :
                  DataArrives(d, n, r, b) \/ ResultArrives(d, n, r, b)
  BY <1>1, <1>3 DEF ReadArrives, BindingCalled, BindingReleased, SubscriptionCalled,
       SubscriptionReleased, DataArrives, ResultArrives, NoAnswer, Answers, Staying
<1>4. CASE \E c \in Clients, n \in Counters, s \in Servers, b \in BOOLEAN :
             WriteArrives(c, n, s, b)
  BY <1>1, <1>4 DEF WriteArrives, NoAnswer, Staying
<1>5. CASE \E kind \in RequestKinds, d \in Devices \cup {NoDevice} : Request(kind, d)
  BY <1>5, RequestBounded
<1>6. CASE \E w \in deferred : Reject(w) \/ \E b \in BOOLEAN : Accept(w, b)
  BY <1>1, <1>6 DEF Reject, Accept
<1>7. CASE \E d \in Devices : RemovePeer(d)
  BY <1>1, <1>7 DEF RemovePeer, Staying
<1>8. CASE RemoveEntity \/ AddEntity
  BY <1>1, <1>8 DEF RemoveEntity, AddEntity, tables
<1>9. CASE HandleTimeout \/ Tick
  BY <1>9, TimeBounded
<1>10. QED
  BY <1>2, <1>3, <1>4, <1>5, <1>6, <1>7, <1>8, <1>9 DEF Next

WindowedTracker == [last : Nat, seen : SUBSET (1 .. WINDOW)]

\* The window never holds more than its width (MsgCounterTracker::observe).
LEMMA ObserveTyped ==
    ASSUME NEW t \in WindowedTracker, NEW n \in Nat \ {0}, Acceptable(t, n)
    PROVE  Observe(t, n) \in WindowedTracker
<1>0. WINDOW \in Nat /\ t.last \in Nat /\ t.seen \subseteq 1 .. WINDOW
  BY LimitsAssumption DEF WindowedTracker
<1>1. CASE t.last = None \/ Restarts(t, n)
  BY <1>1 DEF Observe, WindowedTracker
<1>2. CASE ~(t.last = None \/ Restarts(t, n)) /\ n > t.last
  <2> DEFINE ahead == n - t.last
  <2>1. ahead \in Nat /\ ahead > 0
    BY <1>0, <1>2
  <2> HIDE DEF ahead
  <2>2. ASSUME NEW x \in Shifted(t.seen, ahead) PROVE x \in 1 .. WINDOW
    <3>1. ahead < WINDOW /\ (x = ahead \/ \E j \in t.seen : j + ahead <= WINDOW /\ x = j + ahead)
      BY <2>2 DEF Shifted
    <3>2. \A j \in t.seen : j \in Nat
      BY <1>0
    <3>3. QED
      BY <1>0, <2>1, <3>1, <3>2
  <2>3. Observe(t, n) = [last |-> n, seen |-> Shifted(t.seen, ahead)]
    BY <1>2 DEF Observe, ahead
  <2>4. QED
    BY <2>2, <2>3 DEF WindowedTracker
<1>3. CASE ~(t.last = None \/ Restarts(t, n)) /\ ~(n > t.last)
  <2>1. t.last - n \in 1 .. WINDOW
    BY <1>3 DEF Acceptable
  <2>2. Observe(t, n) = [t EXCEPT !.seen = @ \cup {t.last - n}]
    BY <1>3 DEF Observe
  <2>3. QED
    BY <1>0, <2>1, <2>2 DEF WindowedTracker
<1>4. QED
  BY <1>1, <1>2, <1>3

TrackersOK == tracker \in [Devices -> WindowedTracker]

LEMMA TrackersInductive ==
    ASSUME TrackersOK, [Next]_vars
    PROVE  TrackersOK'
<1>0. NewTracker \in WindowedTracker
  BY DEF NewTracker, WindowedTracker, None
<1>1. ASSUME NEW d \in Devices, NEW n \in Counters, Admit(d, n) PROVE TrackersOK'
  <2>1. n \in Nat \ {0} /\ tracker[d] \in WindowedTracker
    BY EngineAssumption DEF TrackersOK
  <2>2. Observe(tracker[d], n) \in WindowedTracker
    BY <1>1, <2>1, ObserveTyped DEF Admit
  <2>3. QED
    BY <1>0, <1>1, <2>2 DEF Admit, Forgetting, TrackersOK
<1>2. ASSUME NEW d \in Devices, RemovePeer(d) PROVE TrackersOK'
  BY <1>0, <1>2 DEF RemovePeer, Forgetting, TrackersOK
<1>3. CASE UNCHANGED tracker
  BY <1>3 DEF TrackersOK
<1>4. QED
  BY <1>1, <1>2, <1>3, TrackersStep DEF vars, tables

\* The rest of the state: discovery, relations, features and what they hold.
ModelOK ==
    /\ discovered \subseteq Recorded
    /\ bindings \subseteq Clients \X Servers
    /\ subscriptions \subseteq Clients \X (Servers \cup {NodeManagement})
    /\ present \in {{}, Servers}
    /\ owner \in [Servers -> Clients \cup {Nobody}]

LEMMA DatagramModel ==
    ASSUME PeersOK, ModelOK, NEW d \in Devices, NEW n \in Counters,
           \/ ReadArrives(d, n)
           \/ \E c \in Clients, s \in Servers \cup {NodeManagement} :
                \/ BindingCalled(d, n, c, s) \/ BindingReleased(d, n, c, s)
                \/ SubscriptionCalled(d, n, c, s) \/ SubscriptionReleased(d, n, c, s)
           \/ \E r \in References, b \in BOOLEAN :
                DataArrives(d, n, r, b) \/ ResultArrives(d, n, r, b)
    PROVE  ModelOK'
<1> USE DEF NoWrite, NoBinding, NoSubscription, BoundBut, SubscribedBut
<1>0. Admit(d, n)
  BY DEF ReadArrives, BindingCalled, BindingReleased, SubscriptionCalled,
     SubscriptionReleased, DataArrives, ResultArrives
<1>1. d \in Recorded' /\ Recorded \ Evicted(d) \subseteq Recorded' /\ present' = present
  BY <1>0, EnteredKeeps DEF Admit
<1>2. discovered' \subseteq (discovered \ Evicted(d)) \cup {d}
  BY DEF ReadArrives, BindingCalled, BindingReleased, SubscriptionCalled,
     SubscriptionReleased, DataArrives, ResultArrives, NoDiscovery
<1>3. discovered' \subseteq Recorded'
  BY <1>1, <1>2 DEF ModelOK
<1>4. owner' = owner
  BY DEF ReadArrives, BindingCalled, BindingReleased, SubscriptionCalled,
     SubscriptionReleased, DataArrives, ResultArrives
<1>5. bindings' \subseteq Clients \X Servers
  <2>1. ASSUME NEW c \in Clients, NEW s \in Servers \cup {NodeManagement},
               BindingCalled(d, n, c, s)
        PROVE  bindings' \subseteq Clients \X Servers
    BY <2>1, AddedRelations DEF BindingCalled, ModelOK
  <2>2. CASE bindings' \subseteq bindings
    BY <2>2 DEF ModelOK
  <2>3. QED
    BY <2>1, <2>2 DEF ReadArrives, BindingReleased, SubscriptionCalled,
       SubscriptionReleased, DataArrives, ResultArrives
<1>6. subscriptions' \subseteq Clients \X (Servers \cup {NodeManagement})
  <2>1. ASSUME NEW c \in Clients, NEW s \in Servers \cup {NodeManagement},
               SubscriptionCalled(d, n, c, s)
        PROVE  subscriptions' \subseteq Clients \X (Servers \cup {NodeManagement})
    BY <2>1, AddedRelations DEF SubscriptionCalled, ModelOK
  <2>2. CASE subscriptions' \subseteq subscriptions
    BY <2>2 DEF ModelOK
  <2>3. QED
    BY <2>1, <2>2 DEF ReadArrives, BindingCalled, BindingReleased,
       SubscriptionReleased, DataArrives, ResultArrives
<1>7. QED
  BY <1>1, <1>3, <1>4, <1>5, <1>6 DEF ModelOK

LEMMA ModelInductive ==
    ASSUME PeersOK, WritesInv, ModelOK, [Next]_vars
    PROVE  ModelOK'
<1> USE DEF BoundBut, SubscribedBut
<1>1. ASSUME UNCHANGED <<peers, discovered, bindings, subscriptions, present>>,
             owner' \in [Servers -> Clients \cup {Nobody}]
      PROVE  ModelOK'
  BY <1>1 DEF ModelOK, Recorded
<1>2. owner \in [Servers -> Clients \cup {Nobody}]
  BY DEF ModelOK
<1>3. CASE UNCHANGED vars
  BY <1>1, <1>2, <1>3 DEF vars, tables
<1>4. CASE \E d \in Devices, n \in Counters :
             \/ ReadArrives(d, n)
             \/ \E c \in Clients, s \in Servers \cup {NodeManagement} :
                  \/ BindingCalled(d, n, c, s) \/ BindingReleased(d, n, c, s)
                  \/ SubscriptionCalled(d, n, c, s) \/ SubscriptionReleased(d, n, c, s)
             \/ \E r \in References, b \in BOOLEAN :
                  DataArrives(d, n, r, b) \/ ResultArrives(d, n, r, b)
  BY <1>4, DatagramModel
<1>5. ASSUME NEW c \in Clients, NEW n \in Counters, NEW s \in Servers,
             NEW b \in BOOLEAN, WriteArrives(c, n, s, b)
      PROVE  ModelOK'
  <2>1. c.device \in Devices /\ peers' = Entered(c.device) /\ present' = present
    BY <1>5, EngineAssumption DEF WriteArrives, Admit
  <2>2. Recorded \ Evicted(c.device) \subseteq Recorded'
    BY <2>1, EnteredKeeps
  <2>3. discovered' = discovered \ Evicted(c.device)
        /\ bindings' \subseteq bindings /\ subscriptions' \subseteq subscriptions
    BY <1>5 DEF WriteArrives, NoDiscovery, NoBinding, NoSubscription
  <2>4. owner' = owner \/ owner' = [owner EXCEPT ![s] = c]
    BY <1>5 DEF WriteArrives, NoWrite
  <2>5. owner' \in [Servers -> Clients \cup {Nobody}]
    BY <1>2, <2>4
  <2>6. QED
    BY <2>1, <2>2, <2>3, <2>5 DEF ModelOK
<1>6. CASE \E kind \in RequestKinds, d \in Devices \cup {NoDevice} : Request(kind, d)
  BY <1>1, <1>2, <1>6 DEF Request
<1>7. ASSUME NEW w \in deferred, Reject(w) \/ \E b \in BOOLEAN : Accept(w, b)
      PROVE  ModelOK'
  <2>1. w.client \in Clients /\ w.server \in Servers
    BY EngineAssumption DEF WritesInv, DeferredWrite
  <2>2. owner' = owner \/ owner' = [owner EXCEPT ![w.server] = w.client]
    BY <1>7 DEF Reject, Accept
  <2>3. owner' \in [Servers -> Clients \cup {Nobody}]
    BY <1>2, <2>1, <2>2
  <2>4. QED
    BY <1>1, <1>7, <2>3 DEF Reject, Accept
<1>8. ASSUME NEW d \in Devices, RemovePeer(d) PROVE ModelOK'
  <2>1. Recorded \ {d} \subseteq Recorded'
    BY <1>8, RemovePeerKeeps
  <2>2. QED
    BY <1>8, <2>1 DEF RemovePeer, ModelOK
<1>9. CASE RemoveEntity
  <2>1. Recorded' = Recorded
    BY <1>9 DEF RemoveEntity, Recorded
  <2>2. QED
    BY <1>9, <2>1 DEF RemoveEntity, ModelOK
<1>10. CASE AddEntity
  <2>1. Recorded' = Recorded
    BY <1>10 DEF AddEntity, tables, Recorded
  <2>2. QED
    BY <1>10, <2>1 DEF AddEntity, tables, ModelOK
<1>11. CASE HandleTimeout \/ Tick
  BY <1>1, <1>2, <1>11 DEF HandleTimeout, Tick
<1>12. QED
  BY <1>3, <1>4, <1>5, <1>6, <1>7, <1>8, <1>9, <1>10, <1>11 DEF Next

\* The state has its types, and every table a peer or the application could
\* grow stays within its limit (send, handle_write, peer_entry, observe).
THEOREM EngineTypeCorrect == Spec => []TypeOK
<1> DEFINE Inv == RequestsInv /\ PendingBounded /\ WritesInv /\ TrackersOK /\ ModelOK
<1>1. Init => Inv
  <2> SUFFICES ASSUME Init PROVE Inv
    OBVIOUS
  <2>1. RequestsInv /\ WritesInv
    BY RequestsInitially, WritesInitially
  <2>2. PendingBounded
    BY FS_EmptySet, LimitsAssumption DEF Init, PendingBounded
  <2>3. TrackersOK
    BY DEF Init, TrackersOK, WindowedTracker, NewTracker, None
  <2>4. ModelOK
    BY DEF Init, ModelOK, Recorded
  <2>5. QED
    BY <2>1, <2>2, <2>3, <2>4
<1>2. Inv /\ [Next]_vars => Inv'
  BY RequestsInductive, BoundedInductive, WritesInductive, TrackersInductive,
     ModelInductive DEF RequestsInv
<1>3. Inv => TypeOK
  <2> SUFFICES ASSUME Inv PROVE TypeOK
    OBVIOUS
  <2>1. pending \subseteq Pending
    BY DEF RequestsInv, RequestOK
  <2>2. QED
    BY <2>1 DEF TypeOK, RequestsInv, PeersOK, PendingBounded, WritesInv,
         TrackersOK, WindowedTracker, ModelOK
<1>4. QED
  BY <1>1, <1>2, <1>3, PTL DEF Spec
=============================================================================
