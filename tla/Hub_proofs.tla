------------------------------ MODULE Hub_proofs ------------------------------
(***************************************************************************)
(* The hub's tables, for any number of peers, of connections and of        *)
(* handshakes, any limits and any delays: slots come back, and a double    *)
(* connection is always on the list that arbitrate works through.          *)
(***************************************************************************)
EXTENDS Hub, FiniteSetTheorems, FunctionTheorems, SequenceTheorems, TLAPS

-----------------------------------------------------------------------------
(* Keeping some entries of a sequence *)

Rank(S, i) == Cardinality({j \in S : j <= i})
Place(S, k) == CHOOSE i \in S : Rank(S, i) = k
Of(s, x) == {i \in DOMAIN s : s[i].kind = x}

\* Positions of a sequence are finite in number, and no more than it is long.
LEMMA PositionsAreFinite ==
    ASSUME NEW m \in Nat, NEW S \in SUBSET (1 .. m)
    PROVE  IsFiniteSet(S) /\ Cardinality(S) \in 0 .. m
<1>1. IsFiniteSet(1 .. m) /\ Cardinality(1 .. m) = m
    BY FS_Interval
<1>2. IsFiniteSet(S) /\ Cardinality(S) <= Cardinality(1 .. m)
    BY <1>1, FS_Subset
<1> QED BY <1>1, <1>2, FS_CardinalityType

\* A later position has a higher rank.
LEMMA RankRises ==
    ASSUME NEW m \in Nat, NEW S \in SUBSET (1 .. m), NEW i \in S, NEW j \in S, i < j
    PROVE  Rank(S, i) < Rank(S, j)
<1> DEFINE A == {k \in S : k <= i}
           B == {k \in S : k <= j}
<1>1. A \in SUBSET B /\ j \in B /\ j \notin A
  <2>1. i \in Int /\ j \in Int /\ ~(j <= i)
      OBVIOUS
  <2>2. ASSUME NEW k \in A PROVE k \in B
    <3>1. k \in Int /\ k \in S /\ k <= i
        OBVIOUS
    <3>2. k <= j
        BY <2>1, <3>1
    <3> QED BY <3>1, <3>2
  <2>3. j \in B /\ j \notin A
      BY <2>1
  <2>4. A \in SUBSET B
    <3> HIDE DEF A, B
    <3> QED BY <2>2
  <2> QED BY <2>3, <2>4
<1>2. B \in SUBSET (1 .. m)
    OBVIOUS
<1>3. IsFiniteSet(B) /\ Cardinality(B) \in 0 .. m
    BY <1>2, PositionsAreFinite
<1>4. IsFiniteSet(A) /\ Cardinality(A) <= Cardinality(B) /\ Cardinality(A) # Cardinality(B)
    BY <1>1, <1>3, FS_Subset
<1>5. Cardinality(A) \in Nat
    BY <1>4, FS_CardinalityType
<1> QED BY <1>3, <1>4, <1>5 DEF Rank

\* Ranks number the positions from one on, without a gap.
LEMMA RanksNumber ==
    ASSUME NEW m \in Nat, NEW S \in SUBSET (1 .. m)
    PROVE  /\ \A i \in S : Rank(S, i) \in 1 .. Cardinality(S)
           /\ \A i, j \in S : Rank(S, i) = Rank(S, j) => i = j
           /\ \A k \in 1 .. Cardinality(S) : \E i \in S : Rank(S, i) = k
<1> DEFINE n == Cardinality(S)
           f == [i \in S |-> Rank(S, i)]
<1>1. IsFiniteSet(S) /\ n \in 0 .. m
    BY PositionsAreFinite
<1>2. ASSUME NEW i \in S PROVE Rank(S, i) \in 1 .. n
  <2> DEFINE A == {j \in S : j <= i}
  <2>1. A \in SUBSET S /\ i \in A
      OBVIOUS
  <2>2. IsFiniteSet(A) /\ Cardinality(A) <= n
      BY <1>1, <2>1, FS_Subset
  <2>3. Cardinality(A) \in Nat
      BY <2>2, FS_CardinalityType
  <2>4. Cardinality(A) # 0
      BY <2>1, <2>2, FS_EmptySet
  <2> QED BY <1>1, <2>2, <2>3, <2>4 DEF Rank
<1>3. ASSUME NEW i \in S, NEW j \in S, Rank(S, i) = Rank(S, j) PROVE i = j
  <2>1. Rank(S, i) \in Nat
      BY <1>1, <1>2
  <2>2. i \in Int /\ j \in Int
      OBVIOUS
  <2>3. ASSUME i < j PROVE FALSE
    <3>1. Rank(S, i) < Rank(S, j)
        BY <2>3, RankRises
    <3> QED BY <1>3, <2>1, <3>1
  <2>4. ASSUME j < i PROVE FALSE
    <3>1. Rank(S, j) < Rank(S, i)
        BY <2>4, RankRises
    <3> QED BY <1>3, <2>1, <3>1
  <2> QED BY <2>2, <2>3, <2>4
<1>4. f \in [S -> 1 .. n]
    BY <1>2
<1>5. \A i, j \in S : f[i] = f[j] => i = j
    BY <1>3
<1>6. f \in Injection(S, 1 .. n)
    BY <1>4, <1>5, Fun_IsInj
<1>7. IsFiniteSet(1 .. n) /\ Cardinality(1 .. n) = n
    BY <1>1, FS_Interval
<1>8. f \in Surjection(S, 1 .. n)
  <2> HIDE DEF n, f
  <2> QED BY <1>6, <1>7, FS_Injection DEF n
<1>9. \A k \in 1 .. n : \E i \in S : f[i] = k
  <2> HIDE DEF n, f
  <2> QED BY <1>8, Fun_SurjectionProperties
<1> QED BY <1>2, <1>3, <1>9

\* The places of the entries kept are the positions asked for, each once.
LEMMA Places ==
    ASSUME NEW m \in Nat, NEW S \in SUBSET (1 .. m)
    PROVE  /\ \A k \in 1 .. Cardinality(S) : Place(S, k) \in S
           /\ \A k, l \in 1 .. Cardinality(S) : Place(S, k) = Place(S, l) => k = l
           /\ \A i \in S : \E k \in 1 .. Cardinality(S) : Place(S, k) = i
<1>1. \A k \in 1 .. Cardinality(S) : Place(S, k) \in S /\ Rank(S, Place(S, k)) = k
    BY ZenonT(30), RanksNumber DEF Place
<1>2. ASSUME NEW i \in S PROVE \E k \in 1 .. Cardinality(S) : Place(S, k) = i
  <2> DEFINE k == Rank(S, i)
  <2>1. k \in 1 .. Cardinality(S)
      BY RanksNumber
  <2>2. Place(S, k) \in S /\ Rank(S, Place(S, k)) = k
      BY <1>1, <2>1
  <2>3. Place(S, k) = i
      BY <2>2, RanksNumber
  <2> QED BY <2>1, <2>3
<1> QED BY <1>1, <1>2

\* What Kept returns: a sequence of the entries asked for, each once.
LEMMA KeptEntries ==
    ASSUME NEW T, NEW s \in Seq(T), NEW S \in SUBSET DOMAIN s
    PROVE  /\ Kept(s, S) \in Seq(T)
           /\ Len(Kept(s, S)) = Cardinality(S) /\ Cardinality(S) \in 0 .. Len(s)
           /\ DOMAIN Kept(s, S) = 1 .. Cardinality(S)
           /\ \A k \in DOMAIN Kept(s, S) : Place(S, k) \in S /\ Kept(s, S)[k] = s[Place(S, k)]
           /\ \A k, l \in DOMAIN Kept(s, S) : Place(S, k) = Place(S, l) => k = l
           /\ \A i \in S : \E k \in DOMAIN Kept(s, S) : Place(S, k) = i
<1> DEFINE n == Cardinality(S)
           r == [k \in 1 .. n |-> s[Place(S, k)]]
<1>1. Len(s) \in Nat /\ DOMAIN s = 1 .. Len(s) /\ \A i \in DOMAIN s : s[i] \in T
    OBVIOUS
<1>2. n \in 0 .. Len(s)
    BY <1>1, PositionsAreFinite
<1>3. Kept(s, S) = r
    BY DEF Kept, Place, Rank
<1>4. /\ \A k \in 1 .. n : Place(S, k) \in S
      /\ \A k, l \in 1 .. n : Place(S, k) = Place(S, l) => k = l
      /\ \A i \in S : \E k \in 1 .. n : Place(S, k) = i
    BY ZenonT(30), <1>1, Places
<1>5. r \in [1 .. n -> T]
    BY <1>1, <1>4
<1>6. r \in Seq(T) /\ Len(r) = n /\ DOMAIN r = 1 .. n
    BY <1>2, <1>5
<1> QED BY <1>2, <1>3, <1>4, <1>6

LEMMA KeptWhere ==
    ASSUME NEW T, NEW s, s \in Seq(T), NEW S, S \in SUBSET DOMAIN s, NEW r, r = Kept(s, S)
    PROVE  /\ r \in Seq(T) /\ Len(r) \in 0 .. Len(s)
           /\ \A i \in S : \E k \in DOMAIN r : r[k] = s[i]
<1>1. /\ r \in Seq(T) /\ Len(r) \in 0 .. Len(s)
      /\ \A k \in DOMAIN r : Place(S, k) \in S /\ r[k] = s[Place(S, k)]
      /\ \A i \in S : \E k \in DOMAIN r : Place(S, k) = i
    BY KeptEntries
<1> QED BY <1>1

\* As many entries of a kind are kept as there were among the positions asked for.
LEMMA KeptCount ==
    ASSUME NEW T, NEW s \in Seq(T), NEW S \in SUBSET DOMAIN s, NEW x
    PROVE  Cardinality(Of(Kept(s, S), x)) = Cardinality(Of(s, x) \cap S)
<1> DEFINE r == Kept(s, S)
           A == Of(r, x)
           B == Of(s, x) \cap S
           f == [k \in A |-> Place(S, k)]
<1>1. /\ \A k \in DOMAIN r : Place(S, k) \in S /\ r[k] = s[Place(S, k)]
      /\ \A k, l \in DOMAIN r : Place(S, k) = Place(S, l) => k = l
      /\ \A i \in S : \E k \in DOMAIN r : Place(S, k) = i
      /\ DOMAIN r = 1 .. Cardinality(S) /\ Cardinality(S) \in Nat
    BY KeptEntries
<1> HIDE DEF r
<1>2. f \in [A -> B]
    BY <1>1 DEF Of
<1>3. \A k, l \in A : f[k] = f[l] => k = l
    BY <1>1 DEF Of
<1>4. \A i \in B : \E k \in A : f[k] = i
    BY <1>1 DEF Of
<1>5. A \in SUBSET (1 .. Cardinality(S))
    BY <1>1 DEF Of
<1>6. IsFiniteSet(A)
    BY <1>1, <1>5, PositionsAreFinite
<1> HIDE DEF A, B, f
<1>7. f \in Bijection(A, B)
    BY <1>2, <1>3, <1>4, Fun_IsBij
<1>8. ExistsBijection(A, B)
    BY <1>7 DEF ExistsBijection
<1>9. Cardinality(B) = Cardinality(A)
    BY <1>6, <1>8, FS_Bijection
<1> QED BY <1>9 DEF A, B, r

-----------------------------------------------------------------------------
(* The inductive invariant *)

Link == [ski : Peers, kind : Kinds, device : Devices \cup {None}, reads : 0 .. 2,
         quiet : Times, pinged : Times, waited : Off .. PONG_TIMEOUT]
Double == [ski : Peers, probed : BOOLEAN, left : Times]
Remembered == [attempts : 0 .. MaxAttempts, wait : Times, dialing : BOOLEAN, found : BOOLEAN]
Happenings == {"Connected", "Disconnected", "HandshakeFailed", "TrustRequested",
               "PeerDiscovered", "Tick", "Found", "Lost"}
Event == [event : Happenings, ski : Skis \cup {None}]
Addresses == Skis \cup Ports
Waiting == [origin : Kinds \X Addresses, ski : Skis]

Hubs == [links : Seq(Link), inFlight : [Kinds -> Nat], awaiting : SUBSET Waiting,
         known : [Skis -> Remembered], sightings : Seq(Skis), duplicates : Seq(Double),
         wake : Times, pending : Seq(Event), engine : SUBSET Devices, writing : Nat,
         ownInstance : BOOLEAN]

\* A handshake that has not met its peer has none; one that asks about it, or waits for
\* or has its trust, has.
Handshake ==
    {task \in [kind : Kinds, from : Addresses, expected : Skis \cup {None},
               peer : Skis \cup {None}, asked : {"no", "sent", "handled"},
               phase : Phases, woken : BOOLEAN] :
        /\ task.phase = "open" => task.peer = None /\ task.asked = "no"
        /\ task.phase \in {"pending", "trusted", "ok"} \/ task.asked = "sent" =>
             task.peer \in Skis}

\* Two connections to one peer are on the list; no two links have one device.
Watch(h) ==
    /\ \A i, j \in DOMAIN h.links : i # j /\ h.links[i].ski = h.links[j].ski =>
         \E d \in DOMAIN h.duplicates : h.duplicates[d].ski = h.links[i].ski
    /\ \A i \in DOMAIN h.links : h.links[i].device # Own
    /\ \A i, j \in DOMAIN h.links :
         i # j /\ h.links[i].device = h.links[j].device => h.links[i].device = None

\* The links and what hangs on them.
Table(h, w) ==
    h \in Hubs /\ Len(h.links) <= w.max /\ Len(h.sightings) <= MAX_SIGHTINGS /\ Watch(h)

\* The counters, the pairing table and the marks of a peer being dialled, against the
\* handshakes that run.
Counts(h, ts, w) ==
    \A k \in Kinds : /\ h.inFlight[k] = Cardinality({t \in DOMAIN ts : ts[t].kind = k})
                     /\ h.inFlight[k] <= w.max
Pairings(h, ts) ==
    /\ \A v \in h.awaiting : \E t \in DOMAIN ts : Origin(ts[t]) = v.origin /\ ts[t].peer = v.ski
    /\ \A v, u \in h.awaiting : v.ski = u.ski => v = u
Dialings(h, ts) ==
    \A p \in Skis : h.known[p].dialing => \E t \in DOMAIN ts : ts[t].expected = p

Slots(h, ts, w) ==
    ts \in Seq(Handshake) /\ Counts(h, ts, w) /\ Pairings(h, ts) /\ Dialings(h, ts)

HubInvariant ==
    /\ world \in Worlds
    /\ at \in {"top", "arbitrate", "timers", "wait"}
    /\ Table(hub, world)
    /\ Slots(hub, tasks, world)

-----------------------------------------------------------------------------
(* What leaves one half of the hub alone keeps that half of the invariant *)

SameBook(h, g) ==
    g.inFlight = h.inFlight /\ g.awaiting = h.awaiting /\ g.known = h.known
SameTable(h, g) ==
    g.links = h.links /\ g.duplicates = h.duplicates /\ g.sightings = h.sightings

LEMMA SlotsStay ==
    ASSUME NEW h, NEW g, NEW ts, NEW w, Slots(h, ts, w), SameBook(h, g)
    PROVE  Slots(g, ts, w)
BY DEF Slots, Counts, Pairings, Dialings, SameBook

LEMMA TableStays ==
    ASSUME NEW h, NEW g \in Hubs, NEW w, Table(h, w), SameTable(h, g)
    PROVE  Table(g, w)
BY DEF Table, Watch, SameTable

\* An event changes nothing but the queue of events.
LEMMA Emitting ==
    ASSUME NEW h \in Hubs, NEW e \in Happenings, NEW ski \in Skis \cup {None}
    PROVE  /\ Emit(h, e, ski) \in Hubs
           /\ SameBook(h, Emit(h, e, ski)) /\ SameTable(h, Emit(h, e, ski))
<1>1. Append(h.pending, [event |-> e, ski |-> ski]) \in Seq(Event)
    BY DEF Hubs, Event
<1> QED BY <1>1 DEF Emit, Hubs, SameBook, SameTable

LEMMA EmittingKeeps ==
    ASSUME NEW h, NEW w, Table(h, w), NEW e \in Happenings, NEW ski \in Skis \cup {None}
    PROVE  /\ Table(Emit(h, e, ski), w) /\ SameBook(h, Emit(h, e, ski))
           /\ Emit(h, e, ski).links = h.links
<1>1. h \in Hubs
    BY DEF Table
<1>2. /\ Emit(h, e, ski) \in Hubs
      /\ SameBook(h, Emit(h, e, ski)) /\ SameTable(h, Emit(h, e, ski))
    BY <1>1, Emitting
<1> QED BY <1>2, TableStays DEF SameTable

LEMMA SameBookTrans ==
    ASSUME NEW h, NEW g, NEW k, SameBook(h, g), SameBook(g, k)
    PROVE  SameBook(h, k)
BY DEF SameBook

LEMMA Waking ==
    ASSUME NEW h, NEW w, Table(h, w), NEW t \in Times
    PROVE  Table(WakeAt(h, t), w) /\ SameBook(h, WakeAt(h, t))
<1>1. h \in Hubs /\ h.wake \in Times
    BY DEF Table, Hubs
<1>2. WakeAt(h, t) \in Hubs
    BY <1>1 DEF WakeAt, Hubs
<1>3. SameTable(h, WakeAt(h, t)) /\ SameBook(h, WakeAt(h, t))
    BY <1>1 DEF WakeAt, Hubs, SameTable, SameBook
<1> QED BY <1>2, <1>3, TableStays

-----------------------------------------------------------------------------
(* Ends of links *)

\* Two links to one peer are what a count above one means.
LEMMA TwoLinks ==
    ASSUME NEW h \in Hubs, NEW p
    PROVE  /\ Cardinality(LinksTo(h, p)) \in Nat
           /\ Cardinality(LinksTo(h, p)) > 1 <=>
                \E i, j \in DOMAIN h.links : i # j /\ h.links[i].ski = p /\ h.links[j].ski = p
<1> DEFINE S == LinksTo(h, p)
<1>1. h.links \in Seq(Link) /\ S \in SUBSET DOMAIN h.links
    BY DEF Hubs, LinksTo
<1>2. Len(h.links) \in Nat /\ DOMAIN h.links = 1 .. Len(h.links)
    BY <1>1
<1>3. IsFiniteSet(S) /\ Cardinality(S) \in Nat
    BY <1>1, <1>2, PositionsAreFinite
<1> HIDE DEF S
<1>4. (\E i, j \in S : i # j) => Cardinality(S) # 0 /\ Cardinality(S) # 1
    BY <1>3, FS_EmptySet, FS_Singleton
<1>5. Cardinality(S) # 0 => \E i \in S : TRUE
    BY <1>3, FS_EmptySet
<1>6. Cardinality(S) # 0 /\ Cardinality(S) # 1 => \E i, j \in S : i # j
  <2> SUFFICES ASSUME Cardinality(S) # 0, Cardinality(S) # 1
               PROVE  \E i, j \in S : i # j
      OBVIOUS
  <2>1. PICK i \in S : TRUE
      BY <1>5
  <2>2. S # {i}
      BY <1>3, FS_Singleton
  <2> QED BY <2>1, <2>2
<1>7. Cardinality(S) > 1 <=> Cardinality(S) # 0 /\ Cardinality(S) # 1
    BY <1>3
<1>8. Cardinality(S) > 1 <=> \E i, j \in S : i # j
    BY <1>4, <1>6, <1>7
<1> QED BY <1>3, <1>8 DEF S, LinksTo

\* With fewer links, the list must only go on holding the peers with two of those left.
LEMMA FewerLinks ==
    ASSUME NEW h, NEW w, Table(h, w), w.max \in Nat, NEW S \in SUBSET DOMAIN h.links,
           NEW g \in Hubs,
           g.links = Kept(h.links, S), g.sightings = h.sightings,
           \A i, j \in S : i # j /\ h.links[i].ski = h.links[j].ski =>
             \E d \in DOMAIN g.duplicates : g.duplicates[d].ski = h.links[i].ski
    PROVE  Table(g, w)
<1>1. h.links \in Seq(Link) /\ Len(h.links) <= w.max /\ Len(h.links) \in Nat
    BY DEF Table, Hubs
<1>2. /\ Len(g.links) \in 0 .. Len(h.links)
      /\ \A k \in DOMAIN g.links : Place(S, k) \in S /\ g.links[k] = h.links[Place(S, k)]
      /\ \A k, l \in DOMAIN g.links : Place(S, k) = Place(S, l) => k = l
    BY <1>1, KeptEntries
<1>3. Len(g.links) <= w.max
    BY <1>1, <1>2
<1>4. ASSUME NEW k \in DOMAIN g.links, NEW l \in DOMAIN g.links, k # l,
             g.links[k].ski = g.links[l].ski
      PROVE  \E d \in DOMAIN g.duplicates : g.duplicates[d].ski = g.links[k].ski
  <2> DEFINE i == Place(S, k)
             j == Place(S, l)
  <2>1. i \in S /\ j \in S /\ i # j /\ g.links[k] = h.links[i] /\ g.links[l] = h.links[j]
      BY <1>2, <1>4
  <2> HIDE DEF i, j
  <2> QED BY <1>4, <2>1
<1>5. ASSUME NEW k \in DOMAIN g.links PROVE g.links[k].device # Own
    BY <1>2 DEF Table, Watch
<1>6. ASSUME NEW k \in DOMAIN g.links, NEW l \in DOMAIN g.links, k # l,
             g.links[k].device = g.links[l].device
      PROVE  g.links[k].device = None
  <2> DEFINE i == Place(S, k)
             j == Place(S, l)
  <2>1. i \in DOMAIN h.links /\ j \in DOMAIN h.links /\ i # j
        /\ g.links[k] = h.links[i] /\ g.links[l] = h.links[j]
      BY <1>2, <1>6
  <2> HIDE DEF i, j
  <2> QED BY <1>6, <2>1 DEF Table, Watch
<1>7. Watch(g)
    BY <1>4, <1>5, <1>6 DEF Watch
<1> QED BY <1>3, <1>7 DEF Table

\* The list loses one peer and nobody else.
LEMMA Forgetting ==
    ASSUME NEW h \in Hubs, NEW ski
    PROVE  /\ Forget(h, ski) \in Hubs
           /\ SameBook(h, Forget(h, ski))
           /\ Forget(h, ski).links = h.links /\ Forget(h, ski).sightings = h.sightings
           /\ \A d \in DOMAIN h.duplicates : h.duplicates[d].ski # ski =>
                \E e \in DOMAIN Forget(h, ski).duplicates :
                   Forget(h, ski).duplicates[e].ski = h.duplicates[d].ski
<1> DEFINE S == {i \in DOMAIN h.duplicates : h.duplicates[i].ski # ski}
           r == Kept(h.duplicates, S)
<1>1. h.duplicates \in Seq(Double) /\ S \in SUBSET DOMAIN h.duplicates
    BY DEF Hubs
<1>2. r \in Seq(Double) /\ \A i \in S : \E k \in DOMAIN r : r[k] = h.duplicates[i]
  <2> DEFINE s == h.duplicates
             q == r
  <2>1. s \in Seq(Double) /\ S \in SUBSET DOMAIN s /\ q = Kept(s, S)
      BY <1>1
  <2> HIDE DEF s, q, S
  <2>2. q \in Seq(Double) /\ \A i \in S : \E k \in DOMAIN q : q[k] = s[i]
      BY <2>1, KeptWhere
  <2> QED BY <2>2 DEF q, s
<1>3. Forget(h, ski) = [h EXCEPT !.duplicates = r]
    BY DEF Forget
<1>4. ASSUME NEW d \in DOMAIN h.duplicates, h.duplicates[d].ski # ski
      PROVE  \E e \in DOMAIN r : r[e].ski = h.duplicates[d].ski
  <2>1. d \in S
      BY <1>4
  <2> QED BY <1>2, <2>1
<1> HIDE DEF r
<1>5. Forget(h, ski).duplicates = r
    BY <1>3 DEF Hubs
<1>6. Forget(h, ski) \in Hubs
    BY <1>2, <1>3 DEF Hubs
<1>7. SameBook(h, Forget(h, ski))
    BY <1>3 DEF Hubs, SameBook
<1>8. Forget(h, ski).links = h.links /\ Forget(h, ski).sightings = h.sightings
    BY <1>3 DEF Hubs
<1> QED BY <1>4, <1>5, <1>6, <1>7, <1>8

\* A peer with at most one link may leave the list.
LEMMA ForgettingKeeps ==
    ASSUME NEW h, NEW w, Table(h, w), NEW ski,
           \A i, j \in LinksTo(h, ski) : i = j
    PROVE  Table(Forget(h, ski), w) /\ SameBook(h, Forget(h, ski))
<1> DEFINE g == Forget(h, ski)
<1>1. h \in Hubs
    BY DEF Table
<1>2. /\ g \in Hubs /\ SameBook(h, g) /\ g.links = h.links /\ g.sightings = h.sightings
      /\ \A d \in DOMAIN h.duplicates : h.duplicates[d].ski # ski =>
           \E e \in DOMAIN g.duplicates : g.duplicates[e].ski = h.duplicates[d].ski
    BY <1>1, Forgetting
<1> HIDE DEF g
<1>3. ASSUME NEW i \in DOMAIN g.links, NEW j \in DOMAIN g.links, i # j,
             g.links[i].ski = g.links[j].ski
      PROVE  \E d \in DOMAIN g.duplicates : g.duplicates[d].ski = g.links[i].ski
  <2>1. g.links[i].ski # ski
      BY <1>2, <1>3 DEF LinksTo
  <2>2. PICK d \in DOMAIN h.duplicates : h.duplicates[d].ski = h.links[i].ski
      BY <1>2, <1>3 DEF Table, Watch
  <2> QED BY <1>2, <2>1, <2>2
<1>4. Watch(g)
    BY <1>2, <1>3 DEF Table, Watch
<1>5. Table(g, w)
    BY <1>2, <1>4 DEF Table
<1> QED BY <1>2, <1>5 DEF g

\* What forget_peer_state leaves: the list loses only peers whose links are all doomed.
LEMMA ForgettingStates ==
    ASSUME NEW h \in Hubs, NEW doomed \in SUBSET DOMAIN h.links
    PROVE  LET g == ForgetPeerStates(h, doomed)
           IN  /\ g \in Hubs /\ SameBook(h, g) /\ g.pending = h.pending
               /\ g.links = h.links /\ g.sightings = h.sightings
               /\ \A d \in DOMAIN h.duplicates, i \in DOMAIN h.links \ doomed :
                    h.duplicates[d].ski = h.links[i].ski =>
                      \E e \in DOMAIN g.duplicates : g.duplicates[e].ski = h.links[i].ski
<1> DEFINE left == DOMAIN h.links \ doomed
           alone == {h.links[i].ski : i \in doomed} \ {h.links[i].ski : i \in left}
           E == {h.links[i].device : i \in doomed}
           S == {i \in DOMAIN h.duplicates : h.duplicates[i].ski \notin alone}
           r == Kept(h.duplicates, S)
           g == ForgetPeerStates(h, doomed)
<1>0. g = [h EXCEPT !.engine = h.engine \ E, !.duplicates = r]
    BY DEF ForgetPeerStates, Hubs
<1>1. h.duplicates \in Seq(Double) /\ S \in SUBSET DOMAIN h.duplicates
    BY DEF Hubs
<1>2. r \in Seq(Double) /\ \A i \in S : \E k \in DOMAIN r : r[k] = h.duplicates[i]
  <2> DEFINE s == h.duplicates
             q == r
  <2>1. s \in Seq(Double) /\ S \in SUBSET DOMAIN s /\ q = Kept(s, S)
      BY <1>1
  <2> HIDE DEF s, q, S
  <2>2. q \in Seq(Double) /\ \A i \in S : \E k \in DOMAIN q : q[k] = s[i]
      BY <2>1, KeptWhere
  <2> QED BY <2>2 DEF q, s
<1>3. ASSUME NEW d \in DOMAIN h.duplicates, NEW i \in left, h.duplicates[d].ski = h.links[i].ski
      PROVE  \E e \in DOMAIN r : r[e].ski = h.links[i].ski
  <2>1. h.duplicates[d].ski \notin alone
      BY <1>3
  <2>2. d \in S
      BY <2>1
  <2>3. PICK k \in DOMAIN r : r[k] = h.duplicates[d]
      BY <1>2, <2>2
  <2> QED BY <1>3, <2>3
<1>4. h.engine \ E \in SUBSET Devices
    BY DEF Hubs
<1> HIDE DEF r, E, g
<1>5. g \in Hubs
    BY <1>0, <1>2, <1>4 DEF Hubs
<1>6. g.duplicates = r /\ g.links = h.links /\ g.sightings = h.sightings /\ g.pending = h.pending
    BY <1>0 DEF Hubs
<1>7. SameBook(h, g)
    BY <1>0 DEF Hubs, SameBook
<1>8. \A d \in DOMAIN h.duplicates, i \in left : h.duplicates[d].ski = h.links[i].ski =>
        \E e \in DOMAIN g.duplicates : g.duplicates[e].ski = h.links[i].ski
    BY <1>3, <1>6
<1> QED BY <1>5, <1>6, <1>7, <1>8 DEF g

\* Dropping links keeps the invariant.
LEMMA Dropping ==
    ASSUME NEW h, NEW w, Table(h, w), w.max \in Nat, NEW doomed \in SUBSET DOMAIN h.links
    PROVE  Table(DropLinks(h, doomed), w) /\ SameBook(h, DropLinks(h, doomed))
<1> DEFINE gone == Kept(h.links, doomed)
           told == [k \in 1 .. Len(gone) |->
                      [event |-> "Disconnected", ski |-> gone[Len(gone) + 1 - k].ski]]
           f == ForgetPeerStates(h, doomed)
           S == DOMAIN h.links \ doomed
           g == [f EXCEPT !.links = Kept(f.links, DOMAIN f.links \ doomed),
                          !.pending = f.pending \o told]
<1>0. h \in Hubs
    BY DEF Table
<1>a. CASE doomed = {}
  <2>1. DropLinks(h, doomed) = h
      BY <1>a DEF DropLinks
  <2> QED BY <2>1 DEF SameBook
<1>b. CASE doomed # {}
  <2>1. DropLinks(h, doomed) = g
      BY <1>b DEF DropLinks
  <2>2. /\ f \in Hubs /\ SameBook(h, f) /\ f.pending = h.pending
        /\ f.links = h.links /\ f.sightings = h.sightings
        /\ \A d \in DOMAIN h.duplicates, i \in S : h.duplicates[d].ski = h.links[i].ski =>
             \E e \in DOMAIN f.duplicates : f.duplicates[e].ski = h.links[i].ski
      BY <1>0, ForgettingStates
  <2>3. h.links \in Seq(Link) /\ h.pending \in Seq(Event)
      BY <1>0 DEF Hubs
  <2>4. gone \in Seq(Link)
      BY <2>3, KeptEntries
  <2>5. told \in Seq(Event)
    <3> HIDE DEF gone
    <3>1. Len(gone) \in Nat /\ \A k \in 1 .. Len(gone) : gone[k] \in Link
        BY <2>4
    <3>2. \A k \in 1 .. Len(gone) : Len(gone) + 1 - k \in 1 .. Len(gone)
        BY <3>1
    <3>3. \A k \in 1 .. Len(gone) : gone[k].ski \in Skis
        BY <3>1 DEF Link, Skis
    <3>a. \A k \in 1 .. Len(gone) : gone[Len(gone) + 1 - k].ski \in Skis
        BY <3>2, <3>3
    <3>b. \A s \in Skis : [event |-> "Disconnected", ski |-> s] \in Event
        BY DEF Event, Happenings
    <3>4. \A k \in 1 .. Len(gone) :
            [event |-> "Disconnected", ski |-> gone[Len(gone) + 1 - k].ski] \in Event
        BY <3>a, <3>b
    <3>5. told \in [1 .. Len(gone) -> Event]
        BY <3>4
    <3> HIDE DEF told
    <3> QED BY <3>1, <3>5
  <2>6. Kept(h.links, S) \in Seq(Link)
      BY <2>3, KeptEntries
  <2> HIDE DEF told, f
  <2>7. f.pending \o told \in Seq(Event)
      BY <2>2, <2>3, <2>5
  <2>8. g = [f EXCEPT !.links = Kept(h.links, S), !.pending = f.pending \o told]
      BY <2>2
  <2> HIDE DEF g
  <2>9. g \in Hubs
      BY <2>2, <2>6, <2>7, <2>8 DEF Hubs
  <2>10. g.links = Kept(h.links, S) /\ g.sightings = h.sightings /\ g.duplicates = f.duplicates
      BY <2>2, <2>8 DEF Hubs
  <2>11. SameBook(h, g)
      BY <2>2, <2>8 DEF Hubs, SameBook
  <2>12. ASSUME NEW i \in S, NEW j \in S, i # j, h.links[i].ski = h.links[j].ski
         PROVE  \E d \in DOMAIN g.duplicates : g.duplicates[d].ski = h.links[i].ski
    <3>1. PICK d \in DOMAIN h.duplicates : h.duplicates[d].ski = h.links[i].ski
        BY <2>12 DEF Table, Watch
    <3> QED BY <2>2, <2>10, <3>1
  <2>13. Table(g, w)
      BY <2>9, <2>10, <2>12, FewerLinks
  <2> QED BY <2>1, <2>11, <2>13
<1> QED BY <1>a, <1>b

\* The newest connection stays alone.
LEMMA ClosingDuplicates ==
    ASSUME NEW h, NEW w, Table(h, w), w.max \in Nat, NEW ski
    PROVE  Table(CloseDuplicates(h, ski), w) /\ SameBook(h, CloseDuplicates(h, ski))
<1> DEFINE mine == LinksTo(h, ski)
           doomed == {i \in mine : \E j \in mine : j > i}
           others == {i \in DOMAIN h.pending : \/ h.pending[i].event # "Disconnected"
                                               \/ h.pending[i].ski # ski}
           S == DOMAIN h.links \ doomed
           told == IF mine = {} THEN h.pending ELSE Kept(h.pending, others)
           f == [h EXCEPT !.links = Kept(h.links, S), !.pending = told]
<1>1. h \in Hubs /\ h.links \in Seq(Link) /\ h.pending \in Seq(Event)
    BY DEF Table, Hubs
<1>2. CloseDuplicates(h, ski) = Forget(f, ski)
    BY DEF CloseDuplicates
<1>3. Kept(h.links, S) \in Seq(Link)
  <2>1. S \in SUBSET DOMAIN h.links
      OBVIOUS
  <2> HIDE DEF S
  <2> QED BY <1>1, <2>1, KeptEntries
<1>4. told \in Seq(Event)
  <2>1. others \in SUBSET DOMAIN h.pending
      OBVIOUS
  <2> HIDE DEF others
  <2>2. Kept(h.pending, others) \in Seq(Event)
      BY <1>1, <2>1, KeptEntries
  <2> QED BY <1>1, <2>2
<1> HIDE DEF told
<1>5. /\ f \in Hubs /\ f.links = Kept(h.links, S) /\ f.duplicates = h.duplicates
      /\ f.sightings = h.sightings /\ SameBook(h, f)
  <2> HIDE DEF S
  <2>1. f \in Hubs
      BY <1>1, <1>3, <1>4 DEF Hubs
  <2>2. f.links = Kept(h.links, S) /\ f.duplicates = h.duplicates /\ f.sightings = h.sightings
      BY <1>1 DEF Hubs
  <2>3. SameBook(h, f)
      BY <1>1 DEF Hubs, SameBook
  <2> QED BY <2>1, <2>2, <2>3
<1>6. \A i \in mine : i \in Int
    BY <1>1 DEF LinksTo
<1>7. \A i, j \in S : i \in mine /\ j \in mine => i = j
  <2> SUFFICES ASSUME NEW i \in S, NEW j \in S, i \in mine, j \in mine
               PROVE  i = j
      OBVIOUS
  <2>1. ~(j > i) /\ ~(i > j)
      OBVIOUS
  <2> QED BY <1>6, <2>1
<1> HIDE DEF f
<1>8. Table(f, w)
  <2>1. S \in SUBSET DOMAIN h.links
      OBVIOUS
  <2>2. \A i, j \in S : i # j /\ h.links[i].ski = h.links[j].ski =>
          \E d \in DOMAIN f.duplicates : f.duplicates[d].ski = h.links[i].ski
      BY <1>5 DEF Table, Watch
  <2> HIDE DEF S
  <2> QED BY <1>5, <2>1, <2>2, FewerLinks
<1>9. \A k, l \in LinksTo(f, ski) : k = l
  <2> SUFFICES ASSUME NEW k \in LinksTo(f, ski), NEW l \in LinksTo(f, ski) PROVE k = l
      OBVIOUS
  <2>0. S \in SUBSET DOMAIN h.links
      OBVIOUS
  <2>a. mine = {i \in DOMAIN h.links : h.links[i].ski = ski}
      BY DEF LinksTo
  <2> HIDE DEF S, mine
  <2>1. /\ k \in DOMAIN f.links /\ l \in DOMAIN f.links
        /\ f.links[k].ski = ski /\ f.links[l].ski = ski
      BY DEF LinksTo
  <2>2. /\ Place(S, k) \in S /\ f.links[k] = h.links[Place(S, k)]
        /\ Place(S, l) \in S /\ f.links[l] = h.links[Place(S, l)]
        /\ Place(S, k) = Place(S, l) => k = l
      BY <1>1, <1>5, <2>0, <2>1, KeptEntries
  <2>3. Place(S, k) \in mine /\ Place(S, l) \in mine
      BY <2>0, <2>a, <2>1, <2>2
  <2> QED BY <1>7, <2>2, <2>3
<1>10. Table(Forget(f, ski), w) /\ SameBook(f, Forget(f, ski))
    BY <1>8, <1>9, ForgettingKeeps
<1> QED BY <1>2, <1>5, <1>10, SameBookTrans

\* Time that passes over links and doubles, pings and pongs, change neither who they are
\* with nor what device they have.
LEMMA Retiming ==
    ASSUME NEW h, NEW w, Table(h, w), NEW g \in Hubs,
           Len(g.links) = Len(h.links), DOMAIN g.links = DOMAIN h.links,
           \A i \in DOMAIN h.links : /\ g.links[i].ski = h.links[i].ski
                                     /\ g.links[i].device = h.links[i].device,
           DOMAIN g.duplicates = DOMAIN h.duplicates,
           \A i \in DOMAIN h.duplicates : g.duplicates[i].ski = h.duplicates[i].ski,
           g.sightings = h.sightings
    PROVE  Table(g, w)
<1>1. Watch(g)
    BY DEF Table, Watch
<1> QED BY <1>1 DEF Table

\* A sequence updated place by place.
LEMMA PlaceByPlace ==
    ASSUME NEW T, NEW s \in Seq(T), NEW r, r = [i \in DOMAIN s |-> r[i]],
           \A i \in DOMAIN s : r[i] \in T
    PROVE  r \in Seq(T) /\ Len(r) = Len(s) /\ DOMAIN r = DOMAIN s
<1>1. Len(s) \in Nat /\ DOMAIN s = 1 .. Len(s)
    OBVIOUS
<1>2. r \in [1 .. Len(s) -> T]
    BY <1>1
<1> QED BY <1>1, <1>2

LEMMA Relinking ==
    ASSUME NEW h, NEW w, Table(h, w), NEW ls, ls = [i \in DOMAIN h.links |-> ls[i]],
           \A i \in DOMAIN h.links : /\ ls[i] \in Link
                                     /\ ls[i].ski = h.links[i].ski
                                     /\ ls[i].device = h.links[i].device,
           NEW g, g = [h EXCEPT !.links = ls]
    PROVE  Table(g, w) /\ SameBook(h, g) /\ g.links = ls /\ DOMAIN g.links = DOMAIN h.links
<1>1. h \in Hubs /\ h.links \in Seq(Link)
    BY DEF Table, Hubs
<1>2. ls \in Seq(Link) /\ Len(ls) = Len(h.links) /\ DOMAIN ls = DOMAIN h.links
    BY <1>1, PlaceByPlace
<1>3. g \in Hubs
    BY <1>1, <1>2 DEF Hubs
<1>4. g.links = ls /\ g.duplicates = h.duplicates /\ g.sightings = h.sightings
    BY <1>1 DEF Hubs
<1>5. SameBook(h, g)
    BY <1>1 DEF Hubs, SameBook
<1>6. Table(g, w)
    BY ZenonT(30), <1>2, <1>3, <1>4, Retiming
<1> QED BY <1>2, <1>4, <1>5, <1>6

\* What the keep-alive does to one link.
LEMMA Alive ==
    ASSUME world \in Worlds, NEW l \in Link
    PROVE  /\ Keepalive(l) \in Link
           /\ Keepalive(l).ski = l.ski /\ Keepalive(l).device = l.device
<1>1. world.keepalive \in Times /\ Off \in Times
    BY WorldsAssumption, LimitsAssumption DEF Times, Off
<1>2. CASE l.pinged # Off /\ l.waited = Off
  <2>1. Keepalive(l) = [l EXCEPT !.pinged = Off, !.quiet = world.keepalive]
      BY <1>2 DEF Keepalive
  <2> QED BY <1>1, <2>1 DEF Link
<1>3. CASE ~(l.pinged # Off /\ l.waited = Off)
  <2>1. Keepalive(l) = l
      BY <1>3 DEF Keepalive
  <2> QED BY <2>1
<1> QED BY <1>2, <1>3

LEMMA LinkTyped ==
    ASSUME NEW h \in Hubs
    PROVE  \A i \in DOMAIN h.links : h.links[i] \in Link
<1>1. h.links \in Seq(Link)
    BY DEF Hubs
<1> QED BY <1>1

LEMMA Firing ==
    ASSUME NEW h, world \in Worlds, Table(h, world)
    PROVE  Table(FireTimers(h), world) /\ SameBook(h, FireTimers(h))
<1> DEFINE ls == [i \in DOMAIN h.links |-> Keepalive(h.links[i])]
           checked == [h EXCEPT !.links = ls]
           dead == {i \in DOMAIN h.links : Dead(h.links[i])}
           after == DropLinks(checked, dead)
<1>1. h \in Hubs /\ world.max \in Nat
    BY WorldsAssumption DEF Table
<1>2. \A i \in DOMAIN h.links : /\ ls[i] \in Link
                                /\ ls[i].ski = h.links[i].ski
                                /\ ls[i].device = h.links[i].device
    BY <1>1, LinkTyped, Alive
<1>3. ls = [i \in DOMAIN h.links |-> ls[i]] /\ checked = [h EXCEPT !.links = ls]
    OBVIOUS
<1>4. Table(checked, world) /\ SameBook(h, checked) /\ DOMAIN checked.links = DOMAIN h.links
  <2> HIDE DEF ls, checked
  <2> QED BY <1>2, <1>3, Relinking
<1>5. dead \in SUBSET DOMAIN checked.links
    BY <1>4
<1>6. FireTimers(h) = IF after.wake = 0 THEN Emit([after EXCEPT !.wake = Off], "Tick", None)
                      ELSE after
    BY DEF FireTimers
<1> HIDE DEF checked, dead
<1>7. Table(after, world) /\ SameBook(checked, after)
    BY <1>1, <1>4, <1>5, Dropping
<1> HIDE DEF after
<1>8. SameBook(h, after)
    BY <1>4, <1>7, SameBookTrans
<1> DEFINE woken == [after EXCEPT !.wake = Off]
<1>9. Table(woken, world) /\ SameBook(after, woken)
  <2>1. after \in Hubs /\ Off \in Times
      BY <1>7, LimitsAssumption DEF Table, Times, Off
  <2>2. woken \in Hubs /\ SameTable(after, woken) /\ SameBook(after, woken)
      BY <2>1 DEF Hubs, SameTable, SameBook
  <2> QED BY <1>7, <2>2, TableStays
<1> HIDE DEF woken
<1>10. Table(Emit(woken, "Tick", None), world) /\ SameBook(woken, Emit(woken, "Tick", None))
    BY <1>9, EmittingKeeps DEF Happenings
<1>11. SameBook(h, Emit(woken, "Tick", None))
    BY <1>8, <1>9, <1>10, SameBookTrans
<1> QED BY <1>6, <1>7, <1>8, <1>10, <1>11 DEF woken

LEMMA Pinging ==
    ASSUME NEW h, world \in Worlds, Table(h, world), NEW failed \in SUBSET ToPing(h)
    PROVE  Table(Pinged(h, failed), world) /\ SameBook(h, Pinged(h, failed))
<1> DEFINE ls == [i \in DOMAIN h.links |->
                    IF i \in ToPing(h) \ failed
                    THEN [h.links[i] EXCEPT !.pinged = PONG_TIMEOUT, !.waited = 0]
                    ELSE h.links[i]]
           asked == [h EXCEPT !.links = ls]
<1>1. h \in Hubs /\ world.max \in Nat
    BY WorldsAssumption DEF Table
<1>2. PONG_TIMEOUT \in Times /\ 0 \in Off .. PONG_TIMEOUT
    BY LimitsAssumption DEF Times, Off
<1>3. ASSUME NEW i \in DOMAIN h.links
      PROVE  /\ ls[i] \in Link
             /\ ls[i].ski = h.links[i].ski
             /\ ls[i].device = h.links[i].device
  <2>1. h.links[i] \in Link
      BY <1>1, LinkTyped
  <2> DEFINE l == h.links[i]
  <2>2. /\ [l EXCEPT !.pinged = PONG_TIMEOUT, !.waited = 0] \in Link
        /\ [l EXCEPT !.pinged = PONG_TIMEOUT, !.waited = 0].ski = l.ski
        /\ [l EXCEPT !.pinged = PONG_TIMEOUT, !.waited = 0].device = l.device
      BY <1>2, <2>1 DEF Link
  <2> QED BY <2>1, <2>2
<1>4. ls = [i \in DOMAIN h.links |-> ls[i]] /\ asked = [h EXCEPT !.links = ls]
    OBVIOUS
<1>5. Pinged(h, failed) = DropLinks(asked, failed)
    BY DEF Pinged
<1>6. Table(asked, world) /\ SameBook(h, asked) /\ DOMAIN asked.links = DOMAIN h.links
  <2> HIDE DEF ls, asked
  <2> QED BY <1>3, <1>4, Relinking
<1>7. failed \in SUBSET DOMAIN asked.links
    BY <1>6 DEF ToPing
<1> HIDE DEF asked
<1>8. Table(DropLinks(asked, failed), world) /\ SameBook(asked, DropLinks(asked, failed))
    BY <1>1, <1>6, <1>7, Dropping
<1> QED BY <1>5, <1>6, <1>8, SameBookTrans

LEMMA Probing ==
    ASSUME NEW h, world \in Worlds, Table(h, world), h.duplicates # <<>>,
           NEW ski, NEW failed \in SUBSET LinksTo(h, ski)
    PROVE  Table(ProbeLinks(h, ski, failed), world) /\ SameBook(h, ProbeLinks(h, ski, failed))
<1> DEFINE written(l) == [Keepalive(l) EXCEPT !.waited = 0]
           ls == [i \in DOMAIN h.links |->
                    IF i \notin LinksTo(h, ski) THEN h.links[i]
                    ELSE IF i \in failed THEN Keepalive(h.links[i])
                    ELSE written(h.links[i])]
           pinged == [h EXCEPT !.links = ls]
           ds == [h.duplicates EXCEPT ![1].probed = TRUE]
           asked == [pinged EXCEPT !.duplicates = ds]
<1>1. h \in Hubs /\ world.max \in Nat /\ h.duplicates \in Seq(Double)
    BY WorldsAssumption DEF Table, Hubs
<1>2. PONG_TIMEOUT \in Times /\ 0 \in Off .. PONG_TIMEOUT
    BY LimitsAssumption DEF Times, Off
<1>3. ASSUME NEW i \in DOMAIN h.links
      PROVE  /\ ls[i] \in Link
             /\ ls[i].ski = h.links[i].ski
             /\ ls[i].device = h.links[i].device
  <2>1. h.links[i] \in Link
      BY <1>1, LinkTyped
  <2> DEFINE l == Keepalive(h.links[i])
             m == [l EXCEPT !.waited = 0]
  <2>2. l \in Link /\ l.ski = h.links[i].ski /\ l.device = h.links[i].device
      BY <2>1, Alive
  <2>3. ls[i] \in {h.links[i], l, m}
      OBVIOUS
  <2> HIDE DEF l, ls
  <2>4. m \in Link /\ m.ski = l.ski /\ m.device = l.device
      BY <1>2, <2>2 DEF Link
  <2> QED BY <2>1, <2>2, <2>3, <2>4
<1>4. ls = [i \in DOMAIN h.links |-> ls[i]] /\ pinged = [h EXCEPT !.links = ls]
    OBVIOUS
<1>5. ProbeLinks(h, ski, failed) = WakeAt(DropLinks(asked, failed), PONG_TIMEOUT)
  <2> DEFINE both == [h EXCEPT !.links = ls, !.duplicates[1].probed = TRUE]
  <2>1. ProbeLinks(h, ski, failed) = WakeAt(DropLinks(both, failed), PONG_TIMEOUT)
      BY DEF ProbeLinks
  <2> HIDE DEF ls
  <2>2. both = asked
      BY <1>1 DEF Hubs
  <2> QED BY <2>1, <2>2
<1> HIDE DEF ls
<1>6. /\ Table(pinged, world) /\ SameBook(h, pinged) /\ DOMAIN pinged.links = DOMAIN h.links
      /\ pinged.links = ls
  <2>1. Table(h, world) /\ ls = [i \in DOMAIN h.links |-> ls[i]]
        /\ pinged = [h EXCEPT !.links = ls]
      BY <1>4
  <2>2. \A i \in DOMAIN h.links : /\ ls[i] \in Link
                                  /\ ls[i].ski = h.links[i].ski
                                  /\ ls[i].device = h.links[i].device
      BY <1>3
  <2> HIDE DEF pinged
  <2>3. Table(pinged, world) /\ SameBook(h, pinged)
      BY ONLY <2>1, <2>2, Relinking
  <2>4. pinged.links = ls /\ DOMAIN pinged.links = DOMAIN h.links
      BY ONLY <2>1, <2>2, Relinking
  <2> QED BY <2>3, <2>4
<1>7. pinged.duplicates = h.duplicates /\ pinged \in Hubs
    BY <1>1, <1>6 DEF Hubs, Table
<1> HIDE DEF pinged
<1>8. /\ ds \in Seq(Double) /\ DOMAIN ds = DOMAIN h.duplicates
      /\ \A i \in DOMAIN h.duplicates : ds[i].ski = h.duplicates[i].ski
  <2>1. DOMAIN h.duplicates = 1 .. Len(h.duplicates) /\ Len(h.duplicates) \in Nat
        /\ \A i \in DOMAIN h.duplicates : h.duplicates[i] \in Double
      BY <1>1
  <2>2. \A i \in DOMAIN h.duplicates :
          /\ [h.duplicates[i] EXCEPT !.probed = TRUE] \in Double
          /\ [h.duplicates[i] EXCEPT !.probed = TRUE].ski = h.duplicates[i].ski
      BY <2>1 DEF Double
  <2>3. ds = [i \in DOMAIN h.duplicates |-> ds[i]]
      OBVIOUS
  <2>4. \A i \in DOMAIN h.duplicates :
          ds[i] = IF i = 1 THEN [h.duplicates[i] EXCEPT !.probed = TRUE] ELSE h.duplicates[i]
      OBVIOUS
  <2> HIDE DEF ds
  <2>5. \A i \in DOMAIN h.duplicates : ds[i] \in Double /\ ds[i].ski = h.duplicates[i].ski
      BY <2>1, <2>2, <2>4
  <2> QED BY <1>1, <2>3, <2>5, PlaceByPlace
<1> HIDE DEF ds
<1>9. /\ asked \in Hubs /\ asked.links = pinged.links /\ asked.duplicates = ds
      /\ asked.sightings = pinged.sightings /\ SameBook(pinged, asked)
    BY <1>7, <1>8 DEF Hubs, SameBook
<1> HIDE DEF asked
<1>10. Table(asked, world)
    BY <1>6, <1>7, <1>8, <1>9, Retiming
<1>11. failed \in SUBSET DOMAIN asked.links
    BY <1>6, <1>9 DEF LinksTo
<1> DEFINE d == DropLinks(asked, failed)
<1>12. Table(d, world) /\ SameBook(asked, d)
    BY <1>1, <1>10, <1>11, Dropping
<1> HIDE DEF d
<1>13. Table(WakeAt(d, PONG_TIMEOUT), world) /\ SameBook(d, WakeAt(d, PONG_TIMEOUT))
    BY <1>2, <1>12, Waking
<1>14. SameBook(h, WakeAt(d, PONG_TIMEOUT))
    BY <1>6, <1>9, <1>12, <1>13, SameBookTrans
<1> QED BY <1>5, <1>13, <1>14 DEF d

LEMMA ClosingAfterProbe ==
    ASSUME NEW h, world \in Worlds, Table(h, world), NEW ski
    PROVE  Table(CloseAfterProbe(h, ski), world) /\ SameBook(h, CloseAfterProbe(h, ski))
<1> DEFINE d == DropLinks(h, Unanswered(h, ski))
<1>1. world.max \in Nat
    BY WorldsAssumption
<1>2. Unanswered(h, ski) \in SUBSET DOMAIN h.links
    BY DEF Unanswered, LinksTo
<1>3. Table(d, world) /\ SameBook(h, d)
    BY <1>1, <1>2, Dropping
<1> HIDE DEF d
<1>4. Table(CloseDuplicates(d, ski), world) /\ SameBook(d, CloseDuplicates(d, ski))
    BY <1>1, <1>3, ClosingDuplicates
<1>5. CloseAfterProbe(h, ski) = CloseDuplicates(d, ski)
    BY DEF CloseAfterProbe, d
<1> QED BY <1>3, <1>4, <1>5, SameBookTrans

-----------------------------------------------------------------------------
(* A new link, and what a datagram changes *)

LEMMA Adopting ==
    ASSUME NEW h, world \in Worlds, Table(h, world), Len(h.links) < world.max,
           NEW ski \in Peers, NEW kind \in Kinds
    PROVE  Table(AdoptFrom(h, ski, kind), world) /\ SameBook(h, AdoptFrom(h, ski, kind))
<1> DEFINE twin == LinksTo(h, ski) # {}
           watched == \E i \in DOMAIN h.duplicates : h.duplicates[i].ski = ski
           d == [ski |-> ski, probed |-> FALSE, left |-> ARBITRATION_DELAY]
           l == NewLink(ski, kind)
           ls == Append(h.links, l)
           ds == IF twin /\ ~watched THEN Append(h.duplicates, d) ELSE h.duplicates
           g == [h EXCEPT !.links = ls, !.duplicates = ds]
<1>1. h \in Hubs /\ world.max \in Nat /\ world.keepalive \in Times
    BY WorldsAssumption DEF Table
<1>2. h.links \in Seq(Link) /\ h.duplicates \in Seq(Double)
    BY <1>1 DEF Hubs
<1>3. Off \in Times /\ Off \in Off .. PONG_TIMEOUT /\ ARBITRATION_DELAY \in Times
    BY LimitsAssumption DEF Times, Off
<1>4. l \in Link /\ l.ski = ski /\ l.device = None
    BY <1>1, <1>3 DEF NewLink, Link
<1>5. d \in Double /\ d.ski = ski
    BY <1>3 DEF Double
<1>6. AdoptFrom(h, ski, kind) = Emit(g, "Connected", ski)
    BY <1>1 DEF AdoptFrom, Hubs
<1> HIDE DEF l, d
<1>7. /\ ls \in Seq(Link) /\ Len(ls) = Len(h.links) + 1 /\ Len(h.links) \in Nat
      /\ DOMAIN ls = 1 .. Len(h.links) + 1 /\ DOMAIN h.links = 1 .. Len(h.links)
      /\ \A i \in DOMAIN h.links : ls[i] = h.links[i]
      /\ ls[Len(h.links) + 1] = l
    BY <1>2, <1>4
<1>8. /\ ds \in Seq(Double)
      /\ \A i \in DOMAIN h.duplicates : i \in DOMAIN ds /\ ds[i] = h.duplicates[i]
      /\ twin => \E i \in DOMAIN ds : ds[i].ski = ski
  <2>1. CASE twin /\ ~watched
    <3>1. /\ Append(h.duplicates, d) \in Seq(Double) /\ Len(h.duplicates) \in Nat
          /\ DOMAIN Append(h.duplicates, d) = 1 .. Len(h.duplicates) + 1
          /\ DOMAIN h.duplicates = 1 .. Len(h.duplicates)
          /\ \A i \in DOMAIN h.duplicates : Append(h.duplicates, d)[i] = h.duplicates[i]
          /\ Append(h.duplicates, d)[Len(h.duplicates) + 1] = d
        BY <1>2, <1>5
    <3>2. ds = Append(h.duplicates, d)
        BY <2>1
    <3> HIDE DEF ds
    <3>3. Len(h.duplicates) + 1 \in DOMAIN ds
        BY <3>1, <3>2
    <3> QED BY <1>5, <3>1, <3>2, <3>3
  <2>2. CASE ~(twin /\ ~watched)
      BY <1>2, <2>2
  <2> QED BY <2>1, <2>2
<1> HIDE DEF ls, ds
<1>9. /\ g \in Hubs /\ g.links = ls /\ g.duplicates = ds /\ g.sightings = h.sightings
      /\ SameBook(h, g)
    BY <1>1, <1>7, <1>8 DEF Hubs, SameBook
<1> HIDE DEF g
<1> DEFINE n == Len(h.links) + 1
<1>10. \A i \in DOMAIN ls : i # n => i \in DOMAIN h.links
    BY <1>7
<1>11. ASSUME NEW i \in DOMAIN ls, NEW j \in DOMAIN ls, i # j, ls[i].ski = ls[j].ski
       PROVE  \E e \in DOMAIN ds : ds[e].ski = ls[i].ski
  <2>1. CASE i = n \/ j = n
    <3>1. ls[i].ski = ski
        BY <1>4, <1>7, <1>11, <2>1
    <3>2. twin
        BY <1>4, <1>7, <1>10, <1>11, <2>1 DEF LinksTo
    <3> QED BY <1>8, <3>1, <3>2
  <2>2. CASE i # n /\ j # n
    <3>1. i \in DOMAIN h.links /\ j \in DOMAIN h.links
          /\ ls[i] = h.links[i] /\ ls[j] = h.links[j]
        BY <1>7, <1>10, <2>2
    <3>2. PICK e \in DOMAIN h.duplicates : h.duplicates[e].ski = h.links[i].ski
        BY <1>11, <3>1 DEF Table, Watch
    <3> QED BY <1>8, <3>1, <3>2
  <2> QED BY <2>1, <2>2
<1>12. \A i \in DOMAIN ls : ls[i].device # Own
    BY <1>4, <1>7, <1>10, NamesAssumption DEF Table, Watch
<1>13. ASSUME NEW i \in DOMAIN ls, NEW j \in DOMAIN ls, i # j, ls[i].device = ls[j].device
       PROVE  ls[i].device = None
  <2>1. CASE i = n \/ j = n
      BY <1>4, <1>7, <1>13, <2>1
  <2>2. CASE i # n /\ j # n
    <3>1. i \in DOMAIN h.links /\ j \in DOMAIN h.links
          /\ ls[i] = h.links[i] /\ ls[j] = h.links[j]
        BY <1>7, <1>10, <2>2
    <3> QED BY <1>13, <3>1 DEF Table, Watch
  <2> QED BY <2>1, <2>2
<1>14. Watch(g)
    BY <1>9, <1>11, <1>12, <1>13 DEF Watch
<1>15. Len(g.links) <= world.max
    BY <1>1, <1>7, <1>9
<1>16. Table(g, world)
    BY <1>9, <1>14, <1>15 DEF Table
<1>17. Table(Emit(g, "Connected", ski), world) /\ SameBook(g, Emit(g, "Connected", ski))
    BY <1>16, EmittingKeeps DEF Happenings, Skis
<1> QED BY <1>6, <1>9, <1>17, SameBookTrans

LEMMA Receiving ==
    ASSUME NEW h, NEW w, Table(h, w), NEW i \in DOMAIN h.links,
           NEW device \in Devices \cup {Own, None}, NEW answers \in BOOLEAN,
           device = None \/ ~Conflict(h, i, device)
    PROVE  Table(Receive(h, i, device, answers), w)
           /\ SameBook(h, Receive(h, i, device, answers))
<1> DEFINE o == h.links[i]
           to == IF device = None THEN o.device ELSE device
           less == IF answers /\ o.reads > 0 THEN o.reads - 1 ELSE o.reads
           l == [o EXCEPT !.device = to, !.reads = less]
           ls == [h.links EXCEPT ![i] = l]
           en == IF device = None THEN h.engine ELSE h.engine \cup {device}
           heard == [h EXCEPT !.links = ls, !.engine = en]
<1>1. h \in Hubs /\ h.links \in Seq(Link) /\ h.engine \in SUBSET Devices
    BY DEF Table, Hubs
<1>2. o \in Link
    BY <1>1, LinkTyped
<1>3. device # None => device \in Devices /\ device # Own
  <2>1. o.device \in Devices \cup {None} /\ o.device # Own
      BY <1>2 DEF Link, Table, Watch
  <2> QED BY <2>1 DEF Conflict
<1>4. to \in Devices \cup {None} /\ to # Own
    BY <1>2, <1>3 DEF Link, Table, Watch
<1>5. less \in 0 .. 2
  <2>1. o.reads \in 0 .. 2
      BY <1>2 DEF Link
  <2> HIDE DEF o
  <2> QED BY <2>1
<1>6. \A j \in DOMAIN h.links : j # i /\ h.links[j].device = to => to = None
  <2> SUFFICES ASSUME NEW j \in DOMAIN h.links, j # i, h.links[j].device = to
               PROVE  to = None
      OBVIOUS
  <2>1. CASE device = None
      BY <2>1 DEF Table, Watch
  <2>2. CASE device # None /\ o.device = None
      BY <2>2 DEF Conflict
  <2>3. CASE device # None /\ o.device # None
    <3>1. to = o.device
        BY <2>3 DEF Conflict
    <3> QED BY <3>1 DEF Table, Watch
  <2> QED BY <2>1, <2>2, <2>3
<1>7. Receive(h, i, device, answers) =
        IF Discovered(l) /\ ~Discovered(o) THEN Emit(heard, "PeerDiscovered", l.ski) ELSE heard
    BY <1>1 DEF Receive, Hubs
<1> HIDE DEF to, less
<1>8. l \in Link /\ l.ski = o.ski /\ l.device = to
    BY <1>2, <1>4, <1>5 DEF Link
<1> HIDE DEF l
<1>9. /\ ls \in Seq(Link) /\ Len(ls) = Len(h.links) /\ DOMAIN ls = DOMAIN h.links
      /\ \A j \in DOMAIN h.links : ls[j] = IF j = i THEN l ELSE h.links[j]
    BY <1>1, <1>8
<1> HIDE DEF ls
<1>10. en \in SUBSET Devices
    BY <1>1, <1>3
<1> HIDE DEF en
<1>11. /\ heard \in Hubs /\ heard.links = ls /\ heard.duplicates = h.duplicates
       /\ heard.sightings = h.sightings /\ SameBook(h, heard)
    BY <1>1, <1>9, <1>10 DEF Hubs, SameBook
<1> HIDE DEF heard
<1>12. ASSUME NEW j \in DOMAIN ls, NEW k \in DOMAIN ls, j # k, ls[j].ski = ls[k].ski
       PROVE  \E d \in DOMAIN h.duplicates : h.duplicates[d].ski = ls[j].ski
  <2>1. ls[j].ski = h.links[j].ski /\ ls[k].ski = h.links[k].ski
      BY <1>8, <1>9
  <2> QED BY <1>9, <1>12, <2>1 DEF Table, Watch
<1>13. \A j \in DOMAIN ls : ls[j].device # Own
    BY <1>4, <1>8, <1>9 DEF Table, Watch
<1>14. ASSUME NEW j \in DOMAIN ls, NEW k \in DOMAIN ls, j # k, ls[j].device = ls[k].device
       PROVE  ls[j].device = None
  <2>1. CASE j = i
    <3>1. ls[j].device = to /\ ls[k].device = h.links[k].device /\ k \in DOMAIN h.links /\ k # i
        BY <1>8, <1>9, <1>14, <2>1
    <3> QED BY <1>6, <1>14, <3>1
  <2>2. CASE k = i
    <3>1. ls[k].device = to /\ ls[j].device = h.links[j].device /\ j \in DOMAIN h.links /\ j # i
        BY <1>8, <1>9, <1>14, <2>2
    <3> QED BY <1>6, <1>14, <3>1
  <2>3. CASE j # i /\ k # i
    <3>1. ls[k] = h.links[k] /\ ls[j] = h.links[j]
        BY <1>9, <2>3
    <3> QED BY <1>9, <1>14, <3>1 DEF Table, Watch
  <2> QED BY <2>1, <2>2, <2>3
<1>15. Watch(heard)
    BY <1>11, <1>12, <1>13, <1>14 DEF Watch
<1>16. Table(heard, w)
    BY <1>9, <1>11, <1>15 DEF Table
<1>17. l.ski \in Skis
    BY <1>8 DEF Link, Skis
<1>18. Table(Emit(heard, "PeerDiscovered", l.ski), w)
       /\ SameBook(heard, Emit(heard, "PeerDiscovered", l.ski))
    BY <1>16, <1>17, EmittingKeeps DEF Happenings
<1> QED BY <1>7, <1>11, <1>16, <1>18, SameBookTrans

LEMMA Hearing ==
    ASSUME world \in Worlds, Table(hub, world), NEW i \in DOMAIN hub.links
    PROVE  /\ Table(Heard(i), world) /\ SameBook(hub, Heard(i))
           /\ DOMAIN Heard(i).links = DOMAIN hub.links
           /\ \A j \in DOMAIN hub.links : Heard(i).links[j].device = hub.links[j].device
<1> DEFINE l == [hub.links[i] EXCEPT !.quiet = world.keepalive, !.pinged = Off]
           ls == [hub.links EXCEPT ![i] = l]
           g == [hub EXCEPT !.links = ls]
<1>1. hub \in Hubs /\ hub.links \in Seq(Link)
    BY DEF Table, Hubs
<1>2. world.keepalive \in Times /\ Off \in Times
    BY WorldsAssumption, LimitsAssumption DEF Times, Off
<1>3. \A j \in DOMAIN hub.links : hub.links[j] \in Link
    BY <1>1, LinkTyped
<1>4. l \in Link /\ l.ski = hub.links[i].ski /\ l.device = hub.links[i].device
    BY <1>2, <1>3 DEF Link
<1>5. Heard(i) = g
  <2>1. hub.links[i] \in Link
      BY <1>3
  <2> QED BY <1>1, <2>1 DEF Heard, Hubs, Link
<1> HIDE DEF l
<1>6. ls = [j \in DOMAIN hub.links |-> ls[j]]
    OBVIOUS
<1>7. \A j \in DOMAIN hub.links : ls[j] = IF j = i THEN l ELSE hub.links[j]
    OBVIOUS
<1> HIDE DEF ls
<1>8. \A j \in DOMAIN hub.links : /\ ls[j] \in Link
                                  /\ ls[j].ski = hub.links[j].ski
                                  /\ ls[j].device = hub.links[j].device
    BY <1>3, <1>4, <1>7
<1>9. Table(g, world) /\ SameBook(hub, g)
    BY <1>6, <1>8, Relinking
<1>10. g.links = ls /\ DOMAIN g.links = DOMAIN hub.links
    BY <1>6, <1>8, Relinking
<1> QED BY <1>5, <1>8, <1>9, <1>10

-----------------------------------------------------------------------------
(* Peers to keep a connection to *)

\* The records of remembered peers may change, as long as none is newly marked as dialled.
LEMMA Remembering ==
    ASSUME NEW h, NEW ts, NEW w, Table(h, w), Slots(h, ts, w),
           NEW kn \in [Skis -> Remembered],
           \A p \in Skis : kn[p].dialing => h.known[p].dialing,
           NEW g, g = [h EXCEPT !.known = kn]
    PROVE  Table(g, w) /\ Slots(g, ts, w) /\ SameTable(h, g) /\ g.known = kn
<1>1. h \in Hubs
    BY DEF Table
<1>2. g \in Hubs /\ SameTable(h, g) /\ g.known = kn
    BY <1>1 DEF Hubs, SameTable
<1>3. g.inFlight = h.inFlight /\ g.awaiting = h.awaiting
    BY <1>1 DEF Hubs
<1>4. Counts(g, ts, w) /\ Pairings(g, ts)
    BY <1>3 DEF Slots, Counts, Pairings
<1>5. Dialings(g, ts)
    BY <1>2 DEF Slots, Dialings
<1> QED BY <1>2, <1>4, <1>5, TableStays DEF Slots

LEMMA DelayTyped ==
    ASSUME NEW n \in Nat
    PROVE  ReconnectDelay(n) \in Times /\ ReconnectDelay(n) # Off
<1> DEFINE k == 1 + (IF n < 7 THEN n ELSE 7)
           s == Doublings[k]
<1>1. k \in 1 .. 8
    OBVIOUS
<1> HIDE DEF k
<1>2. s \in Nat
    BY <1>1 DEF Doublings
<1> HIDE DEF s
<1>3. ReconnectDelay(n) = IF s < MAX_DELAY THEN s ELSE MAX_DELAY
    BY DEF ReconnectDelay, s, k
<1> QED BY <1>2, <1>3, LimitsAssumption DEF Times, Off

LEMMA DeferringPeer ==
    ASSUME NEW r \in Remembered
    PROVE  Deferred(r) \in Remembered /\ Deferred(r).dialing = r.dialing
<1> DEFINE n == IF r.attempts < MaxAttempts THEN r.attempts + 1 ELSE MaxAttempts
<1>1. Deferred(r) = [r EXCEPT !.attempts = n, !.wait = ReconnectDelay(n)]
    BY DEF Deferred
<1>2. n \in 0 .. MaxAttempts /\ n \in Nat
    BY LimitsAssumption DEF Remembered
<1> HIDE DEF n
<1>3. ReconnectDelay(n) \in Times
    BY <1>2, DelayTyped
<1> QED BY <1>1, <1>2, <1>3 DEF Remembered

LEMMA KnownTyped ==
    ASSUME NEW h, NEW w, Table(h, w)
    PROVE  h \in Hubs /\ h.known \in [Skis -> Remembered]
BY DEF Table, Hubs

\* One remembered peer's record changes.
LEMMA RememberingOne ==
    ASSUME NEW h, NEW ts, NEW w, Table(h, w), Slots(h, ts, w), NEW ski \in Skis,
           NEW r \in Remembered, r.dialing => h.known[ski].dialing,
           NEW g, g = [h EXCEPT !.known[ski] = r]
    PROVE  Table(g, w) /\ Slots(g, ts, w) /\ SameTable(h, g)
<1> DEFINE kn == [h.known EXCEPT ![ski] = r]
<1>1. h \in Hubs /\ h.known \in [Skis -> Remembered]
    BY KnownTyped
<1>2. kn \in [Skis -> Remembered] /\ \A p \in Skis : kn[p].dialing => h.known[p].dialing
    BY <1>1
<1>3. g = [h EXCEPT !.known = kn]
    BY <1>1 DEF Hubs
<1> HIDE DEF kn
<1> QED BY <1>2, <1>3, Remembering

LEMMA Deferring ==
    ASSUME NEW h, NEW ts, NEW w, Table(h, w), Slots(h, ts, w), NEW ski \in Skis
    PROVE  /\ Table(DeferRedial(h, ski), w) /\ Slots(DeferRedial(h, ski), ts, w)
           /\ SameTable(h, DeferRedial(h, ski))
<1> DEFINE r == Deferred(h.known[ski])
           g == [h EXCEPT !.known[ski] = r]
<1>1. h.known[ski] \in Remembered
    BY KnownTyped
<1>2. r \in Remembered /\ r.dialing = h.known[ski].dialing
    BY <1>1, DeferringPeer
<1>3. DeferRedial(h, ski) = IF ~Known(h, ski) THEN h ELSE g
    BY DEF DeferRedial
<1> HIDE DEF r
<1>4. Table(g, w) /\ Slots(g, ts, w) /\ SameTable(h, g)
    BY <1>2, RememberingOne
<1>5. SameTable(h, h)
    BY DEF SameTable
<1> QED BY <1>3, <1>4, <1>5

LEMMA RememberingIn ==
    ASSUME NEW h, NEW ts, NEW w, Table(h, w), Slots(h, ts, w), NEW ski \in Skis
    PROVE  Table(RememberIn(h, ski), w) /\ Slots(RememberIn(h, ski), ts, w)
<1> DEFINE r == [h.known[ski] EXCEPT !.attempts = 0, !.wait = 0]
           g == [h EXCEPT !.known[ski] = r]
<1>1. h \in Hubs /\ h.known \in [Skis -> Remembered] /\ h.known[ski] \in Remembered
    BY KnownTyped
<1>2. 0 \in Times /\ 0 \in 0 .. MaxAttempts
    BY LimitsAssumption DEF Times, Off
<1>3. r \in Remembered /\ r.dialing = h.known[ski].dialing
    BY <1>1, <1>2 DEF Remembered
<1>4. RememberIn(h, ski) = IF ski = Self THEN h ELSE g
    BY <1>1 DEF RememberIn, Hubs, Remembered
<1> HIDE DEF r
<1>5. Table(g, w) /\ Slots(g, ts, w)
    BY <1>3, RememberingOne
<1> QED BY <1>4, <1>5

LEMMA FindingIt ==
    ASSUME NEW h, NEW ts, NEW w, Table(h, w), Slots(h, ts, w), NEW ski \in Skis,
           NEW g, g = [h EXCEPT !.known[ski].found = TRUE]
    PROVE  Table(g, w) /\ Slots(g, ts, w)
<1> DEFINE r == [h.known[ski] EXCEPT !.found = TRUE]
<1>1. h \in Hubs /\ h.known \in [Skis -> Remembered] /\ h.known[ski] \in Remembered
    BY KnownTyped
<1>2. r \in Remembered /\ r.dialing = h.known[ski].dialing
    BY <1>1 DEF Remembered
<1>3. g = [h EXCEPT !.known[ski] = r]
    BY <1>1 DEF Hubs
<1>4. Table(h, w) /\ Slots(h, ts, w) /\ ski \in Skis /\ (r.dialing => h.known[ski].dialing)
    BY <1>2
<1> HIDE DEF r
<1> QED BY ONLY <1>2, <1>3, <1>4, RememberingOne

LEMMA ForgettingIt ==
    ASSUME NEW h, NEW ts, NEW w, Table(h, w), Slots(h, ts, w), NEW ski \in Skis,
           NEW g, g = [h EXCEPT !.known[ski] = Forgotten]
    PROVE  Table(g, w) /\ Slots(g, ts, w) /\ SameTable(h, g)
<1>1. Forgotten \in Remembered /\ ~Forgotten.dialing
    BY LimitsAssumption DEF Forgotten, Remembered, Times, Off
<1> QED BY <1>1, RememberingOne

LEMMA Unsighting ==
    ASSUME NEW h, NEW ts, NEW w, Table(h, w), Slots(h, ts, w), NEW ski
    PROVE  /\ Table(Unsighted(h, ski), w) /\ Slots(Unsighted(h, ski), ts, w)
           /\ Unsighted(h, ski).known = h.known
           /\ Unsighted(h, ski).sightings \in Seq(Skis)
           /\ Len(Unsighted(h, ski).sightings) <= MAX_SIGHTINGS
<1> DEFINE s == h.sightings
           S == {i \in DOMAIN s : s[i] # ski}
           r == Kept(s, S)
           g == Unsighted(h, ski)
<1>1. h \in Hubs /\ s \in Seq(Skis) /\ Len(s) <= MAX_SIGHTINGS /\ Len(s) \in Nat
    BY DEF Table, Hubs
<1>2. S \in SUBSET DOMAIN s
    OBVIOUS
<1>3. g = [h EXCEPT !.sightings = r]
    BY DEF Unsighted
<1>4. r \in Seq(Skis) /\ Len(r) \in 0 .. Len(s)
  <2>1. r = Kept(s, S)
      OBVIOUS
  <2> HIDE DEF S, s, r
  <2> QED BY <1>1, <1>2, <2>1, KeptWhere
<1> HIDE DEF r, g
<1>5. Len(r) <= MAX_SIGHTINGS
    BY <1>1, <1>4, LimitsAssumption
<1>6. /\ g \in Hubs /\ g.links = h.links /\ g.duplicates = h.duplicates /\ g.sightings = r
      /\ g.known = h.known
    BY <1>1, <1>3, <1>4 DEF Hubs
<1>7. SameBook(h, g)
    BY <1>1, <1>3 DEF Hubs, SameBook
<1>8. Table(g, w)
    BY <1>5, <1>6 DEF Table, Watch
<1>9. Slots(g, ts, w)
    BY <1>7, SlotsStay
<1> QED BY <1>4, <1>5, <1>6, <1>8, <1>9 DEF g

-----------------------------------------------------------------------------
(* Handshakes *)

LEMMA OfIsFinite ==
    ASSUME NEW ts \in Seq(Handshake), NEW x
    PROVE  IsFiniteSet(Of(ts, x)) /\ Cardinality(Of(ts, x)) \in 0 .. Len(ts)
<1>1. Len(ts) \in Nat /\ Of(ts, x) \in SUBSET (1 .. Len(ts))
    BY DEF Of
<1> QED BY <1>1, PositionsAreFinite

\* Handshakes may go on, as long as each keeps its origin, whom it was meant for, and the
\* peer it has met.
LEMMA GoingOn ==
    ASSUME NEW h \in Hubs, NEW ts, NEW w, Slots(h, ts, w), NEW us \in Seq(Handshake),
           DOMAIN us = DOMAIN ts,
           \A t \in DOMAIN ts :
             /\ us[t].kind = ts[t].kind /\ us[t].from = ts[t].from
             /\ us[t].expected = ts[t].expected
             /\ ts[t].peer # None => us[t].peer = ts[t].peer
    PROVE  Slots(h, us, w)
<1>1. \A x : {t \in DOMAIN us : us[t].kind = x} = {t \in DOMAIN ts : ts[t].kind = x}
    OBVIOUS
<1>2. Counts(h, us, w)
    BY <1>1 DEF Slots, Counts
<1>3. \A v \in h.awaiting : v.ski # None
    BY NamesAssumption DEF Hubs, Waiting
<1>4. \A t \in DOMAIN ts : Origin(us[t]) = Origin(ts[t])
    BY DEF Origin
<1>5. Pairings(h, us)
  <2>1. ASSUME NEW v \in h.awaiting
        PROVE  \E t \in DOMAIN us : Origin(us[t]) = v.origin /\ us[t].peer = v.ski
    <3>1. PICK t \in DOMAIN ts : Origin(ts[t]) = v.origin /\ ts[t].peer = v.ski
        BY DEF Slots, Pairings
    <3> QED BY <1>3, <1>4, <3>1
  <2> QED BY <2>1 DEF Slots, Pairings
<1>6. Dialings(h, us)
    BY DEF Slots, Dialings
<1> QED BY <1>2, <1>5, <1>6 DEF Slots

\* A finished handshake leaves, and with it what it held.
LEMMA Leaving ==
    ASSUME world \in Worlds, Table(hub, world), Slots(hub, tasks, world), NEW t \in DOMAIN tasks
    PROVE  /\ Table(Released(tasks[t]), world)
           /\ Slots(Released(tasks[t]), Kept(tasks, DOMAIN tasks \ {t}), world)
           /\ SameTable(hub, Released(tasks[t]))
<1> DEFINE task == tasks[t]
           S == DOMAIN tasks \ {t}
           us == Kept(tasks, S)
           g == Released(task)
           k == task.kind
           n == IF hub.inFlight[k] > 0 THEN hub.inFlight[k] - 1 ELSE 0
           fl == [hub.inFlight EXCEPT ![k] = n]
           aw == {v \in hub.awaiting : v.origin # Origin(task)}
           kn == [p \in Skis |-> IF p = task.expected
                                 THEN [hub.known[p] EXCEPT !.dialing = FALSE]
                                 ELSE hub.known[p]]
<1>1. hub \in Hubs /\ hub.known \in [Skis -> Remembered]
    BY KnownTyped
<1>2. hub.inFlight \in [Kinds -> Nat] /\ hub.awaiting \in SUBSET Waiting
    BY <1>1 DEF Hubs
<1>3. tasks \in Seq(Handshake) /\ task \in Handshake /\ k \in Kinds
  <2>1. tasks \in Seq(Handshake)
      BY DEF Slots
  <2>2. task \in Handshake
      BY <2>1
  <2> QED BY <2>1, <2>2 DEF Handshake
<1>4. g = [hub EXCEPT !.inFlight = fl, !.awaiting = aw, !.known = kn]
    BY <1>1 DEF Released, Hubs
<1>5. \A p \in Skis : /\ kn[p] \in Remembered
                      /\ kn[p].dialing => hub.known[p].dialing /\ p # task.expected
    BY <1>1 DEF Remembered
<1>6. kn \in [Skis -> Remembered]
    BY <1>5
<1>7. n \in Nat /\ fl \in [Kinds -> Nat]
    BY <1>2, <1>3
<1>8. aw \in SUBSET Waiting
    BY <1>2
<1>9. \A x \in Kinds : fl[x] = IF x = k THEN n ELSE hub.inFlight[x]
    BY <1>2
<1> HIDE DEF g, fl, kn
<1>10. g \in Hubs /\ SameTable(hub, g)
  <2> HIDE DEF aw
  <2> QED BY <1>1, <1>4, <1>6, <1>7, <1>8 DEF Hubs, SameTable
<1>11. g.inFlight = fl /\ g.awaiting = aw /\ g.known = kn
    BY <1>1, <1>4 DEF Hubs
<1>12. Table(g, world)
    BY <1>10, TableStays
<1>13. S \in SUBSET DOMAIN tasks
    OBVIOUS
<1>14. /\ us \in Seq(Handshake)
       /\ \A i \in S : \E j \in DOMAIN us : us[j] = tasks[i]
  <2>1. us = Kept(tasks, S)
      OBVIOUS
  <2> HIDE DEF S, us
  <2> QED BY <1>3, <1>13, <2>1, KeptWhere
<1>15. Counts(g, us, world)
  <2> SUFFICES ASSUME NEW x \in Kinds
               PROVE  /\ fl[x] = Cardinality(Of(us, x)) /\ fl[x] <= world.max
      BY <1>11 DEF Counts, Of
  <2> DEFINE B == Of(tasks, x) \cap S
  <2>0. world.max \in Nat
      BY WorldsAssumption
  <2>1. Cardinality(Of(us, x)) = Cardinality(B)
    <3> HIDE DEF S
    <3> QED BY ONLY <1>3, <1>13, KeptCount
  <2>2. /\ hub.inFlight[x] = Cardinality(Of(tasks, x)) /\ hub.inFlight[x] <= world.max
        /\ hub.inFlight[x] \in Nat
      BY <1>2 DEF Slots, Counts, Of
  <2>3. IsFiniteSet(Of(tasks, x))
      BY <1>3, OfIsFinite
  <2>4. B = Of(tasks, x) \ {t}
      BY DEF Of
  <2>5. Cardinality(B) = IF t \in Of(tasks, x) THEN Cardinality(Of(tasks, x)) - 1
                         ELSE Cardinality(Of(tasks, x))
      BY <2>3, <2>4, FS_RemoveElement
  <2>6. t \in Of(tasks, x) <=> x = k
      BY DEF Of
  <2>7. x = k => hub.inFlight[x] # 0
      BY <2>2, <2>3, <2>6, FS_EmptySet
  <2>8. fl[x] = IF x = k THEN hub.inFlight[x] - 1 ELSE hub.inFlight[x]
      BY <1>9, <2>2, <2>7
  <2> HIDE DEF B
  <2> QED BY <2>0, <2>1, <2>2, <2>5, <2>6, <2>8
<1>16. Pairings(g, us)
  <2>1. ASSUME NEW v \in aw
        PROVE  \E j \in DOMAIN us : Origin(us[j]) = v.origin /\ us[j].peer = v.ski
    <3>1. v \in hub.awaiting /\ v.origin # Origin(task)
        OBVIOUS
    <3>2. PICK i \in DOMAIN tasks : Origin(tasks[i]) = v.origin /\ tasks[i].peer = v.ski
        BY <3>1 DEF Slots, Pairings
    <3>3. i \in S
        BY <3>1, <3>2
    <3>4. PICK j \in DOMAIN us : us[j] = tasks[i]
        BY <1>14, <3>3
    <3> QED BY <3>2, <3>4
  <2>2. \A v, u \in aw : v.ski = u.ski => v = u
      BY DEF Slots, Pairings
  <2> HIDE DEF aw, us
  <2> QED BY <1>11, <2>1, <2>2 DEF Pairings
<1>17. Dialings(g, us)
  <2>1. ASSUME NEW p \in Skis, kn[p].dialing
        PROVE  \E j \in DOMAIN us : us[j].expected = p
    <3>1. hub.known[p].dialing /\ p # task.expected
        BY <1>5, <2>1
    <3>2. PICK i \in DOMAIN tasks : tasks[i].expected = p
        BY <3>1 DEF Slots, Dialings
    <3>3. i \in S
        BY <3>1, <3>2
    <3>4. PICK j \in DOMAIN us : us[j] = tasks[i]
        BY <1>14, <3>3
    <3> QED BY <3>2, <3>4
  <2> HIDE DEF us
  <2> QED BY <1>11, <2>1 DEF Dialings
<1>18. Slots(g, us, world)
  <2> HIDE DEF us
  <2> QED BY <1>14, <1>15, <1>16, <1>17 DEF Slots
<1> QED BY <1>10, <1>12, <1>18 DEF g

-----------------------------------------------------------------------------
(* New handshakes *)

Wanted == [from : Addresses, expected : Skis \cup {None}]

\* No more handshakes are let in than the hub may hold connections.
LEMMA RoomBound ==
    ASSUME NEW h \in Hubs, world \in Worlds
    PROVE  /\ Room(h, "Dialed") \in Nat
           /\ Room(h, "Dialed") > 0 => h.inFlight["Dialed"] + Room(h, "Dialed") <= world.max
<1> DEFINE a == h.inFlight["Dialed"]
           b == h.inFlight["Accepted"]
           c == LinksOf(h, "Dialed")
           m == world.max
           n == Len(h.links)
<1>1. a \in Nat /\ b \in Nat /\ n \in Nat /\ m \in Nat
    BY WorldsAssumption DEF Hubs, Kinds
<1>2. c \in Nat
  <2>1. h.links \in Seq(Link)
      BY DEF Hubs
  <2>2. {i \in DOMAIN h.links : h.links[i].kind = "Dialed"} \in SUBSET (1 .. Len(h.links))
      BY <2>1
  <2> QED BY <1>1, <2>2, PositionsAreFinite DEF LinksOf
<1> DEFINE all == m - n - a - b
           own == m - 1 - c - a
           room == IF m > 1 /\ own < all THEN own ELSE all
<1>3. Room(h, "Dialed") = IF room > 0 THEN room ELSE 0
    BY DEF Room, Reserved
<1> HIDE DEF a, b, c, m, n
<1>4. room \in Int /\ room + a <= m - n - b
    BY <1>1, <1>2
<1>5. a + room <= m
    BY <1>1, <1>4
<1> HIDE DEF room
<1> QED BY <1>1, <1>3, <1>4, <1>5 DEF a, m

\* A handshake that starts has no peer yet.
LEMMA TaskTyped ==
    ASSUME NEW kind \in Kinds, NEW from \in Addresses, NEW e \in Skis \cup {None}
    PROVE  /\ Task(kind, from, e) \in Handshake
           /\ Task(kind, from, e).kind = kind /\ Task(kind, from, e).expected = e
BY DEF Task, Handshake, Phases

\* Handshakes of one kind are added after those that run.
Added(ts, n, new, kind, us) ==
    /\ ts \in Seq(Handshake) /\ n \in Nat /\ new \in [1 .. n -> Handshake]
    /\ \A i \in 1 .. n : new[i].kind = kind
    /\ us = ts \o new

LEMMA Adding ==
    ASSUME NEW ts, NEW n, NEW new, NEW kind, NEW us, Added(ts, n, new, kind, us)
    PROVE  /\ us \in Seq(Handshake)
           /\ \A t \in DOMAIN ts : t \in DOMAIN us /\ us[t] = ts[t]
           /\ \A i \in 1 .. n : Len(ts) + i \in DOMAIN us /\ us[Len(ts) + i] = new[i]
           /\ Cardinality(Of(us, kind)) = Cardinality(Of(ts, kind)) + n
           /\ \A x : x # kind => Of(us, x) = Of(ts, x)
<1> DEFINE m == Len(ts)
<1>a. /\ ts \in Seq(Handshake) /\ n \in Nat /\ new \in [1 .. n -> Handshake]
      /\ \A i \in 1 .. n : new[i].kind = kind
      /\ us = ts \o new
    BY DEF Added
<1>0. m \in Nat /\ DOMAIN ts = 1 .. m /\ new \in Seq(Handshake) /\ Len(new) = n /\ n \in Nat
    BY <1>a
<1>1. us \in Seq(Handshake) /\ Len(us) = m + n
    BY <1>a, <1>0, ConcatProperties
<1>2. DOMAIN us = 1 .. m + n
    BY <1>1
<1>3. \A t \in 1 .. m : us[t] = ts[t]
    BY <1>a, <1>0
<1>4. \A t \in m + 1 .. m + n : us[t] = new[t - m]
    BY <1>a, <1>0
<1>5. \A i \in 1 .. n : m + i \in m + 1 .. m + n /\ m + i \in 1 .. m + n /\ us[m + i] = new[i]
  <2> SUFFICES ASSUME NEW i \in 1 .. n
               PROVE  m + i \in m + 1 .. m + n /\ m + i \in 1 .. m + n /\ us[m + i] = new[i]
      OBVIOUS
  <2>1. m + i \in m + 1 .. m + n /\ m + i \in 1 .. m + n /\ (m + i) - m = i
      BY <1>0
  <2> QED BY <1>4, <2>1
<1>6. \A t \in 1 .. m : t \in 1 .. m + n
    BY <1>0
<1>7. \A t \in m + 1 .. m + n : us[t].kind = kind
  <2> SUFFICES ASSUME NEW t \in m + 1 .. m + n PROVE us[t].kind = kind
      OBVIOUS
  <2>1. t - m \in 1 .. n
      BY <1>0
  <2> QED BY <1>a, <1>4, <2>1
<1>8. \A t : t \in 1 .. m + n <=> t \in 1 .. m \/ t \in m + 1 .. m + n
    BY <1>0
<1>9. \A t : ~(t \in 1 .. m /\ t \in m + 1 .. m + n)
    BY <1>0
<1>10. Cardinality(Of(us, kind)) = Cardinality(Of(ts, kind)) + n
  <2> DEFINE N == m + 1 .. m + n
             O == Of(ts, kind)
  <2>1. Of(us, kind) = O \cup N
      BY <1>0, <1>2, <1>3, <1>7, <1>8 DEF Of
  <2>2. O \cap N = {}
      BY <1>0, <1>9 DEF Of
  <2>3. IsFiniteSet(N) /\ Cardinality(N) = n
    <3> DEFINE a == m + 1
               b == m + n
    <3>1. a \in Int /\ b \in Int
        BY <1>0
    <3>2. IsFiniteSet(a .. b) /\ Cardinality(a .. b) = IF a > b THEN 0 ELSE b - a + 1
      <4> HIDE DEF a, b
      <4> QED BY <3>1, FS_Interval
    <3>3. (IF a > b THEN 0 ELSE b - a + 1) = n
        BY <1>0
    <3> QED BY <3>2, <3>3
  <2>4. IsFiniteSet(O) /\ Cardinality(O) \in Nat
      BY <1>a, OfIsFinite
  <2> HIDE DEF N, O
  <2>5. Cardinality(O \cup N) = Cardinality(O) + Cardinality(N) - Cardinality(O \cap N)
      BY <2>3, <2>4, FS_Union
  <2>6. Cardinality(O \cap N) = 0
      BY <2>2, FS_EmptySet, Zenon
  <2>7. Cardinality(O \cup N) = Cardinality(O) + n
      BY <1>0, <2>3, <2>4, <2>5, <2>6
  <2> QED BY <2>1, <2>7 DEF O
<1>13. \A x : x # kind => Of(us, x) = Of(ts, x)
    BY <1>0, <1>2, <1>3, <1>7, <1>8 DEF Of
<1>11. \A t \in DOMAIN ts : t \in DOMAIN us /\ us[t] = ts[t]
    BY <1>0, <1>2, <1>3, <1>6
<1>12. \A i \in 1 .. n : m + i \in DOMAIN us /\ us[m + i] = new[i]
    BY <1>2, <1>5
<1> QED BY <1>1, <1>10, <1>11, <1>12, <1>13

LEMMA Spawning ==
    ASSUME NEW h, NEW ts, world \in Worlds, Table(h, world), Slots(h, ts, world),
           NEW wanted \in Seq(Wanted)
    PROVE  /\ Table(SpawnDials(h, ts, wanted).hub, world)
           /\ Slots(SpawnDials(h, ts, wanted).hub, SpawnDials(h, ts, wanted).tasks, world)
<1> DEFINE room == Room(h, "Dialed")
           n == IF room < Len(wanted) THEN room ELSE Len(wanted)
           dialed == {wanted[i].expected : i \in 1 .. n}
           late == {wanted[i].expected : i \in n + 1 .. Len(wanted)}
           fl == [h.inFlight EXCEPT !["Dialed"] = @ + n]
           kn == [p \in Skis |->
                    IF p \in dialed /\ Known(h, p) THEN [h.known[p] EXCEPT !.dialing = TRUE]
                    ELSE IF p \in late /\ Known(h, p) THEN Deferred(h.known[p])
                    ELSE h.known[p]]
           told == [k \in 1 .. Len(wanted) - n |->
                      [event |-> "HandshakeFailed", ski |-> wanted[n + k].expected]]
           new == [k \in 1 .. n |-> Task("Dialed", wanted[k].from, wanted[k].expected)]
           g == [h EXCEPT !.inFlight = fl, !.known = kn, !.pending = h.pending \o told]
           us == ts \o new
<1>1. h \in Hubs /\ h.known \in [Skis -> Remembered]
    BY KnownTyped
<1>2. h.inFlight \in [Kinds -> Nat] /\ h.pending \in Seq(Event) /\ "Dialed" \in Kinds
    BY <1>1 DEF Hubs, Kinds
<1>3. SpawnDials(h, ts, wanted) = [hub |-> g, tasks |-> us]
    BY <1>1 DEF SpawnDials, Hubs
<1>4. SpawnDials(h, ts, wanted).hub = g /\ SpawnDials(h, ts, wanted).tasks = us
  <2> HIDE DEF g, us
  <2> QED BY <1>3
<1>5. /\ Len(wanted) \in Nat
      /\ \A i \in 1 .. Len(wanted) : /\ wanted[i].from \in Addresses
                                     /\ wanted[i].expected \in Skis \cup {None}
  <2>1. Len(wanted) \in Nat /\ \A i \in 1 .. Len(wanted) : wanted[i] \in Wanted
      OBVIOUS
  <2> QED BY <2>1 DEF Wanted
<1>6. room \in Nat /\ (room > 0 => h.inFlight["Dialed"] + room <= world.max)
    BY <1>1, RoomBound
<1> HIDE DEF room
<1>7. n \in 0 .. Len(wanted) /\ n \in Nat /\ n <= room
    BY <1>5, <1>6
<1> HIDE DEF n
<1>8. \A i \in 1 .. n : i \in 1 .. Len(wanted)
    BY <1>5, <1>7
<1>9. fl \in [Kinds -> Nat] /\ \A x \in Kinds :
        fl[x] = IF x = "Dialed" THEN h.inFlight[x] + n ELSE h.inFlight[x]
    BY <1>2, <1>7
<1>10. \A x \in Kinds : fl[x] <= world.max
  <2>1. \A x \in Kinds : h.inFlight[x] <= world.max /\ h.inFlight[x] \in Nat
      BY <1>2 DEF Slots, Counts
  <2>2. world.max \in Nat
      BY WorldsAssumption
  <2>3. h.inFlight["Dialed"] + n <= world.max
      BY <1>2, <1>6, <1>7, <2>1, <2>2
  <2> HIDE DEF fl
  <2> QED BY <1>9, <2>1, <2>3
<1>11. ASSUME NEW p \in Skis
       PROVE  kn[p] \in Remembered /\ (kn[p].dialing => h.known[p].dialing \/ p \in dialed)
  <2> DEFINE r == h.known[p]
  <2>1. r \in Remembered
      BY <1>1
  <2>2. [r EXCEPT !.dialing = TRUE] \in Remembered
      BY <2>1 DEF Remembered
  <2>3. Deferred(r) \in Remembered /\ Deferred(r).dialing = r.dialing
      BY <2>1, DeferringPeer
  <2>4. kn[p] = IF p \in dialed /\ Known(h, p) THEN [r EXCEPT !.dialing = TRUE]
                ELSE IF p \in late /\ Known(h, p) THEN Deferred(r) ELSE r
      OBVIOUS
  <2> HIDE DEF kn, dialed, late, r
  <2> QED BY <2>1, <2>2, <2>3, <2>4 DEF r
<1>12. kn \in [Skis -> Remembered]
    BY <1>11
<1>13. told \in Seq(Event)
  <2>1. Len(wanted) - n \in Nat
      BY <1>5, <1>7
  <2>2. \A k \in 1 .. Len(wanted) - n : n + k \in 1 .. Len(wanted)
      BY <1>5, <1>7
  <2>3. \A s \in Skis \cup {None} : [event |-> "HandshakeFailed", ski |-> s] \in Event
      BY DEF Event, Happenings
  <2>4. \A k \in 1 .. Len(wanted) - n :
          [event |-> "HandshakeFailed", ski |-> wanted[n + k].expected] \in Event
      BY <1>5, <2>2, <2>3
  <2>5. told \in [1 .. Len(wanted) - n -> Event]
      BY <2>4
  <2> HIDE DEF told
  <2> QED BY <2>1, <2>5
<1>14. ts \in Seq(Handshake)
    BY DEF Slots
<1>15. ASSUME NEW k \in 1 .. n
       PROVE  /\ new[k] \in Handshake /\ new[k].kind = "Dialed"
              /\ new[k].expected = wanted[k].expected
    BY <1>2, <1>5, <1>8, TaskTyped
<1>16. new \in [1 .. n -> Handshake]
    BY <1>15
<1> HIDE DEF fl, kn, told, new
<1>17. h.pending \o told \in Seq(Event)
    BY <1>2, <1>13
<1>18. g \in Hubs
    BY <1>1, <1>9, <1>12, <1>17 DEF Hubs
<1>19. g.inFlight = fl /\ g.known = kn /\ g.awaiting = h.awaiting /\ SameTable(h, g)
    BY <1>1 DEF Hubs, SameTable
<1> HIDE DEF g
<1>20. Table(g, world)
    BY <1>18, <1>19, TableStays
<1>21. /\ us \in Seq(Handshake)
       /\ \A t \in DOMAIN ts : t \in DOMAIN us /\ us[t] = ts[t]
       /\ \A i \in 1 .. n : Len(ts) + i \in DOMAIN us /\ us[Len(ts) + i] = new[i]
       /\ Cardinality(Of(us, "Dialed")) = Cardinality(Of(ts, "Dialed")) + n
       /\ \A x : x # "Dialed" => Of(us, x) = Of(ts, x)
  <2>1. Added(ts, n, new, "Dialed", us)
      BY <1>7, <1>14, <1>15, <1>16 DEF Added
  <2> HIDE DEF us
  <2> QED BY <2>1, Adding
<1> HIDE DEF us
<1>22. Counts(g, us, world)
  <2> SUFFICES ASSUME NEW x \in Kinds
               PROVE  fl[x] = Cardinality(Of(us, x)) /\ fl[x] <= world.max
      BY <1>19 DEF Counts, Of
  <2>1. h.inFlight[x] = Cardinality(Of(ts, x))
      BY DEF Slots, Counts, Of
  <2> QED BY <1>9, <1>10, <1>21, <2>1
<1>23. Pairings(g, us)
    BY <1>19, <1>21 DEF Slots, Pairings
<1>24. Dialings(g, us)
  <2>1. ASSUME NEW p \in Skis, kn[p].dialing PROVE \E t \in DOMAIN us : us[t].expected = p
    <3>1. CASE h.known[p].dialing
        BY <1>21, <3>1 DEF Slots, Dialings
    <3>2. CASE p \in dialed
      <4>1. PICK i \in 1 .. n : p = wanted[i].expected
          BY <3>2
      <4> QED BY <1>15, <1>21, <4>1
    <3> QED BY <1>11, <2>1, <3>1, <3>2
  <2> QED BY <1>19, <2>1 DEF Dialings
<1>25. Slots(g, us, world)
    BY <1>21, <1>22, <1>23, <1>24 DEF Slots
<1> QED BY <1>4, <1>20, <1>25

\* The due peers, in any order.
LEMMA RedialsTyped ==
    ASSUME NEW h, NEW wanted \in Redials(h)
    PROVE  wanted \in Seq(Wanted)
<1> DEFINE D == DueForRedial(h)
<1>1. PICK order \in SetToSeqs(D) :
        wanted = [i \in DOMAIN order |-> [from |-> order[i], expected |-> order[i]]]
    BY DEF Redials
<1>2. order \in [1 .. Cardinality(D) -> D]
    BY DEF SetToSeqs
<1>3. D \in SUBSET Skis
    BY DEF DueForRedial
<1>4. IsFiniteSet(Skis)
  <2>1. IsFiniteSet(Peers \cup {Self})
      BY NamesAssumption, FS_AddElement
  <2> QED BY <2>1 DEF Skis
<1>5. Cardinality(D) \in Nat
    BY <1>3, <1>4, FS_Subset, FS_CardinalityType
<1> HIDE DEF D
<1>6. \A i \in 1 .. Cardinality(D) : order[i] \in Skis
    BY <1>2, <1>3
<1>7. \A s \in Skis : [from |-> s, expected |-> s] \in Wanted
    BY DEF Wanted, Addresses
<1>8. wanted \in [1 .. Cardinality(D) -> Wanted]
    BY <1>1, <1>2, <1>6, <1>7
<1> QED BY <1>5, <1>8

-----------------------------------------------------------------------------
(* Each step keeps the invariant: the loop of Hub::next *)

Steps == {"top", "arbitrate", "timers", "wait"}

LEMMA Invariant ==
    ASSUME HubInvariant
    PROVE  /\ world \in Worlds /\ world.max \in Nat /\ at \in Steps
           /\ Table(hub, world) /\ Slots(hub, tasks, world)
           /\ hub \in Hubs /\ tasks \in Seq(Handshake)
BY WorldsAssumption DEF HubInvariant, Steps, Table, Slots

LEMMA Anew ==
    ASSUME world \in Worlds, UNCHANGED world, at' \in Steps,
           Table(hub', world), Slots(hub', tasks', world)
    PROVE  HubInvariant'
BY DEF HubInvariant, Steps

\* A step that only touches the links, or what hangs on them.
LEMMA LinksOnly ==
    ASSUME HubInvariant, UNCHANGED <<world, tasks>>, at' \in Steps,
           Table(hub', world), SameBook(hub, hub')
    PROVE  HubInvariant'
<1>1. world \in Worlds /\ Slots(hub, tasks, world)
    BY Invariant
<1>2. Slots(hub', tasks, world)
    BY <1>1, SlotsStay
<1> QED BY <1>1, <1>2, Anew

LEMMA DropInterruptedStep ==
    ASSUME HubInvariant, DropInterrupted PROVE HubInvariant'
<1> DEFINE idle == [hub EXCEPT !.writing = 0]
<1>1. world \in Worlds /\ world.max \in Nat /\ at \in Steps /\ Table(hub, world) /\ hub \in Hubs
    BY Invariant
<1>2. idle \in Hubs /\ SameTable(hub, idle) /\ SameBook(hub, idle) /\ idle.links = hub.links
    BY <1>1 DEF Hubs, SameTable, SameBook
<1>3. Table(idle, world)
    BY <1>1, <1>2, TableStays
<1>4. /\ hub' = IF hub.writing <= Len(hub.links) THEN DropLink(idle, hub.writing) ELSE idle
      /\ hub.writing # 0 /\ UNCHANGED <<world, tasks, at>>
    BY DEF DropInterrupted
<1> HIDE DEF idle
<1>5. CASE hub.writing <= Len(hub.links)
  <2>1. hub.links \in Seq(Link) /\ hub.writing \in Nat
      BY <1>1 DEF Hubs
  <2>2. hub.writing \in DOMAIN idle.links
      BY <1>2, <1>4, <1>5, <2>1
  <2>3. {hub.writing} \in SUBSET DOMAIN idle.links
      BY <2>2
  <2>4. hub' = DropLinks(idle, {hub.writing})
      BY <1>4, <1>5 DEF DropLink
  <2>5. Table(hub', world) /\ SameBook(idle, hub')
      BY <1>1, <1>3, <2>3, <2>4, Dropping
  <2>6. SameBook(hub, hub')
      BY <1>2, <2>5, SameBookTrans
  <2> QED BY <1>1, <1>4, <2>5, <2>6, LinksOnly
<1>6. CASE ~(hub.writing <= Len(hub.links))
  <2>1. hub' = idle
      BY <1>4, <1>6
  <2> QED BY <1>1, <1>2, <1>3, <1>4, <2>1, LinksOnly
<1> QED BY <1>5, <1>6

LEMMA PopEventStep ==
    ASSUME HubInvariant, PopEvent PROVE HubInvariant'
<1>1. world \in Worlds /\ at \in Steps /\ Table(hub, world) /\ hub \in Hubs
    BY Invariant
<1>2. hub' = [hub EXCEPT !.pending = Tail(hub.pending)] /\ hub.pending # <<>>
      /\ UNCHANGED <<world, tasks, at>>
    BY DEF PopEvent
<1>3. hub.pending \in Seq(Event)
    BY <1>1 DEF Hubs
<1>4. Tail(hub.pending) \in Seq(Event)
    BY <1>2, <1>3
<1>5. hub' \in Hubs /\ SameTable(hub, hub') /\ SameBook(hub, hub')
    BY <1>1, <1>2, <1>4 DEF Hubs, SameTable, SameBook
<1>6. Table(hub', world)
    BY <1>1, <1>5, TableStays
<1> QED BY <1>1, <1>2, <1>5, <1>6, LinksOnly

LEMMA DispatchStep ==
    ASSUME HubInvariant, Dispatch PROVE HubInvariant'
<1>1. world \in Worlds /\ world.max \in Nat /\ Table(hub, world)
    BY Invariant
<1>2. PICK failed \in SUBSET Writable(hub) : hub' = DropLinks(hub, failed)
    BY DEF Dispatch
<1>3. failed \in SUBSET DOMAIN hub.links
    BY DEF Writable
<1>4. Table(hub', world) /\ SameBook(hub, hub')
    BY <1>1, <1>2, <1>3, Dropping
<1>5. UNCHANGED <<world, tasks>> /\ at' \in Steps
    BY DEF Dispatch, Steps
<1> QED BY <1>4, <1>5, LinksOnly

LEMMA DispatchCancelledStep ==
    ASSUME HubInvariant, DispatchCancelled PROVE HubInvariant'
<1>1. world \in Worlds /\ at \in Steps /\ Table(hub, world) /\ hub \in Hubs
    BY Invariant
<1>2. PICK i \in Writable(hub) : hub' = [hub EXCEPT !.writing = i]
    BY DEF DispatchCancelled
<1>3. i \in Nat
  <2>1. hub.links \in Seq(Link) /\ i \in DOMAIN hub.links
      BY <1>1 DEF Hubs, Writable
  <2> QED BY <2>1
<1>4. hub' \in Hubs /\ SameTable(hub, hub') /\ SameBook(hub, hub')
    BY <1>1, <1>2, <1>3 DEF Hubs, SameTable, SameBook
<1>5. Table(hub', world)
    BY <1>1, <1>4, TableStays
<1>6. UNCHANGED <<world, tasks>> /\ at' \in Steps
    BY <1>1 DEF DispatchCancelled
<1> QED BY <1>4, <1>5, <1>6, LinksOnly

LEMMA ArbitrateStep ==
    ASSUME HubInvariant, Arbitrate PROVE HubInvariant'
<1>1. world \in Worlds /\ world.max \in Nat /\ Table(hub, world) /\ hub \in Hubs
    BY Invariant
<1>2. UNCHANGED <<world, tasks>>
    BY DEF Arbitrate
<1>3. CASE hub.duplicates = <<>>
  <2>1. hub' = hub /\ at' \in Steps
      BY <1>3 DEF Arbitrate, Steps
  <2>2. SameBook(hub, hub')
      BY <2>1 DEF SameBook
  <2> QED BY <1>1, <1>2, <2>1, <2>2, LinksOnly
<1>4. CASE hub.duplicates # <<>>
  <2> DEFINE d == hub.duplicates[1]
             ski == d.ski
             r == Resolve(hub, d)
  <2>1. \/ r = "Settled" /\ at' = "timers" /\ hub' = Forget(hub, ski)
        \/ r = "KeepNewest" /\ at' = "top" /\ hub' = CloseDuplicates(hub, ski)
        \/ r = "Wait" /\ at' = "timers" /\ hub' = WakeAt(hub, d.left)
        \/ r = "Probe" /\ at' \in {"timers", "top"}
           /\ \E failed \in SUBSET LinksTo(hub, ski) : hub' = ProbeLinks(hub, ski, failed)
        \/ r = "CloseAfterProbe" /\ at' = "top" /\ hub' = CloseAfterProbe(hub, ski)
      BY <1>4 DEF Arbitrate
  <2>2. d \in Double
    <3>1. hub.duplicates \in Seq(Double)
        BY <1>1 DEF Hubs
    <3> QED BY <1>4, <3>1
  <2>3. CASE r = "Settled" /\ at' = "timers" /\ hub' = Forget(hub, ski)
    <3>1. Cardinality(LinksTo(hub, ski)) < 2
        BY <2>3 DEF Resolve
    <3>2. Cardinality(LinksTo(hub, ski)) \in Nat
        BY <1>1, TwoLinks
    <3>3. ~(Cardinality(LinksTo(hub, ski)) > 1)
        BY <3>1, <3>2
    <3>a. ~\E i, j \in DOMAIN hub.links :
            i # j /\ hub.links[i].ski = ski /\ hub.links[j].ski = ski
        BY <1>1, <3>3, TwoLinks
    <3>4. \A i, j \in LinksTo(hub, ski) : i = j
        BY <3>a DEF LinksTo
    <3>5. Table(hub', world) /\ SameBook(hub, hub')
        BY <1>1, <2>3, <3>4, ForgettingKeeps
    <3> QED BY <1>2, <2>3, <3>5, LinksOnly DEF Steps
  <2>4. CASE r = "KeepNewest" /\ at' = "top" /\ hub' = CloseDuplicates(hub, ski)
    <3>1. Table(hub', world) /\ SameBook(hub, hub')
        BY <1>1, <2>4, ClosingDuplicates
    <3> QED BY <1>2, <2>4, <3>1, LinksOnly DEF Steps
  <2>5. CASE r = "Wait" /\ at' = "timers" /\ hub' = WakeAt(hub, d.left)
    <3>1. d.left \in Times
        BY <2>2 DEF Double
    <3>2. Table(hub', world) /\ SameBook(hub, hub')
        BY <1>1, <2>5, <3>1, Waking
    <3> QED BY <1>2, <2>5, <3>2, LinksOnly DEF Steps
  <2>6. CASE r = "Probe" /\ at' \in {"timers", "top"}
           /\ \E failed \in SUBSET LinksTo(hub, ski) : hub' = ProbeLinks(hub, ski, failed)
    <3>1. PICK failed \in SUBSET LinksTo(hub, ski) : hub' = ProbeLinks(hub, ski, failed)
        BY <2>6
    <3>2. Table(hub', world) /\ SameBook(hub, hub')
        BY <1>1, <1>4, <3>1, Probing
    <3> QED BY <1>2, <2>6, <3>2, LinksOnly DEF Steps
  <2>7. CASE r = "CloseAfterProbe" /\ at' = "top" /\ hub' = CloseAfterProbe(hub, ski)
    <3>1. Table(hub', world) /\ SameBook(hub, hub')
        BY <1>1, <2>7, ClosingAfterProbe
    <3> QED BY <1>2, <2>7, <3>1, LinksOnly DEF Steps
  <2> QED BY <2>1, <2>3, <2>4, <2>5, <2>6, <2>7
<1> QED BY <1>3, <1>4

\* The timers that are due, then the pings.
LEMMA TimersDue ==
    ASSUME NEW h, world \in Worlds, Table(h, world),
           NEW failed \in SUBSET ToPing(FireTimers(h))
    PROVE  /\ Table(Pinged(FireTimers(h), failed), world)
           /\ SameBook(h, Pinged(FireTimers(h), failed))
<1>1. Table(FireTimers(h), world) /\ SameBook(h, FireTimers(h))
    BY Firing
<1>2. /\ Table(Pinged(FireTimers(h), failed), world)
      /\ SameBook(FireTimers(h), Pinged(FireTimers(h), failed))
    BY <1>1, Pinging
<1> QED BY <1>1, <1>2, SameBookTrans

LEMMA TimersStep ==
    ASSUME HubInvariant, Timers PROVE HubInvariant'
<1>1. world \in Worlds /\ Table(hub, world) /\ Slots(hub, tasks, world)
    BY Invariant
<1>2. UNCHANGED world
    BY DEF Timers
<1>3. PICK wanted \in Redials(hub) :
        LET s == SpawnDials(hub, tasks, wanted)
        IN  /\ tasks' = s.tasks
            /\ IF Due(s.hub)
               THEN LET fired == FireTimers(s.hub)
                    IN  /\ at' = "top"
                        /\ \E failed \in SUBSET ToPing(fired) : hub' = Pinged(fired, failed)
               ELSE at' = "wait" /\ hub' = s.hub
    BY DEF Timers
<1>4. wanted \in Seq(Wanted)
    BY RedialsTyped
<1> DEFINE s == SpawnDials(hub, tasks, wanted)
           h == s.hub
<1>5. Table(h, world) /\ Slots(h, tasks', world)
    BY <1>1, <1>3, <1>4, Spawning
<1>6. CASE Due(h)
  <2>1. PICK failed \in SUBSET ToPing(FireTimers(h)) : hub' = Pinged(FireTimers(h), failed)
      BY <1>3, <1>6
  <2>2. at' \in Steps
      BY <1>3, <1>6 DEF Steps
  <2> HIDE DEF h
  <2>3. Table(hub', world) /\ SameBook(h, hub')
      BY <1>1, <1>5, <2>1, TimersDue
  <2>4. Slots(hub', tasks', world)
      BY <1>5, <2>3, SlotsStay
  <2> QED BY <1>1, <1>2, <2>2, <2>3, <2>4, Anew
<1>7. CASE ~Due(h)
  <2>1. hub' = h /\ at' \in Steps
      BY <1>3, <1>7 DEF Steps
  <2> QED BY <1>1, <1>2, <1>5, <2>1, Anew
<1> QED BY <1>6, <1>7

LEMMA DeadlineStep ==
    ASSUME HubInvariant, Deadline PROVE HubInvariant'
<1>1. world \in Worlds /\ Table(hub, world)
    BY Invariant
<1>2. PICK failed \in SUBSET ToPing(FireTimers(hub)) : hub' = Pinged(FireTimers(hub), failed)
    BY DEF Deadline
<1>3. Table(hub', world) /\ SameBook(hub, hub')
    BY <1>1, <1>2, TimersDue
<1>4. UNCHANGED <<world, tasks>> /\ at' \in Steps
    BY DEF Deadline, Steps
<1> QED BY <1>3, <1>4, LinksOnly

-----------------------------------------------------------------------------
(* Frames *)

LEMMA DroppingOne ==
    ASSUME NEW h, NEW w, Table(h, w), w.max \in Nat, NEW i \in DOMAIN h.links
    PROVE  Table(DropLink(h, i), w) /\ SameBook(h, DropLink(h, i))
<1>1. {i} \in SUBSET DOMAIN h.links
    OBVIOUS
<1> QED BY <1>1, Dropping DEF DropLink

LEMMA FrameDataStep ==
    ASSUME HubInvariant, NEW i \in DOMAIN hub.links, FrameData(i) PROVE HubInvariant'
<1>1. world \in Worlds /\ world.max \in Nat /\ Table(hub, world)
    BY Invariant
<1>2. PICK device \in Devices \cup {Own, None}, answers \in BOOLEAN :
        hub' = IF device # None /\ Conflict(hub, i, device)
               THEN DropLink(Heard(i), i) ELSE Receive(Heard(i), i, device, answers)
    BY DEF FrameData
<1>3. UNCHANGED <<world, tasks>> /\ at' \in Steps
    BY DEF FrameData, Steps
<1> DEFINE h == Heard(i)
<1>4. /\ Table(h, world) /\ SameBook(hub, h) /\ DOMAIN h.links = DOMAIN hub.links
      /\ \A j \in DOMAIN hub.links : h.links[j].device = hub.links[j].device
    BY <1>1, Hearing
<1>5. Conflict(h, i, device) <=> Conflict(hub, i, device)
  <2> HIDE DEF h
  <2> QED BY <1>4 DEF Conflict
<1>6. hub' = IF device # None /\ Conflict(h, i, device)
             THEN DropLink(h, i) ELSE Receive(h, i, device, answers)
    BY <1>2, <1>5
<1> HIDE DEF h
<1>7. Table(hub', world) /\ SameBook(h, hub')
  <2>1. CASE device # None /\ Conflict(h, i, device)
    <3>1. hub' = DropLink(h, i)
        BY <1>6, <2>1
    <3> QED BY <1>1, <1>4, <3>1, DroppingOne
  <2>2. CASE device = None \/ ~Conflict(h, i, device)
    <3>1. hub' = Receive(h, i, device, answers)
        BY <1>6, <2>2
    <3> QED BY <1>4, <2>2, <3>1, Receiving
  <2> QED BY <2>1, <2>2
<1>8. SameBook(hub, hub')
    BY <1>4, <1>7, SameBookTrans
<1> QED BY <1>3, <1>7, <1>8, LinksOnly

LEMMA FrameEndStep ==
    ASSUME HubInvariant, NEW i \in DOMAIN hub.links, FrameEnd(i) PROVE HubInvariant'
<1>1. world \in Worlds /\ world.max \in Nat /\ Table(hub, world)
    BY Invariant
<1>2. hub' = DropLink(hub, i) /\ UNCHANGED <<world, tasks>> /\ at' \in Steps
    BY DEF FrameEnd, Steps
<1>3. Table(hub', world) /\ SameBook(hub, hub')
    BY <1>1, <1>2, DroppingOne
<1> QED BY <1>2, <1>3, LinksOnly

LEMMA PongArrivesStep ==
    ASSUME HubInvariant, NEW i \in DOMAIN hub.links, PongArrives(i) PROVE HubInvariant'
<1> DEFINE l == [hub.links[i] EXCEPT !.waited = Off]
           ls == [hub.links EXCEPT ![i] = l]
<1>1. world \in Worlds /\ Table(hub, world) /\ hub \in Hubs /\ at \in Steps
    BY Invariant
<1>2. \A j \in DOMAIN hub.links : hub.links[j] \in Link
    BY <1>1, LinkTyped
<1>3. l \in Link /\ l.ski = hub.links[i].ski /\ l.device = hub.links[i].device
    BY <1>2, LimitsAssumption DEF Link, Off
<1>4. hub' = [hub EXCEPT !.links = ls] /\ UNCHANGED <<world, tasks, at>>
    BY <1>1 DEF PongArrives, Hubs
<1> HIDE DEF l
<1>5. ls = [j \in DOMAIN hub.links |-> ls[j]]
      /\ \A j \in DOMAIN hub.links : ls[j] = IF j = i THEN l ELSE hub.links[j]
    OBVIOUS
<1> HIDE DEF ls
<1>6. \A j \in DOMAIN hub.links : /\ ls[j] \in Link
                                  /\ ls[j].ski = hub.links[j].ski
                                  /\ ls[j].device = hub.links[j].device
    BY <1>2, <1>3, <1>5
<1>7. Table(hub', world) /\ SameBook(hub, hub')
    BY ONLY <1>1, <1>4, <1>5, <1>6, Relinking
<1> QED BY <1>1, <1>4, <1>7, LinksOnly

-----------------------------------------------------------------------------
(* Handshakes, beside the hub *)

\* One handshake goes on.
LEMMA OneGoesOn ==
    ASSUME HubInvariant, NEW t \in DOMAIN tasks, NEW u \in Handshake,
           u.kind = tasks[t].kind, u.from = tasks[t].from, u.expected = tasks[t].expected,
           tasks[t].peer # None => u.peer = tasks[t].peer,
           NEW us, us = [tasks EXCEPT ![t] = u]
    PROVE  us \in Seq(Handshake) /\ DOMAIN us = DOMAIN tasks /\ Slots(hub, us, world)
<1>1. hub \in Hubs /\ Slots(hub, tasks, world) /\ tasks \in Seq(Handshake)
    BY Invariant
<1>2. us \in Seq(Handshake) /\ DOMAIN us = DOMAIN tasks
    BY <1>1
<1>3. \A k \in DOMAIN tasks : us[k] = IF k = t THEN u ELSE tasks[k]
    OBVIOUS
<1>4. \A k \in DOMAIN tasks :
        /\ us[k].kind = tasks[k].kind /\ us[k].from = tasks[k].from
        /\ us[k].expected = tasks[k].expected
        /\ tasks[k].peer # None => us[k].peer = tasks[k].peer
    BY <1>3
<1>5. Slots(hub, us, world)
    BY <1>1, <1>2, <1>4, GoingOn
<1> QED BY <1>2, <1>5

LEMMA TaskOf ==
    ASSUME HubInvariant, NEW t \in DOMAIN tasks
    PROVE  tasks[t] \in Handshake
<1>1. tasks \in Seq(Handshake)
    BY Invariant
<1> QED BY <1>1

\* A step that leaves the hub alone.
LEMMA TasksOnly ==
    ASSUME HubInvariant, UNCHANGED <<world, hub>>, at' \in Steps, Slots(hub, tasks', world)
    PROVE  HubInvariant'
<1>1. world \in Worlds /\ Table(hub, world)
    BY Invariant
<1> QED BY <1>1, Anew

LEMMA TaskConnectsStep ==
    ASSUME HubInvariant, NEW t \in DOMAIN tasks, TaskConnects(t) PROVE HubInvariant'
<1>1. world \in Worlds /\ at \in Steps /\ tasks \in Seq(Handshake)
    BY Invariant
<1>2. UNCHANGED <<world, hub, at>> /\ tasks[t].phase = "open"
    BY DEF TaskConnects
<1>3. PICK p \in world.peers :
        LET known == p \in node.trusted
        IN  tasks' = [tasks EXCEPT ![t].peer = p, ![t].woken = FALSE,
                        ![t].phase = IF known THEN "trusted" ELSE "pending",
                        ![t].asked = IF known THEN "no" ELSE "sent"]
    BY DEF TaskConnects
<1>4. p \in Skis
    BY <1>1, WorldsAssumption
<1> DEFINE ph == IF p \in node.trusted THEN "trusted" ELSE "pending"
           as == IF p \in node.trusted THEN "no" ELSE "sent"
           o == tasks[t]
           u == [o EXCEPT !.peer = p, !.woken = FALSE, !.phase = ph, !.asked = as]
<1>5. o \in Handshake
    BY TaskOf
<1>6. o.peer = None
    BY <1>2, <1>5 DEF Handshake
<1>7. ph \in Phases /\ ph \in {"trusted", "pending"} /\ as \in {"no", "sent", "handled"}
    BY DEF Phases
<1>8. tasks' = [tasks EXCEPT ![t] = u]
    BY <1>1, <1>3, <1>5 DEF Handshake
<1> HIDE DEF ph, as, o
<1>9. /\ u \in Handshake /\ u.kind = o.kind /\ u.from = o.from /\ u.expected = o.expected
    BY <1>4, <1>5, <1>7 DEF Handshake
<1> HIDE DEF u
<1>10. Slots(hub, tasks', world)
    BY <1>6, <1>8, <1>9, OneGoesOn DEF o
<1> QED BY <1>1, <1>2, <1>10, TasksOnly

LEMMA TaskDecidesStep ==
    ASSUME HubInvariant, NEW t \in DOMAIN tasks, TaskDecides(t) PROVE HubInvariant'
<1>1. world \in Worlds /\ at \in Steps /\ tasks \in Seq(Handshake)
    BY Invariant
<1>2. UNCHANGED <<world, hub, at>> /\ tasks[t].phase \in {"pending", "trusted"}
    BY DEF TaskDecides
<1> DEFINE o == tasks[t]
           next == IF o.phase = "trusted" THEN "trusted"
                   ELSE IF o.peer \in node.refusals THEN "failed"
                   ELSE IF o.peer \in node.trusted THEN "trusted" ELSE "pending"
           u == [o EXCEPT !.woken = FALSE, !.phase = next]
<1>3. tasks' = [tasks EXCEPT ![t].woken = FALSE, ![t].phase = next]
    BY DEF TaskDecides
<1>5. o \in Handshake
    BY TaskOf
<1>7. next \in Phases /\ next # "open"
    BY DEF Phases
<1>8. tasks' = [tasks EXCEPT ![t] = u]
    BY <1>1, <1>3, <1>5 DEF Handshake
<1>a. o.peer \in Skis
    BY <1>2, <1>5 DEF Handshake
<1> HIDE DEF next, o
<1>9. /\ u \in Handshake /\ u.kind = o.kind /\ u.from = o.from /\ u.expected = o.expected
      /\ u.peer = o.peer
    BY <1>a, <1>5, <1>7 DEF Handshake
<1> HIDE DEF u
<1>10. Slots(hub, tasks', world)
    BY <1>8, <1>9, OneGoesOn DEF o
<1> QED BY <1>1, <1>2, <1>10, TasksOnly

LEMMA TaskEndsStep ==
    ASSUME HubInvariant, NEW t \in DOMAIN tasks, TaskEnds(t) PROVE HubInvariant'
<1>1. world \in Worlds /\ at \in Steps /\ tasks \in Seq(Handshake)
    BY Invariant
<1>2. UNCHANGED <<world, hub, at>>
    BY DEF TaskEnds
<1> DEFINE o == tasks[t]
<1>3. PICK next : /\ next = "failed" \/ (next = "ok" /\ o.phase = "trusted")
                  /\ tasks' = [tasks EXCEPT ![t].phase = next]
    BY DEF TaskEnds
<1> DEFINE u == [o EXCEPT !.phase = next]
<1>4. o \in Handshake
    BY TaskOf
<1>5. next \in Phases /\ next # "open" /\ (next = "ok" => o.peer \in Skis)
    BY <1>3, <1>4 DEF Phases, Handshake
<1>6. tasks' = [tasks EXCEPT ![t] = u]
    BY <1>1, <1>3, <1>4 DEF Handshake
<1> HIDE DEF o
<1>a. next \notin {"pending", "trusted"}
    BY <1>3
<1>7. /\ u \in Handshake /\ u.kind = o.kind /\ u.from = o.from /\ u.expected = o.expected
      /\ u.peer = o.peer
    BY <1>a, <1>4, <1>5 DEF Handshake
<1> HIDE DEF u
<1>8. Slots(hub, tasks', world)
    BY <1>6, <1>7, OneGoesOn DEF o
<1> QED BY <1>1, <1>2, <1>8, TasksOnly

\* Every handshake is woken.
LEMMA AllWoken ==
    ASSUME NEW h \in Hubs, NEW ts, NEW w, Slots(h, ts, w),
           NEW us, us = [k \in DOMAIN ts |-> [ts[k] EXCEPT !.woken = TRUE]]
    PROVE  Slots(h, us, w)
<1>1. ts \in Seq(Handshake)
    BY DEF Slots
<1>2. \A k \in DOMAIN ts : ts[k] \in Handshake
    BY <1>1
<1>3. \A u \in Handshake : /\ [u EXCEPT !.woken = TRUE] \in Handshake
                           /\ [u EXCEPT !.woken = TRUE].kind = u.kind
                           /\ [u EXCEPT !.woken = TRUE].from = u.from
                           /\ [u EXCEPT !.woken = TRUE].expected = u.expected
                           /\ [u EXCEPT !.woken = TRUE].peer = u.peer
    BY DEF Handshake
<1>4. \A k \in DOMAIN ts : us[k] = [ts[k] EXCEPT !.woken = TRUE]
    OBVIOUS
<1>5. us = [k \in DOMAIN ts |-> us[k]] /\ \A k \in DOMAIN ts : us[k] \in Handshake
    BY <1>2, <1>3
<1>6. us \in Seq(Handshake) /\ DOMAIN us = DOMAIN ts
    BY ONLY <1>1, <1>5, PlaceByPlace
<1>7. \A k \in DOMAIN ts :
        /\ us[k].kind = ts[k].kind /\ us[k].from = ts[k].from
        /\ us[k].expected = ts[k].expected
        /\ ts[k].peer # None => us[k].peer = ts[k].peer
    BY <1>2, <1>3, <1>4
<1> QED BY ONLY <1>6, <1>7, GoingOn, h \in Hubs, Slots(h, ts, w)

LEMMA EmittingSlots ==
    ASSUME NEW h, NEW ts, NEW w, Table(h, w), Slots(h, ts, w),
           NEW e \in Happenings, NEW ski \in Skis \cup {None}
    PROVE  Table(Emit(h, e, ski), w) /\ Slots(Emit(h, e, ski), ts, w)
<1>1. Table(Emit(h, e, ski), w) /\ SameBook(h, Emit(h, e, ski))
    BY EmittingKeeps
<1> QED BY <1>1, SlotsStay

LEMMA HandleTrustRequestedStep ==
    ASSUME HubInvariant, NEW t \in DOMAIN tasks, HandleTrustRequested(t) PROVE HubInvariant'
<1> DEFINE o == tasks[t]
           p == o.peer
           u == [o EXCEPT !.asked = "handled"]
           seen == [tasks EXCEPT ![t].asked = "handled"]
           same == \E v \in hub.awaiting : v.origin = Origin(tasks[t])
           waiting == \E v \in hub.awaiting : v.ski = p
           entry == [origin |-> Origin(tasks[t]), ski |-> p]
           more == [hub EXCEPT !.awaiting = hub.awaiting \cup {entry}]
           woken == [k \in DOMAIN seen |-> [seen[k] EXCEPT !.woken = TRUE]]
<1>1. /\ world \in Worlds /\ Table(hub, world) /\ hub \in Hubs /\ tasks \in Seq(Handshake)
      /\ Slots(hub, tasks, world)
    BY Invariant
<1>2. UNCHANGED world /\ at' \in Steps /\ o.asked = "sent"
    BY DEF HandleTrustRequested, Steps
<1>3. o \in Handshake
    BY TaskOf
<1>4. p \in Skis
    BY <1>2, <1>3 DEF Handshake
<1>5. u \in Handshake /\ u.kind = o.kind /\ u.from = o.from /\ u.expected = o.expected
      /\ u.peer = o.peer
    BY <1>2, <1>3, <1>4 DEF Handshake
<1>6. seen = [tasks EXCEPT ![t] = u]
    BY <1>3 DEF Handshake
<1>7. seen \in Seq(Handshake) /\ DOMAIN seen = DOMAIN tasks /\ Slots(hub, seen, world)
  <2> HIDE DEF u, seen
  <2> QED BY <1>5, <1>6, OneGoesOn
<1>8. seen[t] = u
  <2> HIDE DEF u
  <2> QED BY <1>6
<1>9. CASE same \/ waiting
  <2>1. tasks' = seen /\ UNCHANGED hub
      BY <1>9 DEF HandleTrustRequested
  <2> HIDE DEF seen
  <2> QED BY <1>1, <1>2, <1>7, <2>1, TasksOnly
<1>10. CASE ~(same \/ waiting) /\ Cardinality(hub.awaiting) >= MAX_PENDING_TRUST
  <2>1. tasks' = woken /\ hub' = Emit(hub, "HandshakeFailed", p)
      BY <1>10 DEF HandleTrustRequested
  <2>2. Slots(hub, woken, world)
    <3> HIDE DEF seen
    <3> QED BY <1>1, <1>7, AllWoken
  <2> HIDE DEF woken
  <2>3. Table(hub', world) /\ Slots(hub', woken, world)
      BY <1>1, <1>4, <2>1, <2>2, EmittingSlots DEF Happenings
  <2> QED BY <1>1, <1>2, <2>1, <2>3, Anew
<1>11. CASE ~(same \/ waiting) /\ ~(Cardinality(hub.awaiting) >= MAX_PENDING_TRUST)
  <2>1. tasks' = seen /\ hub' = Emit(more, "TrustRequested", p)
      BY <1>11 DEF HandleTrustRequested
  <2>2. entry \in Waiting
      BY <1>3, <1>4 DEF Handshake, Waiting, Origin
  <2>3. entry.ski = p /\ entry.origin = Origin(o)
      OBVIOUS
  <2> HIDE DEF entry
  <2>4. more \in Hubs /\ SameTable(hub, more) /\ more.inFlight = hub.inFlight
        /\ more.known = hub.known /\ more.awaiting = hub.awaiting \cup {entry}
      BY <1>1, <2>2 DEF Hubs, SameTable
  <2> HIDE DEF more
  <2>5. Table(more, world)
      BY <1>1, <2>4, TableStays
  <2>6. Counts(more, seen, world) /\ Dialings(more, seen)
    <3> HIDE DEF seen
    <3> QED BY <1>7, <2>4 DEF Slots, Counts, Dialings
  <2>7. Pairings(more, seen)
    <3>1. Origin(seen[t]) = entry.origin /\ seen[t].peer = entry.ski /\ t \in DOMAIN seen
        BY <1>5, <1>7, <1>8, <2>3 DEF Origin
    <3>2. ASSUME NEW v \in more.awaiting
          PROVE  \E k \in DOMAIN seen : Origin(seen[k]) = v.origin /\ seen[k].peer = v.ski
      <4>1. CASE v = entry
          BY <3>1, <4>1
      <4>2. CASE v \in hub.awaiting
        <5> HIDE DEF seen
        <5> QED BY <1>7, <4>2 DEF Slots, Pairings
      <4> QED BY <2>4, <4>1, <4>2
    <3>3. \A v, x \in more.awaiting : v.ski = x.ski => v = x
      <4>1. \A v \in hub.awaiting : v.ski # entry.ski
          BY <1>11, <2>3
      <4> QED BY <1>1, <2>4, <4>1 DEF Slots, Pairings
    <3> HIDE DEF seen
    <3> QED BY <3>2, <3>3 DEF Pairings
  <2>8. Slots(more, seen, world)
    <3> HIDE DEF seen
    <3> QED BY <1>7, <2>6, <2>7 DEF Slots
  <2>9. Table(hub', world) /\ Slots(hub', seen, world)
    <3> HIDE DEF seen
    <3> QED BY <1>4, <2>1, <2>5, <2>8, EmittingSlots DEF Happenings
  <2> HIDE DEF seen
  <2> QED BY <1>1, <1>2, <2>1, <2>9, Anew
<1> QED BY <1>9, <1>10, <1>11

LEMMA HandleFailedStep ==
    ASSUME HubInvariant, NEW t \in DOMAIN tasks, HandleFailed(t) PROVE HubInvariant'
<1> DEFINE back == Released(tasks[t])
           e == tasks[t].expected
           rest == Kept(tasks, DOMAIN tasks \ {t})
           g == IF e = None THEN back ELSE DeferRedial(back, e)
<1>1. world \in Worlds /\ Table(hub, world) /\ Slots(hub, tasks, world)
    BY Invariant
<1>2. /\ hub' = Emit(g, "HandshakeFailed", tasks[t].peer) /\ tasks' = rest
      /\ UNCHANGED world /\ at' \in Steps
    BY DEF HandleFailed, Steps
<1>3. tasks[t] \in Handshake
    BY TaskOf
<1>4. e \in Skis \cup {None} /\ tasks[t].peer \in Skis \cup {None}
    BY <1>3 DEF Handshake
<1>5. Table(back, world) /\ Slots(back, rest, world)
    BY <1>1, Leaving
<1> HIDE DEF back, rest
<1>6. Table(g, world) /\ Slots(g, rest, world)
  <2>1. CASE e = None
      BY <1>5, <2>1
  <2>2. CASE e # None
    <3>1. e \in Skis
        BY <1>4, <2>2
    <3> HIDE DEF e
    <3> QED BY <1>5, <2>2, <3>1, Deferring
  <2> QED BY <2>1, <2>2
<1> HIDE DEF g
<1>7. Table(hub', world) /\ Slots(hub', rest, world)
    BY <1>2, <1>4, <1>6, EmittingSlots DEF Happenings
<1> QED BY <1>1, <1>2, <1>7, Anew

LEMMA HandleEstablishedStep ==
    ASSUME HubInvariant, NEW t \in DOMAIN tasks, HandleEstablished(t) PROVE HubInvariant'
<1> DEFINE o == tasks[t]
           back == Released(o)
           ski == o.peer
           e == o.expected
           kind == o.kind
           why == Refusal(back, ski, kind)
           rest == Kept(tasks, DOMAIN tasks \ {t})
           up == AdoptFrom(back, ski, kind)
           gone == [back EXCEPT !.known[ski] = Forgotten]
           put == IF e = None THEN back ELSE DeferRedial(back, e)
           met == [up EXCEPT !.known[ski].attempts = 0, !.known[ski].wait = 0]
<1>1. world \in Worlds /\ Table(hub, world) /\ Slots(hub, tasks, world)
    BY Invariant
<1>2. /\ tasks' = rest /\ UNCHANGED world /\ at' \in Steps /\ o.phase = "ok"
      /\ hub' = IF why = None
                THEN IF e = None THEN up
                     ELSE IF e # ski THEN DeferRedial(up, e)
                     ELSE IF Known(up, ski) THEN met ELSE up
                ELSE Emit(IF why = "SelfConnection" THEN Unsighted(gone, ski) ELSE put,
                          "HandshakeFailed", ski)
    BY DEF HandleEstablished, Steps
<1>3. o \in Handshake
    BY TaskOf
<1>4. e \in Skis \cup {None} /\ ski \in Skis /\ kind \in Kinds
    BY <1>2, <1>3 DEF Handshake
<1>5. Table(back, world) /\ Slots(back, rest, world)
    BY <1>1, Leaving
<1> HIDE DEF o, back, rest
<1>6. CASE why = None
  <2>1. ski \in Peers /\ Len(back.links) < world.max
      BY <1>4, <1>6 DEF Refusal, HasSlotFor, Skis, None
  <2>2. Table(up, world) /\ SameBook(back, up)
    <3> HIDE DEF ski, kind
    <3> QED BY <1>1, <1>4, <1>5, <2>1, Adopting
  <2> HIDE DEF up, ski, e
  <2>3. Slots(up, rest, world)
      BY <1>5, <2>2, SlotsStay
  <2>4. e # None => Table(DeferRedial(up, e), world) /\ Slots(DeferRedial(up, e), rest, world)
      BY <1>4, <2>2, <2>3, Deferring
  <2>5. Table(met, world) /\ Slots(met, rest, world)
    <3> DEFINE r == [up.known[ski] EXCEPT !.attempts = 0, !.wait = 0]
    <3>1. up \in Hubs /\ up.known \in [Skis -> Remembered] /\ up.known[ski] \in Remembered
        BY <1>4, <2>2, KnownTyped
    <3>2. 0 \in Times /\ 0 \in 0 .. MaxAttempts
        BY LimitsAssumption DEF Times, Off
    <3>3. r \in Remembered /\ (r.dialing => up.known[ski].dialing)
        BY <3>1, <3>2 DEF Remembered
    <3>4. met = [up EXCEPT !.known[ski] = r]
        BY <1>4, <3>1 DEF Hubs, Remembered
    <3> HIDE DEF r, met
    <3> QED BY <1>4, <2>2, <2>3, <3>3, <3>4, RememberingOne
  <2> HIDE DEF met
  <2>6. Table(hub', world) /\ Slots(hub', rest, world)
      BY <1>2, <1>6, <2>2, <2>3, <2>4, <2>5
  <2> QED BY <1>1, <1>2, <2>6, Anew
<1>7. CASE why # None
  <2> DEFINE g == IF why = "SelfConnection" THEN Unsighted(gone, ski) ELSE put
  <2>1. hub' = Emit(g, "HandshakeFailed", ski)
      BY <1>2, <1>7
  <2> HIDE DEF ski, e, why
  <2>2. Table(gone, world) /\ Slots(gone, rest, world)
      BY <1>4, <1>5, ForgettingIt
  <2> HIDE DEF gone
  <2>3. Table(Unsighted(gone, ski), world) /\ Slots(Unsighted(gone, ski), rest, world)
      BY <2>2, Unsighting
  <2>4. e # None => Table(DeferRedial(back, e), world) /\ Slots(DeferRedial(back, e), rest, world)
      BY <1>4, <1>5, Deferring
  <2>5. Table(g, world) /\ Slots(g, rest, world)
      BY <1>5, <2>3, <2>4
  <2> HIDE DEF g
  <2>6. Table(hub', world) /\ Slots(hub', rest, world)
      BY <1>4, <2>1, <2>5, EmittingSlots DEF Happenings
  <2> QED BY <1>1, <1>2, <2>6, Anew
<1> QED BY <1>6, <1>7

LEMMA ApproveStep ==
    ASSUME HubInvariant, NEW ski \in Skis, Approve(ski) PROVE HubInvariant'
<1> DEFINE less == Unsighted(hub, ski)
           known == RememberIn(less, ski)
           found == [known EXCEPT !.known[ski].found = TRUE]
<1>1. world \in Worlds /\ Table(hub, world) /\ Slots(hub, tasks, world) /\ hub \in Hubs
    BY Invariant
<1>2. /\ UNCHANGED world /\ at' \in Steps /\ tasks' = Touched
      /\ hub' = found \/ hub' = hub
    BY DEF Approve, AppTurn, Steps
<1>3. Slots(hub, Touched, world)
    BY <1>1, AllWoken DEF Touched
<1> HIDE DEF less
<1>4. Table(less, world) /\ Slots(less, Touched, world)
    BY <1>1, <1>3, Unsighting DEF less
<1>5. Table(known, world) /\ Slots(known, Touched, world)
    BY <1>4, RememberingIn
<1> HIDE DEF known
<1>6. Table(found, world) /\ Slots(found, Touched, world)
    BY <1>5, FindingIt
<1> HIDE DEF found
<1>7. Table(hub', world) /\ Slots(hub', tasks', world)
    BY <1>1, <1>2, <1>3, <1>6
<1> QED BY <1>1, <1>2, <1>7, Anew

LEMMA RefuseStep ==
    ASSUME HubInvariant, NEW ski, Refuse(ski) PROVE HubInvariant'
<1>1. Slots(hub, tasks, world) /\ hub \in Hubs
    BY Invariant
<1>2. UNCHANGED <<world, hub>> /\ at' \in Steps /\ tasks' = Touched
    BY DEF Refuse, RefusePairing, AppTurn, Steps
<1>3. Slots(hub, Touched, world)
    BY <1>1, AllWoken DEF Touched
<1> QED BY <1>2, <1>3, TasksOnly

LEMMA DialStep ==
    ASSUME HubInvariant, NEW address \in world.peers, Dial(address) PROVE HubInvariant'
<1> DEFINE wanted == <<[from |-> address, expected |-> None]>>
           s == SpawnDials(hub, tasks, wanted)
<1>1. world \in Worlds /\ Table(hub, world) /\ Slots(hub, tasks, world)
    BY Invariant
<1>2. UNCHANGED world /\ at' \in Steps /\ hub' = s.hub /\ tasks' = s.tasks
    BY DEF Dial, AppTurn, Steps
<1>3. address \in Skis
    BY <1>1, WorldsAssumption
<1>4. wanted \in Seq(Wanted)
    BY <1>3 DEF Wanted, Addresses
<1> HIDE DEF wanted
<1>5. Table(s.hub, world) /\ Slots(s.hub, s.tasks, world)
    BY <1>1, <1>4, Spawning
<1> HIDE DEF s
<1>6. Table(hub', world) /\ Slots(hub', tasks', world)
    BY <1>2, <1>5
<1> QED BY <1>1, <1>2, <1>6, Anew

LEMMA RememberStep ==
    ASSUME HubInvariant, NEW ski \in Skis, Remember(ski) PROVE HubInvariant'
<1>1. world \in Worlds /\ Table(hub, world) /\ Slots(hub, tasks, world)
    BY Invariant
<1>2. /\ UNCHANGED <<world, tasks>> /\ at' \in Steps
      /\ hub' = RememberIn(hub, ski)
    BY DEF Remember, AppTurn, Steps
<1>3. Table(hub', world) /\ Slots(hub', tasks', world)
    BY <1>1, <1>2, RememberingIn
<1> QED BY <1>1, <1>2, <1>3, Anew

LEMMA ForgetPeerStep ==
    ASSUME HubInvariant, NEW ski \in Skis, ForgetPeer(ski) PROVE HubInvariant'
<1>1. world \in Worlds /\ Table(hub, world) /\ Slots(hub, tasks, world)
    BY Invariant
<1>2. /\ UNCHANGED <<world, tasks>> /\ at' \in Steps
      /\ hub' = [hub EXCEPT !.known[ski] = Forgotten]
    BY DEF ForgetPeer, AppTurn, Steps
<1>3. Table(hub', world) /\ Slots(hub', tasks', world)
    BY <1>1, <1>2, ForgettingIt
<1> QED BY <1>1, <1>2, <1>3, Anew

LEMMA CloseStep ==
    ASSUME HubInvariant, NEW ski, Close(ski) PROVE HubInvariant'
<1>1. world.max \in Nat /\ Table(hub, world)
    BY Invariant
<1>2. /\ UNCHANGED <<world, tasks>> /\ at' \in Steps
      /\ hub' = DropLinks(hub, LinksTo(hub, ski))
    BY DEF Close, CloseLinksWith, AppTurn, Steps
<1>3. LinksTo(hub, ski) \in SUBSET DOMAIN hub.links
    BY DEF LinksTo
<1>4. Table(hub', world) /\ SameBook(hub, hub')
    BY <1>1, <1>2, <1>3, Dropping
<1> QED BY <1>2, <1>4, LinksOnly

LEMMA DisconnectStep ==
    ASSUME HubInvariant, NEW ski \in Skis, Disconnect(ski) PROVE HubInvariant'
<1> DEFINE S == DOMAIN hub.links \ LinksTo(hub, ski)
           f == [hub EXCEPT !.links = Kept(hub.links, S)]
           g == Forget(f, ski)
<1>1. world \in Worlds /\ world.max \in Nat /\ Table(hub, world) /\ hub \in Hubs
    BY Invariant
<1>2. /\ UNCHANGED <<world, tasks>> /\ at' \in Steps
      /\ hub' = Emit(g, "Disconnected", ski)
    BY DEF Disconnect, AppTurn, Steps
<1>3. S \in SUBSET DOMAIN hub.links /\ \A i \in S : hub.links[i].ski # ski
    BY DEF LinksTo
<1> HIDE DEF S
<1>4. hub.links \in Seq(Link)
    BY <1>1 DEF Hubs
<1>5. Kept(hub.links, S) \in Seq(Link)
    BY <1>3, <1>4, KeptEntries
<1>6. /\ f \in Hubs /\ f.links = Kept(hub.links, S) /\ f.duplicates = hub.duplicates
      /\ f.sightings = hub.sightings /\ SameBook(hub, f)
  <2>1. f \in Hubs
      BY <1>1, <1>5 DEF Hubs
  <2>2. f.links = Kept(hub.links, S) /\ f.duplicates = hub.duplicates
        /\ f.sightings = hub.sightings
      BY <1>1 DEF Hubs
  <2>3. SameBook(hub, f)
      BY <1>1 DEF Hubs, SameBook
  <2> QED BY <2>1, <2>2, <2>3
<1> HIDE DEF f
<1>7. Table(f, world)
  <2>1. \A i, j \in S : i # j /\ hub.links[i].ski = hub.links[j].ski =>
          \E d \in DOMAIN f.duplicates : f.duplicates[d].ski = hub.links[i].ski
      BY <1>1, <1>3, <1>6 DEF Table, Watch
  <2> QED BY <1>1, <1>3, <1>6, <2>1, FewerLinks
<1>8. \A i, j \in LinksTo(f, ski) : i = j
  <2> SUFFICES ASSUME NEW k \in LinksTo(f, ski) PROVE FALSE
      OBVIOUS
  <2>1. k \in DOMAIN f.links /\ f.links[k].ski = ski
      BY DEF LinksTo
  <2>2. Place(S, k) \in S /\ f.links[k] = hub.links[Place(S, k)]
      BY <1>3, <1>4, <1>6, <2>1, KeptEntries
  <2> QED BY <1>3, <2>1, <2>2
<1>9. Table(g, world) /\ SameBook(f, g)
    BY <1>7, <1>8, ForgettingKeeps
<1> HIDE DEF g
<1>10. Table(hub', world) /\ SameBook(g, hub')
    BY <1>2, <1>9, EmittingKeeps DEF Happenings
<1>11. SameBook(hub, hub')
    BY <1>6, <1>9, <1>10, SameBookTrans
<1> QED BY <1>2, <1>10, <1>11, LinksOnly

\* What changes nothing the invariant speaks of.
LEMMA OwnInstance ==
    ASSUME HubInvariant, NEW b \in BOOLEAN, hub' = [hub EXCEPT !.ownInstance = b],
           UNCHANGED <<world, tasks>>, at' \in Steps
    PROVE  HubInvariant'
<1>1. world \in Worlds /\ Table(hub, world) /\ hub \in Hubs
    BY Invariant
<1>2. hub' \in Hubs
    BY <1>1 DEF Hubs
<1>3. SameTable(hub, hub')
    BY <1>1 DEF Hubs, SameTable
<1>4. SameBook(hub, hub')
    BY <1>1 DEF Hubs, SameBook
<1>5. Table(hub', world)
    BY <1>1, <1>2, <1>3, TableStays
<1> QED BY <1>4, <1>5, LinksOnly

\* A peer seen on the network: remembered if it is trusted, otherwise on the short list of
\* sightings, whose oldest entry makes room.
LEMMA Discovering ==
    ASSUME world \in Worlds, Table(hub, world), Slots(hub, tasks, world), NEW ski \in Skis
    PROVE  /\ Table(RememberDiscovered(hub, ski), world)
           /\ Slots(RememberDiscovered(hub, ski), tasks, world)
<1> DEFINE known == RememberIn(hub, ski)
           found == [known EXCEPT !.known[ski].found = TRUE]
           s == Unsighted(hub, ski).sightings
           room == IF Len(s) >= MAX_SIGHTINGS THEN Tail(s) ELSE s
           longer == Append(room, ski)
           seen == [hub EXCEPT !.sightings = longer]
<1>1. RememberDiscovered(hub, ski) = IF ski \in node.trusted THEN found ELSE seen
    BY DEF RememberDiscovered
<1>2. Table(known, world) /\ Slots(known, tasks, world)
    BY RememberingIn
<1>3. Table(found, world) /\ Slots(found, tasks, world)
  <2> HIDE DEF known
  <2> QED BY <1>2, FindingIt
<1>4. s \in Seq(Skis) /\ Len(s) <= MAX_SIGHTINGS
    BY Unsighting
<1>5. longer \in Seq(Skis) /\ Len(longer) <= MAX_SIGHTINGS
  <2> HIDE DEF s
  <2>1. Len(s) \in Nat /\ MAX_SIGHTINGS \in Nat /\ MAX_SIGHTINGS > 0
      BY <1>4, LimitsAssumption
  <2>2. room \in Seq(Skis) /\ Len(room) + 1 <= MAX_SIGHTINGS
    <3>1. CASE Len(s) >= MAX_SIGHTINGS
      <4>1. s # <<>>
          BY <2>1, <3>1
      <4>2. Tail(s) \in Seq(Skis) /\ Len(Tail(s)) = Len(s) - 1
          BY <1>4, <4>1, HeadTailProperties
      <4> QED BY <1>4, <2>1, <3>1, <4>2
    <3>2. CASE ~(Len(s) >= MAX_SIGHTINGS)
        BY <1>4, <2>1, <3>2
    <3> QED BY <3>1, <3>2
  <2> HIDE DEF room
  <2> QED BY <2>2, AppendProperties
<1> HIDE DEF longer
<1>6. hub \in Hubs
    BY DEF Table
<1>7. seen \in Hubs
    BY <1>5, <1>6 DEF Hubs
<1>8. /\ seen.links = hub.links /\ seen.duplicates = hub.duplicates
      /\ seen.sightings = longer
    BY <1>6 DEF Hubs
<1>9. SameBook(hub, seen)
    BY <1>6 DEF Hubs, SameBook
<1> HIDE DEF seen, found
<1>10. Table(seen, world)
    BY <1>5, <1>7, <1>8 DEF Table, Watch
<1>11. Slots(seen, tasks, world)
    BY <1>9, SlotsStay
<1> QED BY <1>1, <1>3, <1>10, <1>11

LEMMA FoundStep ==
    ASSUME HubInvariant, NEW ski \in Skis, Found(ski) PROVE HubInvariant'
<1>1. world \in Worlds /\ Table(hub, world) /\ Slots(hub, tasks, world)
    BY Invariant
<1>2. UNCHANGED <<world, tasks>> /\ at' \in Steps
    BY DEF Found, Steps
<1>3. CASE ski = Self
    BY <1>2, <1>3, OwnInstance DEF Found
<1>4. CASE ski # Self
  <2> DEFINE g == RememberDiscovered(hub, ski)
  <2>1. hub' = Emit(g, "Found", ski)
      BY <1>4 DEF Found
  <2>2. Table(g, world) /\ Slots(g, tasks, world)
      BY <1>1, Discovering
  <2> HIDE DEF g
  <2>3. Table(hub', world) /\ Slots(hub', tasks', world)
      BY <1>2, <2>1, <2>2, EmittingSlots DEF Happenings
  <2> QED BY <1>1, <1>2, <2>3, Anew
<1> QED BY <1>3, <1>4

LEMMA LostStep ==
    ASSUME HubInvariant, NEW ski \in Skis, Lost(ski) PROVE HubInvariant'
<1>1. world \in Worlds /\ Table(hub, world) /\ Slots(hub, tasks, world)
    BY Invariant
<1>2. UNCHANGED <<world, tasks>> /\ at' \in Steps
    BY DEF Lost, Steps
<1>3. CASE ski = Self /\ hub.ownInstance
    BY <1>2, <1>3, OwnInstance DEF Lost
<1>4. CASE ~(ski = Self /\ hub.ownInstance)
  <2> DEFINE rest == Unsighted(hub, ski)
             gone == [rest EXCEPT !.known[ski] = Forgotten]
             g == ForgetDiscovered(hub, ski)
  <2>1. hub' = Emit(g, "Lost", ski)
      BY <1>4 DEF Lost
  <2>2. g = gone \/ g = rest
      BY DEF ForgetDiscovered
  <2>3. Table(rest, world) /\ Slots(rest, tasks, world)
      BY <1>1, Unsighting
  <2>4. Table(gone, world) /\ Slots(gone, tasks, world)
    <3> HIDE DEF rest
    <3> QED BY <2>3, ForgettingIt
  <2> HIDE DEF rest, gone, g
  <2>5. Table(g, world) /\ Slots(g, tasks, world)
      BY <2>2, <2>3, <2>4
  <2>6. Table(hub', world) /\ Slots(hub', tasks', world)
      BY <1>2, <2>1, <2>5, EmittingSlots DEF Happenings
  <2> QED BY <1>1, <1>2, <2>6, Anew
<1> QED BY <1>3, <1>4

\* A deadline that comes nearer stays a time.
LEMMA Ticking ==
    /\ \A t \in Times : Less(t) \in Times
    /\ \A t \in Off .. PONG_TIMEOUT : MoreWaited(t) \in Off .. PONG_TIMEOUT
    /\ Off .. PONG_TIMEOUT \in SUBSET Times
BY LimitsAssumption DEF Less, MoreWaited, Times, Off

LEMMA TickStep ==
    ASSUME HubInvariant, Tick PROVE HubInvariant'
<1> DEFINE wk == Less(hub.wake)
           kn == [p \in Skis |-> [hub.known[p] EXCEPT !.wait = Less(hub.known[p].wait)]]
           ds == [i \in DOMAIN hub.duplicates |->
                    [hub.duplicates[i] EXCEPT !.left = Less(hub.duplicates[i].left)]]
           ls == [i \in DOMAIN hub.links |->
                    [hub.links[i] EXCEPT !.quiet = Less(hub.links[i].quiet),
                                         !.pinged = Less(hub.links[i].pinged),
                                         !.waited = MoreWaited(hub.links[i].waited)]]
           g == [hub EXCEPT !.wake = wk, !.known = kn, !.duplicates = ds, !.links = ls]
<1>1. /\ world \in Worlds /\ at \in Steps /\ Table(hub, world) /\ hub \in Hubs
      /\ Slots(hub, tasks, world)
    BY Invariant
<1>2. UNCHANGED <<world, tasks, at>>
    BY DEF Tick
<1>3. hub' = g
    BY DEF Tick
<1>4. /\ hub.wake \in Times /\ hub.known \in [Skis -> Remembered]
      /\ hub.duplicates \in Seq(Double) /\ hub.links \in Seq(Link)
    BY <1>1 DEF Hubs
<1>5. wk \in Times
    BY <1>4, Ticking
<1>6. kn \in [Skis -> Remembered] /\ \A p \in Skis : kn[p].dialing = hub.known[p].dialing
  <2>1. \A r \in Remembered : LET q == [r EXCEPT !.wait = Less(r.wait)]
                              IN  q \in Remembered /\ q.dialing = r.dialing
      BY Ticking DEF Remembered
  <2> QED BY <1>4, <2>1
<1>7. /\ ds \in Seq(Double) /\ DOMAIN ds = DOMAIN hub.duplicates
      /\ \A i \in DOMAIN hub.duplicates : ds[i].ski = hub.duplicates[i].ski
  <2>1. \A d \in Double : LET c == [d EXCEPT !.left = Less(d.left)]
                          IN  c \in Double /\ c.ski = d.ski
      BY Ticking DEF Double
  <2>2. \A i \in DOMAIN hub.duplicates : hub.duplicates[i] \in Double
      BY <1>4
  <2>3. \A i \in DOMAIN hub.duplicates : ds[i] \in Double /\ ds[i].ski = hub.duplicates[i].ski
      BY <2>1, <2>2
  <2>4. ds = [i \in DOMAIN hub.duplicates |-> ds[i]]
      OBVIOUS
  <2> HIDE DEF ds
  <2>5. ds \in Seq(Double) /\ DOMAIN ds = DOMAIN hub.duplicates
      BY <1>4, <2>3, <2>4, PlaceByPlace
  <2> QED BY <2>3, <2>5
<1>8. /\ ls \in Seq(Link) /\ Len(ls) = Len(hub.links) /\ DOMAIN ls = DOMAIN hub.links
      /\ \A i \in DOMAIN hub.links : /\ ls[i].ski = hub.links[i].ski
                                     /\ ls[i].device = hub.links[i].device
  <2>1. \A l \in Link : LET m == [l EXCEPT !.quiet = Less(l.quiet), !.pinged = Less(l.pinged),
                                           !.waited = MoreWaited(l.waited)]
                        IN  m \in Link /\ m.ski = l.ski /\ m.device = l.device
      BY Ticking DEF Link
  <2>2. \A i \in DOMAIN hub.links : hub.links[i] \in Link
      BY <1>4
  <2>3. \A i \in DOMAIN hub.links : /\ ls[i] \in Link /\ ls[i].ski = hub.links[i].ski
                                    /\ ls[i].device = hub.links[i].device
      BY <2>1, <2>2
  <2>4. ls = [i \in DOMAIN hub.links |-> ls[i]]
      OBVIOUS
  <2> HIDE DEF ls
  <2>5. ls \in Seq(Link) /\ Len(ls) = Len(hub.links) /\ DOMAIN ls = DOMAIN hub.links
      BY <1>4, <2>3, <2>4, PlaceByPlace
  <2> QED BY <2>3, <2>5
<1> HIDE DEF wk, kn, ds, ls
<1>9. g \in Hubs
    BY <1>1, <1>5, <1>6, <1>7, <1>8 DEF Hubs
<1>10. g.links = ls /\ g.duplicates = ds /\ g.sightings = hub.sightings
    BY <1>1 DEF Hubs
<1>11. g.known = kn /\ g.inFlight = hub.inFlight /\ g.awaiting = hub.awaiting
    BY <1>1 DEF Hubs
<1> HIDE DEF g
<1>12. Table(g, world)
    BY <1>1, <1>7, <1>8, <1>9, <1>10, Retiming
<1>13. Slots(g, tasks, world)
    BY <1>1, <1>6, <1>11 DEF Slots, Counts, Pairings, Dialings
<1>14. Table(hub', world) /\ Slots(hub', tasks', world)
    BY <1>2, <1>3, <1>12, <1>13
<1> QED BY <1>1, <1>2, <1>14, Anew

\* While there is room for a stream there is a port no running handshake came from: the
\* handshakes are as many as the counters say, fewer than the connections allowed.
LEMMA PortIsFree ==
    ASSUME world \in Worlds, Table(hub, world), Slots(hub, tasks, world),
           HasRoomFor(hub, "Accepted")
    PROVE  \E n \in Ports : n \notin {tasks[k].from : k \in DOMAIN tasks}
<1> DEFINE D == Of(tasks, "Dialed")
           A == Of(tasks, "Accepted")
           a == hub.inFlight["Dialed"]
           b == hub.inFlight["Accepted"]
           P == DOMAIN tasks
           used == {tasks[k].from : k \in DOMAIN tasks}
           f == [k \in P |-> tasks[k].from]
<1>1. /\ tasks \in Seq(Handshake) /\ hub \in Hubs /\ world.max \in Nat
      /\ IsFiniteSet(Ports) /\ world.max <= Cardinality(Ports)
    BY WorldsAssumption DEF Table, Slots
<1>2. a = Cardinality(D) /\ b = Cardinality(A)
    BY DEF Slots, Counts, Of, Kinds
<1>3. /\ IsFiniteSet(D) /\ Cardinality(D) \in Nat
      /\ IsFiniteSet(A) /\ Cardinality(A) \in Nat
  <2>1. Len(tasks) \in Nat
      BY <1>1
  <2>2. \A x : IsFiniteSet(Of(tasks, x)) /\ Cardinality(Of(tasks, x)) \in 0 .. Len(tasks)
      BY <1>1, OfIsFinite
  <2> QED BY <2>1, <2>2
<1>4. P = D \cup A
  <2>1. \A k \in DOMAIN tasks : tasks[k].kind \in Kinds
    <3>1. \A k \in DOMAIN tasks : tasks[k] \in Handshake
        BY <1>1
    <3> QED BY <3>1 DEF Handshake
  <2> QED BY <2>1 DEF Of, Kinds
<1>5. IsFiniteSet(P) /\ Cardinality(P) <= a + b /\ Cardinality(P) \in Nat
  <2> HIDE DEF D, A, P
  <2>1. /\ IsFiniteSet(D \cup A)
        /\ Cardinality(D \cup A) = Cardinality(D) + Cardinality(A) - Cardinality(D \cap A)
      BY <1>3, FS_Union
  <2>2. IsFiniteSet(D \cap A)
      BY <1>3, FS_Intersection
  <2>3. Cardinality(D \cap A) \in Nat /\ Cardinality(D \cup A) \in Nat
      BY <2>1, <2>2, FS_CardinalityType
  <2> QED BY <1>2, <1>3, <1>4, <2>1, <2>3
<1>6. a + b < world.max
  <2>1. Len(hub.links) \in Nat /\ a \in Nat /\ b \in Nat
      BY <1>1 DEF Hubs, Kinds
  <2>2. Len(hub.links) + a + b < world.max
      BY DEF HasRoomFor
  <2> HIDE DEF a, b
  <2> QED BY <1>1, <2>1, <2>2
<1>7. f \in Surjection(P, used)
  <2>1. f \in [P -> used] /\ \A u \in used : \E k \in P : f[k] = u
      OBVIOUS
  <2> QED BY <2>1 DEF Surjection
<1> HIDE DEF f, used, P, a, b
<1>8. IsFiniteSet(used) /\ Cardinality(used) <= Cardinality(P)
    BY <1>5, <1>7, FS_Surjection
<1>9. ~(Ports \in SUBSET used)
  <2> SUFFICES ASSUME Ports \in SUBSET used PROVE FALSE
      OBVIOUS
  <2>1. Cardinality(Ports) <= Cardinality(used)
      BY <1>8, FS_Subset
  <2>2. Cardinality(used) \in Nat /\ Cardinality(Ports) \in Nat /\ a \in Nat /\ b \in Nat
      BY <1>1, <1>2, <1>3, <1>8, FS_CardinalityType
  <2> QED BY <1>1, <1>5, <1>6, <1>8, <2>1, <2>2
<1> QED BY <1>9 DEF used

LEMMA AcceptStep ==
    ASSUME HubInvariant, Accept PROVE HubInvariant'
<1>1. /\ world \in Worlds /\ world.max \in Nat /\ Table(hub, world)
      /\ Slots(hub, tasks, world) /\ hub \in Hubs /\ tasks \in Seq(Handshake)
    BY Invariant
<1>2. UNCHANGED world /\ at' \in Steps
    BY DEF Accept, Steps
<1>3. CASE ~HasRoomFor(hub, "Accepted")
  <2>1. hub' = Emit(hub, "HandshakeFailed", None) /\ tasks' = tasks
      BY <1>3 DEF Accept
  <2>2. Table(hub', world) /\ Slots(hub', tasks', world)
      BY <1>1, <2>1, EmittingSlots DEF Happenings
  <2> QED BY <1>1, <1>2, <2>2, Anew
<1>4. CASE HasRoomFor(hub, "Accepted")
  <2> DEFINE used == {tasks[k].from : k \in DOMAIN tasks}
             free == CHOOSE n \in Ports : n \notin used
             task == Task("Accepted", free, None)
             new == <<task>>
             us == tasks \o new
             fl == [hub.inFlight EXCEPT !["Accepted"] = @ + 1]
             g == [hub EXCEPT !.inFlight = fl]
  <2>1. \E n \in Ports : n \notin used
      BY <1>1, <1>4, PortIsFree
  <2>2. free \in Ports
    <3> HIDE DEF used
    <3> QED BY <2>1
  <2>3. hub' = [hub EXCEPT !.inFlight["Accepted"] = @ + 1] /\ tasks' = Append(tasks, task)
      BY <1>4 DEF Accept
  <2> HIDE DEF free
  <2>4. task \in Handshake /\ task.kind = "Accepted"
      BY <2>2, TaskTyped DEF Kinds, Addresses
  <2> HIDE DEF task
  <2>5. tasks' = us
      BY <1>1, <2>3, <2>4, AppendIsConcat
  <2>6. hub' = g
      BY <1>1, <2>3 DEF Hubs
  <2>7. new \in [1 .. 1 -> Handshake] /\ \A i \in 1 .. 1 : new[i].kind = "Accepted"
      BY <2>4
  <2> HIDE DEF new
  <2>8. Added(tasks, 1, new, "Accepted", us)
      BY <1>1, <2>7 DEF Added
  <2> HIDE DEF us
  <2>9. /\ us \in Seq(Handshake)
        /\ \A t \in DOMAIN tasks : t \in DOMAIN us /\ us[t] = tasks[t]
        /\ Cardinality(Of(us, "Accepted")) = Cardinality(Of(tasks, "Accepted")) + 1
        /\ \A x : x # "Accepted" => Of(us, x) = Of(tasks, x)
      BY <2>8, Adding
  <2>10. hub.inFlight \in [Kinds -> Nat] /\ "Accepted" \in Kinds /\ "Dialed" \in Kinds
      BY <1>1 DEF Hubs, Kinds
  <2>11. fl \in [Kinds -> Nat] /\ \A x \in Kinds :
           fl[x] = IF x = "Accepted" THEN hub.inFlight[x] + 1 ELSE hub.inFlight[x]
      BY <2>10
  <2> HIDE DEF fl
  <2>12. hub.inFlight["Accepted"] + 1 <= world.max
    <3> DEFINE a == hub.inFlight["Dialed"]
               b == hub.inFlight["Accepted"]
               n == Len(hub.links)
    <3>1. n \in Nat /\ a \in Nat /\ b \in Nat
        BY <1>1, <2>10 DEF Hubs
    <3>2. n + a + b < world.max
        BY <1>4 DEF HasRoomFor
    <3> HIDE DEF a, b, n
    <3>3. b + 1 <= world.max
        BY <1>1, <3>1, <3>2
    <3> QED BY <3>3 DEF b
  <2>13. g \in Hubs
      BY <1>1, <2>11 DEF Hubs
  <2>14. g.inFlight = fl /\ g.known = hub.known /\ g.awaiting = hub.awaiting /\ SameTable(hub, g)
      BY <1>1 DEF Hubs, SameTable
  <2> HIDE DEF g
  <2>15. Table(g, world)
      BY <1>1, <2>13, <2>14, TableStays
  <2>16. Counts(g, us, world)
    <3> SUFFICES ASSUME NEW x \in Kinds
                 PROVE  fl[x] = Cardinality(Of(us, x)) /\ fl[x] <= world.max
        BY <2>14 DEF Counts, Of
    <3>1. hub.inFlight[x] = Cardinality(Of(tasks, x)) /\ hub.inFlight[x] <= world.max
        BY <1>1 DEF Slots, Counts, Of
    <3> QED BY <2>9, <2>11, <2>12, <3>1
  <2>17. Pairings(g, us) /\ Dialings(g, us)
    <3>1. Pairings(hub, tasks) /\ Dialings(hub, tasks)
        BY <1>1 DEF Slots
    <3>2. Pairings(g, us)
        BY <2>9, <2>14, <3>1 DEF Pairings
    <3>3. Dialings(g, us)
        BY <2>9, <2>14, <3>1 DEF Dialings
    <3> QED BY <3>2, <3>3
  <2>18. Slots(g, us, world)
      BY <2>9, <2>16, <2>17 DEF Slots
  <2>19. Table(hub', world) /\ Slots(hub', tasks', world)
      BY <2>5, <2>6, <2>15, <2>18
  <2> QED BY <1>1, <1>2, <2>19, Anew
<1> QED BY <1>3, <1>4

-----------------------------------------------------------------------------
(* The hub keeps its invariant *)

LEMMA Starting ==
    ASSUME Init PROVE HubInvariant
<1>1. world \in Worlds /\ hub = New /\ tasks = <<>> /\ at = "top"
    BY DEF Init
<1>2. world.max \in Nat
    BY <1>1, WorldsAssumption
<1>3. [p \in Skis |-> Forgotten] \in [Skis -> Remembered]
    BY LimitsAssumption DEF Forgotten, Remembered, Times, Off
<1>4. Off \in Times
    BY LimitsAssumption DEF Times, Off
<1>5. New \in Hubs
    BY <1>3, <1>4 DEF New, Hubs
<1>6. Table(New, world)
  <2>1. New.links = <<>> /\ New.sightings = <<>>
      BY DEF New
  <2> QED BY <1>2, <1>5, <2>1, LimitsAssumption DEF Table, Watch
<1>7. Slots(New, <<>>, world)
  <2>1. /\ \A k \in Kinds : New.inFlight[k] = 0
        /\ New.awaiting = {} /\ \A p \in Skis : ~New.known[p].dialing
      BY DEF New, Forgotten
  <2>2. <<>> \in Seq(Handshake)
      OBVIOUS
  <2>3. \A k : {t \in DOMAIN <<>> : <<>>[t].kind = k} = {}
      OBVIOUS
  <2>4. Counts(New, <<>>, world)
    <3>1. Cardinality({}) = 0
        BY FS_EmptySet, Zenon
    <3> QED BY <1>2, <2>1, <2>3, <3>1 DEF Counts
  <2> QED BY <2>1, <2>2, <2>4 DEF Slots, Pairings, Dialings
<1> QED BY <1>1, <1>6, <1>7 DEF HubInvariant

LEMMA Stuttering ==
    ASSUME HubInvariant, UNCHANGED vars PROVE HubInvariant'
BY DEF vars, HubInvariant, Table, Watch, Slots, Counts, Pairings, Dialings

LEMMA NextKeeps ==
    ASSUME HubInvariant, Next PROVE HubInvariant'
<1>0. world.peers \in SUBSET Skis
    BY Invariant, WorldsAssumption
<1>1. CASE Loop
    BY <1>1, DropInterruptedStep, PopEventStep, DispatchStep, ArbitrateStep, TimersStep,
       DeadlineStep DEF Loop
<1>2. CASE Frames
    BY <1>2, FrameDataStep, FrameEndStep, PongArrivesStep DEF Frames
<1>3. CASE TaskSteps
    BY <1>3, TaskConnectsStep, TaskDecidesStep, TaskEndsStep DEF TaskSteps
<1>4. CASE Inbox
    BY <1>4, HandleTrustRequestedStep, HandleFailedStep, HandleEstablishedStep DEF Inbox
<1>5. CASE Accept
    BY <1>5, AcceptStep
<1>6. CASE Application
  <2>1. ASSUME NEW ski \in world.peers \ {Self},
               \/ Approve(ski) \/ Refuse(ski) \/ Remember(ski) \/ ForgetPeer(ski)
               \/ Close(ski) \/ Disconnect(ski)
        PROVE  HubInvariant'
    <3>1. ski \in Skis
        BY <1>0
    <3> QED BY <2>1, <3>1, ApproveStep, RefuseStep, RememberStep, ForgetPeerStep, CloseStep,
               DisconnectStep
  <2> QED BY <1>6, <2>1, DialStep DEF Application
<1>7. CASE Browsing
    BY <1>0, <1>7, FoundStep, LostStep DEF Browsing
<1>8. CASE DispatchCancelled
    BY <1>8, DispatchCancelledStep
<1>9. CASE Tick
    BY <1>9, TickStep
<1> QED BY <1>1, <1>2, <1>3, <1>4, <1>5, <1>6, <1>7, <1>8, <1>9 DEF Next

LEMMA LimitsHold ==
    ASSUME HubInvariant PROVE SlotsAreKept
<1>1. /\ world \in Worlds /\ world.max \in Nat /\ at \in Steps /\ Table(hub, world)
      /\ Slots(hub, tasks, world) /\ hub \in Hubs /\ tasks \in Seq(Handshake)
    BY Invariant
<1>2. hub.inFlight \in [Kinds -> 0 .. world.max]
  <2>1. hub.inFlight \in [Kinds -> Nat] /\ \A k \in Kinds : hub.inFlight[k] <= world.max
      BY <1>1 DEF Hubs, Slots, Counts
  <2> QED BY <1>1, <2>1
<1>3. \A i \in DOMAIN hub.links :
        hub.links[i] \in [ski : Peers, kind : Kinds, device : Devices \cup {None},
                          reads : 0 .. 2, quiet : Times, pinged : Times, waited : Times]
    BY <1>1, LinkTyped, Ticking DEF Link
<1>4. /\ hub.known \in [Skis -> Remembered] /\ hub.engine \subseteq Devices
      /\ Len(hub.links) <= world.max /\ Len(hub.sightings) <= MAX_SIGHTINGS
    BY <1>1 DEF Hubs, Table
<1>5. \A t \in DOMAIN tasks : tasks[t].phase \in Phases
  <2>1. \A t \in DOMAIN tasks : tasks[t] \in Handshake
      BY <1>1
  <2> QED BY <2>1 DEF Handshake
<1>6. HubTypeOK
    BY <1>1, <1>2, <1>3, <1>4, <1>5 DEF HubTypeOK, Steps, Remembered
<1>7. SlotsAreReturned
    BY <1>1 DEF Slots, Counts, Pairings, Dialings, SlotsAreReturned
<1> QED BY <1>6, <1>7 DEF SlotsAreKept

LEMMA DoublesSeen ==
    ASSUME HubInvariant PROVE DoublesAreWatched
<1>1. hub \in Hubs /\ Watch(hub)
    BY Invariant DEF Table
<1>2. ASSUME NEW p \in Peers, Cardinality(LinksTo(hub, p)) > 1
      PROVE  \E i \in DOMAIN hub.duplicates : hub.duplicates[i].ski = p
  <2>1. \E i, j \in DOMAIN hub.links : i # j /\ hub.links[i].ski = p /\ hub.links[j].ski = p
      BY <1>1, <1>2, TwoLinks
  <2> QED BY <1>1, <2>1 DEF Watch
<1> QED BY <1>1, <1>2 DEF DoublesAreWatched, Watch

(* Whatever the application calls, the peers do and the network loses, and wherever  *)
(* the future of Hub::next is dropped, the tables of the hub (hub.rs: links,         *)
(* in_flight, awaiting, duplicates, known) agree with the handshakes that run.       *)
THEOREM HubIsInvariant == Spec => []HubInvariant
<1>1. Init => HubInvariant
    BY Starting
<1>2. HubInvariant /\ [Next]_vars => HubInvariant'
    BY NextKeeps, Stuttering
<1> QED BY <1>1, <1>2, PTL DEF Spec

(* The hub never holds more connections, handshakes or sightings than it may; the    *)
(* in-flight counters are exactly the handshakes still running, no entry of the      *)
(* pairing table outlives its handshake, a peer has one entry, and a peer marked as  *)
(* being dialled has a handshake that dials it: spawn_dial, accept, handle_inbound   *)
(* and release_in_flight, in every order, for every limit.                           *)
THEOREM SlotsStayKept == Spec => []SlotsAreKept
<1>1. HubInvariant => SlotsAreKept
    BY LimitsHold
<1> QED BY <1>1, HubIsInvariant, PTL

(* Two connections to one peer are always on the list that arbitrate works through,  *)
(* and no two links, nor a link and this node, ever answer to one device address:    *)
(* adopt_from, forget_peer_state, close_duplicates, disconnect and receive.          *)
THEOREM DoublesStayWatched == Spec => []DoublesAreWatched
<1>1. HubInvariant => DoublesAreWatched
    BY DoublesSeen
<1> QED BY <1>1, HubIsInvariant, PTL

=============================================================================
