-------------------------- MODULE TrustStore_proofs --------------------------
(***************************************************************************)
(* The trust store's invariants, for any number of devices and of keys     *)
(* they go through, any pairing requests and any replay capacity; and, at  *)
(* the other end of the pairing service, the request of a control unit.    *)
(***************************************************************************)
EXTENDS TrustStore, TLAPS

CONSTANTS SETTLED_AFTER, Connections, MaxRestarts
VARIABLES requester, onAir, connected, complete, overruled, restarts
Asking == INSTANCE Requester

\* What the constants stand for: a device's keys are distinct, nobody else's, and not the
\* one of the other curve; no key is named like an absent one; a request asks to trust some
\* certificate.
TrustConstants ==
    /\ \A z \in Nodes : Len(Keys[z]) \in Nat \ {0} /\ DOMAIN Keys[z] = 1 .. Len(Keys[z])
    /\ \A y, z \in Nodes : \A i \in DOMAIN Keys[y], j \in DOMAIN Keys[z] :
         Keys[y][i] = Keys[z][j] => y = z /\ i = j
    /\ \A z \in Nodes : \A i \in DOMAIN Keys[z] : Keys[z][i] # Spare
    /\ None \notin Skis
    /\ \A d \in DOMAIN Requests : Requests[d].trustPar \in Skis \cup {Self}
    /\ \A s \in Scenarios : s.nodes \subseteq Nodes
    /\ GuardCapacity \in Nat
    /\ REPLACEABLE_AFTER \in Nat

-----------------------------------------------------------------------------
(* The inductive invariant *)

Links == Skis \ {Spare}
Levels == [user : {0, 8, 32}, second : {0, 16, 32}]

\* A unit that has shown its certificate has shown the one it was paired with.
Units == {u \in [fp : Skis \cup {None}, ski : Skis \cup {None}] : u.ski \in {None, u.fp}}
Stores == [peers : [Skis -> Levels], unit : Units]
Records == [Skis -> [counter : Nat, trusted : SUBSET Skis]]
Guards == {g \in Seq(DOMAIN Requests) : Len(g) <= GuardCapacity}
Entries == [state : {"Current", "Successor", "Predecessor"}, curve : {"tls", "spare"},
            ski : Skis]

\* One record at most has the second factor of a commissioning tool.
OneTool(st) ==
    \A s, t \in Skis :
        st.peers[s].second >= SECOND_FACTOR_PIN_FIRST /\
        st.peers[t].second >= SECOND_FACTOR_PIN_FIRST => s = t

\* Device z uses its k-th key and has announced its n-th; what anybody ever recorded of it
\* is among the keys announced by then.
KeysAt(z, k, n) ==
    /\ k \in DOMAIN Keys[z] /\ n \in DOMAIN Keys[z] /\ n \in {k, k + 1}
    /\ CurrentFor(own[z], "tls") = {Keys[z][k]}
    /\ \A e \in own[z].entries : e.state = "Successor" =>
         e.curve = "tls" /\ n = k + 1 /\ e.ski = Keys[z][n]
    /\ n = k + 1 => [state |-> "Successor", curve |-> "tls", ski |-> Keys[z][n]] \in own[z].entries
    /\ Announced(own[z]) = {Keys[z][k], Keys[z][n]}
    /\ \A ski \in Links : Owner(ski) = z =>
         /\ peerKeys[ski].trusted \subseteq {Keys[z][j] : j \in 1 .. n}
         /\ saved.keys[ski].trusted \subseteq {Keys[z][j] : j \in 1 .. n}

\* A record is never ahead of its device; one that is up to date holds its keys.
CountersOK(keys) ==
    \A ski \in Links :
        /\ keys[ski].counter <= own[Owner(ski)].counter
        /\ keys[ski].counter = own[Owner(ski)].counter =>
             keys[ski].trusted = Announced(own[Owner(ski)])

\* A key on record that its device still uses, or uses next, is trusted, unless somebody
\* took it out.
Kept(st, out, s) == IsTrusted(st, s) \/ s \in out
RecordsKept(keys, st, out) ==
    \A ski \in Links : \A s \in keys[ski].trusted :
        s \in Announced(own[Owner(ski)]) => Kept(st, out, s)

Images == [store : Stores, keys : Records, guard : Guards, forgotten : SUBSET Skis]

TypesOK ==
    /\ scene \in Scenarios
    /\ store \in Stores /\ peerKeys \in Records /\ guard \in Guards
    /\ saved \in Images /\ forgotten \in SUBSET Skis
    /\ own \in [Nodes -> [counter : Nat \ {0}, entries : SUBSET Entries]]
    /\ links \in SUBSET Links /\ shaking \in SUBSET Links
    /\ last \in Nat /\ silence = last

TIInv ==
    /\ TypesOK
    /\ OneTool(store) /\ OneTool(saved.store)
    /\ \A z \in Nodes : \E k, n \in Nat : KeysAt(z, k, n)
    /\ CountersOK(peerKeys) /\ CountersOK(saved.keys)
    /\ RecordsKept(peerKeys, store, forgotten)
    /\ RecordsKept(saved.keys, saved.store, saved.forgotten)

-----------------------------------------------------------------------------
(* Keys and their owners *)

LEMMA SkisAreKeys ==
    ASSUME TrustConstants
    PROVE  \A s : s \in Links <=> \E z \in Nodes : \E i \in DOMAIN Keys[z] : s = Keys[z][i]
<1>1. \A z : \A s : s \in Range(Keys[z]) <=> \E i \in DOMAIN Keys[z] : s = Keys[z][i]
  BY DEF Range
<1>2. \A s : s \in Skis <=> s = Spare \/ \E z \in Nodes : s \in Range(Keys[z])
  BY DEF Skis
<1>3. \A z \in Nodes : \A i \in DOMAIN Keys[z] : Keys[z][i] # Spare
  BY DEF TrustConstants
<1>4. \A s : s \in Links <=> s \in Skis /\ s # Spare
  BY DEF Links
<1> TAKE s
<1>5. ASSUME s \in Links PROVE \E z \in Nodes : \E i \in DOMAIN Keys[z] : s = Keys[z][i]
  BY SMTT(20), <1>1, <1>2, <1>4, <1>5
<1>6. ASSUME NEW z \in Nodes, NEW i \in DOMAIN Keys[z], s = Keys[z][i] PROVE s \in Links
  BY <1>1, <1>2, <1>3, <1>4, <1>6
<1>7. QED
  BY <1>5, <1>6

LEMMA OwnerOf ==
    ASSUME TrustConstants, NEW z \in Nodes, NEW i \in DOMAIN Keys[z]
    PROVE  Keys[z][i] \in Links /\ Owner(Keys[z][i]) = z
<1>1. Keys[z][i] \in Links
  BY SkisAreKeys
<1>2. \A y \in Nodes : Keys[z][i] \in Range(Keys[y]) <=> y = z
  BY DEF TrustConstants, Range
<1>3. QED
  BY <1>1, <1>2 DEF Owner

LEMMA OwnerIsNode ==
    ASSUME TrustConstants, NEW s \in Links
    PROVE  Owner(s) \in Nodes
BY SkisAreKeys, OwnerOf

-----------------------------------------------------------------------------
(* The store's operations *)

LEMMA LevelsAreLevels ==
    /\ UNTRUSTED \in Levels /\ AUTO_ACCEPT \in Levels /\ USER_VERIFIED \in Levels
    /\ AUTO_ACCEPT # UNTRUSTED /\ USER_VERIFIED # UNTRUSTED
    /\ UNTRUSTED.second = 0 /\ AUTO_ACCEPT.second = 0 /\ USER_VERIFIED.second = 0
BY DEF UNTRUSTED, AUTO_ACCEPT, USER_VERIFIED, Level, Levels

\* A store is its two halves.
LEMMA StoreParts ==
    /\ \A st \in Stores : st.peers \in [Skis -> Levels] /\ st.unit \in Units
    /\ \A p \in [Skis -> Levels], u \in Units : [peers |-> p, unit |-> u] \in Stores
BY DEF Stores

LEMMA NoUnitIsUnit ==
    ASSUME TrustConstants
    PROVE  NoUnit \in Units /\ NoUnit.ski = None /\ NoUnit.fp = None
BY DEF NoUnit, Units

LEMMA NewStoreIsStore ==
    ASSUME TrustConstants
    PROVE  /\ NewStore \in Stores /\ OneTool(NewStore)
           /\ \A s \in Skis : ~IsTrusted(NewStore, s)
<1>1. [s \in Skis |-> UNTRUSTED] \in [Skis -> Levels]
  BY LevelsAreLevels
<1>2. NewStore = [peers |-> [s \in Skis |-> UNTRUSTED], unit |-> NoUnit]
  BY DEF NewStore, NoUnit
<1>3. NewStore \in Stores
  BY <1>1, <1>2, NoUnitIsUnit, StoreParts
<1>4. QED
  BY <1>2, <1>3, LevelsAreLevels DEF OneTool, SECOND_FACTOR_PIN_FIRST, IsTrusted

\* A record put into the store changes nothing else; without a second factor in it, it
\* makes no commissioning tool.
LEMMA RememberedParts ==
    ASSUME NEW st \in Stores, NEW ski \in Skis, NEW level \in Levels
    PROVE  /\ Remembered(st, ski, level) \in Stores
           /\ Remembered(st, ski, level).unit = st.unit
           /\ \A s \in Skis : Remembered(st, ski, level).peers[s] =
                IF s = ski THEN level ELSE st.peers[s]
           /\ OneTool(st) /\ level.second = 0 => OneTool(Remembered(st, ski, level))
<1> DEFINE new == Remembered(st, ski, level)
           put == [st.peers EXCEPT ![ski] = level]
<1>1. st.peers \in [Skis -> Levels] /\ st.unit \in Units
  BY StoreParts
<1>2. put \in [Skis -> Levels] /\ \A s \in Skis : put[s] = IF s = ski THEN level ELSE st.peers[s]
  BY <1>1
<1>3. new = [peers |-> put, unit |-> st.unit]
  BY DEF Remembered, Stores
<1>4. new.peers = put /\ new.unit = st.unit
  BY <1>3
<1>5. new \in Stores
  BY <1>1, <1>2, <1>3, StoreParts
<1> HIDE DEF new, put
<1>6. \A s \in Skis : new.peers[s] = IF s = ski THEN level ELSE st.peers[s]
  BY <1>2, <1>4
<1>7. OneTool(st) /\ level.second = 0 => OneTool(new)
  BY <1>6 DEF OneTool, SECOND_FACTOR_PIN_FIRST
<1>8. QED
  BY <1>4, <1>5, <1>6, <1>7 DEF new

\* Taking a record out.
LEMMA WithoutParts ==
    ASSUME TrustConstants, NEW st \in Stores, NEW ski \in Skis \cup {None}
    PROVE  /\ Without(st, ski) \in Stores
           /\ Without(st, ski).unit = st.unit
           /\ \A s \in Skis : Without(st, ski).peers[s] = IF s = ski THEN UNTRUSTED ELSE st.peers[s]
           /\ OneTool(st) => OneTool(Without(st, ski))
<1>1. CASE ski = None
  BY <1>1, StoreParts DEF Without, TrustConstants
<1>2. CASE ski # None
  <2>1. ski \in Skis
    BY <1>2
  <2>2. Without(st, ski) = Remembered(st, ski, UNTRUSTED)
    BY <1>2 DEF Without, Remembered
  <2>3. UNTRUSTED \in Levels /\ UNTRUSTED.second = 0
    BY LevelsAreLevels
  <2>4. QED
    BY <2>1, <2>2, <2>3, RememberedParts
<1>3. QED
  BY <1>1, <1>2

\* Naming a unit leaves the peers alone.
LEMMA UnitParts ==
    ASSUME NEW st \in Stores, NEW u \in Units
    PROVE  /\ [st EXCEPT !.unit = u] \in Stores
           /\ [st EXCEPT !.unit = u].unit = u
           /\ [st EXCEPT !.unit = u].peers = st.peers
           /\ OneTool(st) => OneTool([st EXCEPT !.unit = u])
<1>1. /\ [st EXCEPT !.unit = u].peers = st.peers
      /\ [st EXCEPT !.unit = u].unit = u
      /\ [st EXCEPT !.unit = u] \in Stores
  BY DEF Stores
<1>2. QED
  BY <1>1 DEF OneTool

LEMMA TrustUnitParts ==
    ASSUME TrustConstants, NEW st \in Stores, NEW u \in Units
    PROVE  /\ TrustUnit(st, u) \in Stores
           /\ TrustUnit(st, u).unit = u
           /\ \A s \in Skis : TrustUnit(st, u).peers[s] =
                IF s = u.ski THEN USER_VERIFIED
                ELSE IF s = st.unit.ski THEN UNTRUSTED ELSE st.peers[s]
           /\ OneTool(st) => OneTool(TrustUnit(st, u))
<1> DEFINE named == [st EXCEPT !.unit = u]
           cleared == Without(named, st.unit.ski)
<1>1. st.unit.ski \in Skis \cup {None} /\ u.ski \in Skis \cup {None}
  BY StoreParts DEF Units
<1>2. /\ named \in Stores /\ named.unit = u /\ named.peers = st.peers
      /\ OneTool(st) => OneTool(named)
  BY UnitParts
<1>3. TrustUnit(st, u) = IF u.ski = None THEN cleared ELSE Remembered(cleared, u.ski, USER_VERIFIED)
  BY DEF TrustUnit, Trusted
<1> HIDE DEF named
<1>4. /\ cleared \in Stores /\ cleared.unit = u
      /\ \A s \in Skis : cleared.peers[s] = IF s = st.unit.ski THEN UNTRUSTED ELSE st.peers[s]
      /\ OneTool(st) => OneTool(cleared)
  <2>1. /\ cleared \in Stores /\ cleared.unit = named.unit
        /\ \A s \in Skis : cleared.peers[s] =
             IF s = st.unit.ski THEN UNTRUSTED ELSE named.peers[s]
        /\ OneTool(named) => OneTool(cleared)
    BY <1>1, <1>2, WithoutParts
  <2>2. QED
    BY <2>1, <1>2
<1> HIDE DEF cleared
<1>5. CASE u.ski = None
  BY <1>3, <1>4, <1>5 DEF TrustConstants
<1>6. CASE u.ski # None
  <2>1. u.ski \in Skis
    BY <1>1, <1>6
  <2>2. USER_VERIFIED \in Levels /\ USER_VERIFIED.second = 0
    BY LevelsAreLevels
  <2>3. TrustUnit(st, u) = Remembered(cleared, u.ski, USER_VERIFIED)
    BY <1>3, <1>6
  <2>4. QED
    BY <2>1, <2>2, <2>3, <1>4, RememberedParts
<1>7. QED
  BY <1>5, <1>6

LEMMA ForgetUnitParts ==
    ASSUME TrustConstants, NEW st \in Stores
    PROVE  /\ ForgetUnitIn(st) \in Stores
           /\ \A s \in Skis : ForgetUnitIn(st).peers[s] =
                IF s = st.unit.ski THEN UNTRUSTED ELSE st.peers[s]
           /\ OneTool(st) => OneTool(ForgetUnitIn(st))
<1> DEFINE named == [st EXCEPT !.unit = NoUnit]
<1>1. st.unit.ski \in Skis \cup {None}
  BY StoreParts DEF Units
<1>2. /\ named \in Stores /\ named.peers = st.peers
      /\ OneTool(st) => OneTool(named)
  BY UnitParts, NoUnitIsUnit
<1>3. ForgetUnitIn(st) = Without(named, st.unit.ski)
  BY DEF ForgetUnitIn
<1> HIDE DEF named
<1>4. QED
  BY <1>1, <1>2, <1>3, WithoutParts

LEMMA ForgetParts ==
    ASSUME TrustConstants, NEW st \in Stores, NEW ski \in Skis
    PROVE  /\ ForgetIn(st, ski) \in Stores
           /\ \A s \in Skis : ForgetIn(st, ski).peers[s] =
                IF s = ski THEN UNTRUSTED ELSE st.peers[s]
           /\ OneTool(st) => OneTool(ForgetIn(st, ski))
<1> DEFINE rest == Without(st, ski)
<1>1. /\ rest \in Stores
      /\ \A s \in Skis : rest.peers[s] = IF s = ski THEN UNTRUSTED ELSE st.peers[s]
      /\ OneTool(st) => OneTool(rest)
  BY WithoutParts
<1>2. ForgetIn(st, ski) = IF st.unit.ski = ski THEN [rest EXCEPT !.unit = NoUnit] ELSE rest
  BY DEF ForgetIn
<1> HIDE DEF rest
<1>3. QED
  BY <1>1, <1>2, UnitParts, NoUnitIsUnit

\* What was trusted at the time it was saved is trusted after the restart.
LEMMA FromJsonParts ==
    ASSUME TrustConstants, NEW st \in Stores, OneTool(st)
    PROVE  /\ FromJson(st) \in Stores /\ OneTool(FromJson(st))
           /\ \A s \in Skis : IsTrusted(st, s) => IsTrusted(FromJson(st), s)
<1> DEFINE bare == [st EXCEPT !.unit = NoUnit]
<1>1. /\ bare \in Stores /\ bare.unit = NoUnit /\ bare.peers = st.peers /\ OneTool(bare)
  BY UnitParts, NoUnitIsUnit
<1>2. FromJson(st) = IF st.unit.fp = None THEN bare ELSE TrustUnit(bare, st.unit)
  BY DEF FromJson
<1> HIDE DEF bare
<1>3. st.unit \in Units
  BY StoreParts
<1>4. CASE st.unit.fp = None
  BY <1>1, <1>2, <1>4 DEF IsTrusted
<1>5. CASE st.unit.fp # None
  <2>1. /\ TrustUnit(bare, st.unit) \in Stores /\ OneTool(TrustUnit(bare, st.unit))
        /\ \A s \in Skis : TrustUnit(bare, st.unit).peers[s] =
             IF s = st.unit.ski THEN USER_VERIFIED
             ELSE IF s = bare.unit.ski THEN UNTRUSTED ELSE bare.peers[s]
    BY <1>1, <1>3, TrustUnitParts
  <2>2. bare.unit.ski = None /\ None \notin Skis
    BY <1>1, NoUnitIsUnit DEF TrustConstants
  <2>3. \A s \in Skis : TrustUnit(bare, st.unit).peers[s] =
          IF s = st.unit.ski THEN USER_VERIFIED ELSE st.peers[s]
    BY <2>1, <2>2, <1>1
  <2>4. QED
    BY <2>1, <2>3, <1>2, <1>5, LevelsAreLevels DEF IsTrusted
<1>6. QED
  BY <1>4, <1>5

\* The unit's certificate, seen for the first time.
LEMMA ObserveParts ==
    ASSUME TrustConstants, NEW st \in Stores, NEW ski \in Skis
    PROVE  /\ ObserveUnitSki(st, ski) \in Stores
           /\ \A s \in Skis : IsTrusted(st, s) => IsTrusted(ObserveUnitSki(st, ski), s)
           /\ OneTool(st) => OneTool(ObserveUnitSki(st, ski))
<1>1. CASE st.unit.fp # ski \/ st.unit.ski = ski
  BY <1>1 DEF ObserveUnitSki
<1>2. CASE st.unit.fp = ski /\ st.unit.ski # ski
  <2> DEFINE seen == [fp |-> ski, ski |-> ski]
             named == [st EXCEPT !.unit.ski = ski]
  <2>1. st.unit \in Units /\ seen \in Units
    BY StoreParts DEF Units
  <2>2. st.unit.ski = None
    BY <2>1, <1>2 DEF Units
  <2>3. named = [st EXCEPT !.unit = seen]
    <3>1. [st.unit EXCEPT !.ski = ski] = seen
      BY <2>1, <1>2 DEF Units
    <3>2. QED
      BY <3>1 DEF Stores
  <2>4. /\ named \in Stores /\ named.peers = st.peers
        /\ OneTool(st) => OneTool(named)
    BY <2>1, <2>3, UnitParts
  <2>5. ObserveUnitSki(st, ski) = Remembered(named, ski, USER_VERIFIED)
    BY <1>2, <2>2 DEF ObserveUnitSki, Trusted, Without
  <2> HIDE DEF named
  <2>6. /\ USER_VERIFIED \in Levels /\ USER_VERIFIED.second = 0
        /\ USER_VERIFIED # UNTRUSTED
    BY LevelsAreLevels
  <2>7. QED
    BY <2>4, <2>5, <2>6, RememberedParts DEF IsTrusted
<1>3. QED
  BY <1>1, <1>2

\* The better of two levels, where the second comes from a PIN.
LEMMA MergedParts ==
    ASSUME NEW l \in Levels, NEW won \in {16, 32}
    PROVE  /\ Merged(l, Level(0, won)) \in Levels
           /\ Merged(l, Level(0, won)).second = Larger(l.second, won)
           /\ Merged(l, Level(0, won)) # UNTRUSTED
<1>1. Level(0, won).user = 0 /\ Level(0, won).second = won
  BY DEF Level
<1>2. l.user \in {0, 8, 32} /\ l.second \in {0, 16, 32}
  BY DEF Levels
<1>3. /\ Larger(l.user, 0) \in {0, 8, 32}
      /\ Larger(l.second, won) \in {16, 32}
  BY <1>2 DEF Larger
<1>4. Merged(l, Level(0, won)) = [user |-> Larger(l.user, 0), second |-> Larger(l.second, won)]
  BY <1>1 DEF Merged, Level
<1>5. UNTRUSTED.second = 0
  BY LevelsAreLevels
<1>6. Merged(l, Level(0, won)).second = Larger(l.second, won)
  BY <1>4
<1>7. QED
  BY <1>3, <1>4, <1>5, <1>6 DEF Levels

\* A PIN makes a commissioning tool of a peer only where there is none.
LEMMA AwardParts ==
    ASSUME TrustConstants, NEW st \in Stores, NEW ski \in Skis, OneTool(st)
    PROVE  /\ AwardPinTrust(st, ski) \in Stores
           /\ OneTool(AwardPinTrust(st, ski))
           /\ \A s \in Skis : IsTrusted(st, s) => IsTrusted(AwardPinTrust(st, ski), s)
<1>1. CASE ~IsTrusted(st, ski)
  BY <1>1 DEF AwardPinTrust
<1>2. CASE IsTrusted(st, ski)
  <2> DEFINE won == IF PinFirstTaken(st, ski) THEN SECOND_FACTOR_PIN_LATER
                    ELSE SECOND_FACTOR_PIN_FIRST
             level == Merged(st.peers[ski], Level(0, won))
             new == AwardPinTrust(st, ski)
  <2>1. st.peers \in [Skis -> Levels]
    BY StoreParts
  <2>2. won \in {16, 32} /\ (won = 32 <=> ~PinFirstTaken(st, ski))
    BY DEF SECOND_FACTOR_PIN_FIRST, SECOND_FACTOR_PIN_LATER
  <2>3. new = Remembered(st, ski, level)
    BY <1>2 DEF AwardPinTrust
  <2> HIDE DEF won, new
  <2>4. /\ level \in Levels /\ level # UNTRUSTED
        /\ level.second = Larger(st.peers[ski].second, won)
    BY <2>1, <2>2, MergedParts
  <2> HIDE DEF level
  <2>5. new \in Stores /\ \A s \in Skis : new.peers[s] = IF s = ski THEN level ELSE st.peers[s]
    BY <2>3, <2>4, RememberedParts
  <2>6. \A s \in Skis : st.peers[s].second \in {0, 16, 32}
    BY <2>1 DEF Levels
  <2>7. CASE PinFirstTaken(st, ski)
    <3>1. level.second >= 32 => st.peers[ski].second >= 32
      BY <2>2, <2>4, <2>6, <2>7 DEF Larger
    <3>2. QED
      BY <2>4, <2>5, <3>1, <1>2 DEF OneTool, IsTrusted, SECOND_FACTOR_PIN_FIRST, new
  <2>8. CASE ~PinFirstTaken(st, ski)
    <3>1. \A s \in Skis : ~(st.peers[s].second >= 32)
      BY <2>8 DEF PinFirstTaken, SECOND_FACTOR_PIN_FIRST
    <3>2. QED
      BY <2>4, <2>5, <3>1 DEF OneTool, IsTrusted, SECOND_FACTOR_PIN_FIRST, new
  <2>9. QED
    BY <2>7, <2>8
<1>3. QED
  BY <1>1, <1>2

\* Following an announcement: the old keys out, except the one the link runs on, the new in.
LEMMA FollowedParts ==
    ASSUME TrustConstants, NEW st \in Stores, NEW trust \in SUBSET Skis,
           NEW untrust \in SUBSET Skis, NEW ski
    PROVE  /\ FollowedIn(st, trust, untrust, ski) \in Stores
           /\ \A s \in Skis : FollowedIn(st, trust, untrust, ski).peers[s] =
                IF s \in untrust \ {ski} THEN UNTRUSTED
                ELSE IF s \in trust THEN USER_VERIFIED ELSE st.peers[s]
           /\ OneTool(st) => OneTool(FollowedIn(st, trust, untrust, ski))
<1> DEFINE new == FollowedIn(st, trust, untrust, ski)
           peers == [s \in Skis |->
                       IF s \in untrust \ {ski} THEN UNTRUSTED
                       ELSE IF s \in trust THEN USER_VERIFIED ELSE st.peers[s]]
           u == IF st.unit.ski \in untrust \ {ski} THEN NoUnit ELSE st.unit
<1>1. st.peers \in [Skis -> Levels] /\ st.unit \in Units
  BY StoreParts
<1>2. peers \in [Skis -> Levels]
  BY <1>1, LevelsAreLevels
<1>3. u \in Units
  BY <1>1, NoUnitIsUnit
<1>4. new = [peers |-> peers, unit |-> u]
  BY DEF FollowedIn
<1>5. \A s \in Skis : peers[s] = IF s \in untrust \ {ski} THEN UNTRUSTED
                       ELSE IF s \in trust THEN USER_VERIFIED ELSE st.peers[s]
  OBVIOUS
<1> HIDE DEF peers, u
<1>6. new \in Stores /\ new.peers = peers
  BY <1>2, <1>3, <1>4, StoreParts
<1> HIDE DEF new
<1>7. OneTool(st) => OneTool(new)
  BY <1>5, <1>6, LevelsAreLevels DEF OneTool, SECOND_FACTOR_PIN_FIRST
<1>8. QED
  BY <1>5, <1>6, <1>7 DEF new

-----------------------------------------------------------------------------
(* The steps *)

LEMMA NewKeysParts ==
    ASSUME NEW s
    PROVE  /\ NewKeys(s).counter = 1
           /\ NewKeys(s).entries = {[state |-> "Current", curve |-> "tls", ski |-> s]}
           /\ s \in Skis => NewKeys(s) \in [counter : Nat \ {0}, entries : SUBSET Entries]
<1> DEFINE e == [state |-> "Current", curve |-> "tls", ski |-> s]
<1>1. NewKeys(s) = [counter |-> 1, entries |-> {e}]
  BY DEF NewKeys
<1>2. s \in Skis => e \in Entries
  BY DEF Entries
<1> HIDE DEF e
<1>3. s \in Skis => {e} \in SUBSET Entries
  BY <1>2
<1>4. NewKeys(s).counter = 1 /\ NewKeys(s).entries = {e}
  BY <1>1
<1>5. QED
  BY <1>1, <1>3, <1>4 DEF e

LEMMA TInitKept == TrustConstants /\ TInit => TIInv
<1> SUFFICES ASSUME TrustConstants, TInit PROVE TIInv
  OBVIOUS
<1>1. [s \in Skis |-> NoRecord] \in Records
  BY DEF Records, NoRecord
<1>2. NewStore \in Stores /\ OneTool(NewStore)
  BY NewStoreIsStore
<1>3. <<>> \in Guards
  BY DEF Guards, TrustConstants
<1>4. \A z \in Nodes : /\ 1 \in DOMAIN Keys[z] /\ Keys[z][1] \in Links
                       /\ own[z] = NewKeys(Keys[z][1])
  BY OwnerOf DEF TInit, TrustConstants
<1>5. \A z \in Nodes : NewKeys(Keys[z][1]) \in [counter : Nat \ {0}, entries : SUBSET Entries]
  BY <1>4, NewKeysParts DEF Links
<1>6. \A ski \in Links : /\ peerKeys[ski].counter = 0 /\ saved.keys[ski].counter = 0
                         /\ peerKeys[ski].trusted = {} /\ saved.keys[ski].trusted = {}
  BY DEF TInit, NoRecord, Links
<1>7. TypesOK
  BY <1>1, <1>2, <1>3, <1>5 DEF TInit, TypesOK, Images
<1>8. ASSUME NEW z \in Nodes PROVE KeysAt(z, 1, 1)
  <2> DEFINE e == [state |-> "Current", curve |-> "tls", ski |-> Keys[z][1]]
  <2>1. e.state = "Current" /\ e.curve = "tls" /\ e.ski = Keys[z][1]
    OBVIOUS
  <2>2. own[z].entries = {e}
    BY <1>4, NewKeysParts
  <2> HIDE DEF e
  <2>3. CurrentFor(own[z], "tls") = {Keys[z][1]}
    BY <2>1, <2>2 DEF CurrentFor, EntriesIn
  <2>4. Announced(own[z]) = {Keys[z][1]}
    BY <2>1, <2>2 DEF Announced
  <2>5. QED
    BY <1>4, <1>6, <2>1, <2>2, <2>3, <2>4 DEF KeysAt
<1>9. \A ski \in Links : own[Owner(ski)].counter = 1
  BY <1>4, OwnerIsNode, NewKeysParts
<1>10. CountersOK(peerKeys) /\ CountersOK(saved.keys)
  BY <1>6, <1>9 DEF CountersOK
<1>11. /\ RecordsKept(peerKeys, store, forgotten)
       /\ RecordsKept(saved.keys, saved.store, saved.forgotten)
  BY <1>6 DEF RecordsKept
<1>12. store = NewStore /\ saved.store = NewStore
  BY DEF TInit
<1>13. QED
  BY <1>2, <1>7, <1>8, <1>10, <1>11, <1>12 DEF TIInv

\* A step that leaves keys and records alone and loses no trust but what it notes.
LEMMA StoreStep ==
    ASSUME TIInv, TypesOK', UNCHANGED <<peerKeys, saved, own>>, OneTool(store'),
           \A s \in Skis : Kept(store, forgotten, s) => Kept(store', forgotten', s)
    PROVE  TIInv'
<1>1. \A z \in Nodes : \E k, n \in Nat : KeysAt(z, k, n)'
  BY ZenonT(30) DEF TIInv, KeysAt
<1>2. CountersOK(peerKeys)' /\ CountersOK(saved.keys)'
  BY DEF TIInv, CountersOK
<1>3. RecordsKept(peerKeys, store, forgotten)'
  <2> SUFFICES ASSUME NEW ski \in Links, NEW s \in peerKeys[ski].trusted,
                      s \in Announced(own[Owner(ski)])
               PROVE  Kept(store', forgotten', s)
    BY DEF RecordsKept, Kept, IsTrusted
  <2>1. s \in Skis
    BY DEF TIInv, TypesOK, Records, Links
  <2>2. Kept(store, forgotten, s)
    BY DEF TIInv, RecordsKept
  <2>3. QED
    BY <2>1, <2>2
<1>4. RecordsKept(saved.keys, saved.store, saved.forgotten)'
  BY DEF TIInv, RecordsKept, Kept, IsTrusted
<1>5. OneTool(store)' /\ OneTool(saved.store)'
  BY DEF TIInv, OneTool
<1>6. QED
  BY <1>1, <1>2, <1>3, <1>4, <1>5 DEF TIInv

\* A device presents one of its own keys.
LEMMA CurrentIsLink ==
    ASSUME TrustConstants, TIInv, NEW z \in Nodes
    PROVE  CurrentFor(own[z], "tls") \subseteq Links
<1>1. PICK k, n \in Nat : KeysAt(z, k, n)
  BY DEF TIInv
<1>2. QED
  BY <1>1, OwnerOf DEF KeysAt

LEMMA ApproveKept ==
    ASSUME TrustConstants, TIInv, NEW z \in Nodes, NEW level \in {USER_VERIFIED, AUTO_ACCEPT},
           ApproveAt(z, level)
    PROVE  TIInv'
<1>1. PICK ski \in CurrentFor(own[z], "tls") :
        /\ store' = Remembered(store, ski, level)
        /\ forgotten' = forgotten \ {ski}
        /\ UNCHANGED <<scene, peerKeys, guard, saved, own, shaking, links, last, silence>>
  BY DEF ApproveAt
<1>2. ski \in Skis
  BY <1>1, CurrentIsLink DEF Links
<1>3. level \in Levels /\ level.second = 0 /\ level # UNTRUSTED
  BY LevelsAreLevels
<1>4. store \in Stores /\ OneTool(store) /\ TypesOK
  BY DEF TIInv, TypesOK
<1>5. /\ store' \in Stores /\ OneTool(store')
      /\ \A s \in Skis : store'.peers[s] = IF s = ski THEN level ELSE store.peers[s]
  BY <1>1, <1>2, <1>3, <1>4, RememberedParts
<1>6. TypesOK'
  BY <1>1, <1>4, <1>5 DEF TypesOK
<1>7. \A s \in Skis : Kept(store, forgotten, s) => Kept(store', forgotten', s)
  BY <1>1, <1>3, <1>5 DEF Kept, IsTrusted
<1>8. QED
  BY <1>1, <1>5, <1>6, <1>7, StoreStep

LEMMA ForgetKept ==
    ASSUME TrustConstants, TIInv, (\E ski \in Links : ForgetSki(ski)) \/ ForgetUnit \/ ForgetAll
    PROVE  TIInv'
<1>1. store \in Stores /\ OneTool(store) /\ TypesOK
  BY DEF TIInv, TypesOK
<1>2. CASE \E ski \in Links : ForgetSki(ski)
  <2>1. PICK ski \in Links : ForgetSki(ski)
    BY <1>2
  <2>2. ski \in Skis
    BY DEF Links
  <2>3. /\ store' \in Stores /\ OneTool(store')
        /\ \A s \in Skis : store'.peers[s] = IF s = ski THEN UNTRUSTED ELSE store.peers[s]
    BY <1>1, <2>1, <2>2, ForgetParts DEF ForgetSki
  <2>4. TypesOK'
    BY <1>1, <2>1, <2>2, <2>3 DEF TypesOK, ForgetSki
  <2>5. \A s \in Skis : Kept(store, forgotten, s) => Kept(store', forgotten', s)
    BY <2>1, <2>3 DEF Kept, IsTrusted, ForgetSki
  <2>6. QED
    BY <2>1, <2>3, <2>4, <2>5, StoreStep DEF ForgetSki
<1>3. CASE ForgetUnit
  <2>1. /\ store' \in Stores /\ OneTool(store')
        /\ \A s \in Skis : store'.peers[s] =
             IF s = store.unit.ski THEN UNTRUSTED ELSE store.peers[s]
    BY <1>1, <1>3, ForgetUnitParts DEF ForgetUnit
  <2>2. store.unit.ski \in Skis \cup {None} /\ None \notin Skis
    BY <1>1, StoreParts DEF Units, TrustConstants
  <2>3. forgotten' = forgotten \cup ({store.unit.ski} \ {None})
    BY <1>3 DEF ForgetUnit
  <2>4. TypesOK'
    BY <1>1, <1>3, <2>1, <2>2, <2>3 DEF TypesOK, ForgetUnit
  <2>5. \A s \in Skis : Kept(store, forgotten, s) => Kept(store', forgotten', s)
    BY <2>1, <2>2, <2>3 DEF Kept, IsTrusted
  <2>6. QED
    BY <1>3, <2>1, <2>4, <2>5, StoreStep DEF ForgetUnit
<1>4. CASE ForgetAll
  <2>1. store' \in Stores /\ OneTool(store')
    BY <1>4, NewStoreIsStore DEF ForgetAll
  <2>2. forgotten' = forgotten \cup {s \in Skis : IsTrusted(store, s)}
    BY <1>4 DEF ForgetAll
  <2>3. TypesOK'
    BY <1>1, <1>4, <2>1, <2>2 DEF TypesOK, ForgetAll
  <2>4. \A s \in Skis : Kept(store, forgotten, s) => Kept(store', forgotten', s)
    BY <2>2 DEF Kept
  <2>5. QED
    BY <1>4, <2>1, <2>3, <2>4, StoreStep DEF ForgetAll
<1>5. QED
  BY <1>2, <1>3, <1>4

LEMMA PinKept ==
    ASSUME TrustConstants, TIInv, NEW ski \in Links, PinVerified(ski)
    PROVE  TIInv'
<1>1. store \in Stores /\ OneTool(store) /\ TypesOK /\ ski \in Skis
  BY DEF TIInv, TypesOK, Links
<1>2. /\ store' \in Stores /\ OneTool(store')
      /\ \A s \in Skis : IsTrusted(store, s) => IsTrusted(store', s)
  BY <1>1, AwardParts DEF PinVerified
<1>3. TypesOK'
  BY <1>1, <1>2 DEF TypesOK, PinVerified
<1>4. \A s \in Skis : Kept(store, forgotten, s) => Kept(store', forgotten', s)
  BY <1>2 DEF Kept, PinVerified
<1>5. QED
  BY <1>2, <1>3, <1>4, StoreStep DEF PinVerified

LEMMA ConnectsKept ==
    ASSUME TrustConstants, TIInv, NEW z \in Nodes, Connects(z)
    PROVE  TIInv'
<1>1. PICK ski \in CurrentFor(own[z], "tls") :
        /\ store' = IF IsTrusted(store, ski) THEN store ELSE ObserveUnitSki(store, ski)
        /\ shaking' = shaking \cup {ski}
        /\ UNCHANGED <<scene, peerKeys, guard, saved, own, links, last, silence, forgotten>>
  BY DEF Connects
<1>2. ski \in Links /\ ski \in Skis
  BY CurrentIsLink DEF Links
<1>3. store \in Stores /\ OneTool(store) /\ TypesOK
  BY DEF TIInv, TypesOK
<1>4. /\ store' \in Stores /\ OneTool(store')
      /\ \A s \in Skis : IsTrusted(store, s) => IsTrusted(store', s)
  BY <1>1, <1>2, <1>3, ObserveParts
<1>5. TypesOK'
  BY <1>1, <1>2, <1>3, <1>4 DEF TypesOK
<1>6. \A s \in Skis : Kept(store, forgotten, s) => Kept(store', forgotten', s)
  BY <1>1, <1>4 DEF Kept
<1>7. QED
  BY <1>1, <1>4, <1>5, <1>6, StoreStep

\* Steps that leave the store alone.
LEMMA LinkKept ==
    ASSUME TrustConstants, TIInv,
           \/ \E ski \in Links : Adopted(ski) \/ MessageReceived(ski) \/ Disconnected(ski)
           \/ TTick
    PROVE  TIInv'
<1>1. TypesOK /\ OneTool(store)
  BY DEF TIInv
<1>2. UNCHANGED <<scene, store, peerKeys, guard, saved, own, forgotten>>
  BY DEF Adopted, MessageReceived, Disconnected, TTick
<1>3. last \in Nat /\ silence = last
  BY <1>1 DEF TypesOK
<1>4. last' \in Nat /\ silence' = last'
  <2>1. CASE TTick
    BY <2>1, <1>3 DEF TTick
  <2>2. ASSUME NEW ski \in Links, Adopted(ski) \/ MessageReceived(ski) \/ Disconnected(ski)
        PROVE  last' \in Nat /\ silence' = last'
    BY <2>2, <1>3 DEF Adopted, MessageReceived, Disconnected, Exchanged, HeardFrom
  <2>3. QED
    BY <2>1, <2>2
<1>5. links' \in SUBSET Links /\ shaking' \in SUBSET Links
  BY <1>1 DEF TypesOK, Adopted, MessageReceived, Disconnected, TTick
<1>6. TypesOK'
  BY <1>1, <1>2, <1>4, <1>5 DEF TypesOK
<1>7. OneTool(store') /\ \A s \in Skis : Kept(store, forgotten, s) => Kept(store', forgotten', s)
  BY <1>1, <1>2
<1>8. QED
  BY <1>2, <1>6, <1>7, StoreStep

\* The replay guard keeps to its capacity.
LEMMA GuardParts ==
    ASSUME TrustConstants, guard \in Guards, NEW d \in DOMAIN Requests
    PROVE  GuardAccept(d) \in Guards
<1> DEFINE longer == Append(guard, d)
<1>1. guard \in Seq(DOMAIN Requests) /\ Len(guard) <= GuardCapacity /\ Len(guard) \in Nat
  BY DEF Guards
<1>2. longer \in Seq(DOMAIN Requests) /\ Len(longer) = Len(guard) + 1
  BY <1>1
<1>3. GuardAccept(d) = IF Len(longer) > GuardCapacity THEN Tail(longer) ELSE longer
  BY DEF GuardAccept
<1>4. longer # <<>>
  BY <1>1, <1>2
<1> HIDE DEF longer
<1>5. Tail(longer) \in Seq(DOMAIN Requests) /\ Len(Tail(longer)) = Len(longer) - 1
  BY <1>1, <1>2, <1>4
<1>6. GuardCapacity \in Nat
  BY DEF TrustConstants
<1>7. QED
  BY <1>1, <1>2, <1>3, <1>5, <1>6 DEF Guards

LEMMA PairingKept ==
    ASSUME TrustConstants, TIInv, NEW d \in DOMAIN Requests, EvaluatePairing(d)
    PROVE  TIInv'
<1> DEFINE fp == Requests[d].trustPar
           u == [fp |-> fp, ski |-> None]
<1>1. store \in Stores /\ OneTool(store) /\ TypesOK
  BY DEF TIInv, TypesOK
<1>2. guard' \in Guards /\ UNCHANGED <<scene, peerKeys, saved, own, shaking>>
  BY <1>1, GuardParts DEF EvaluatePairing, TypesOK
<1>3. CASE fp = Self
  <2>1. UNCHANGED <<store, links, forgotten, last, silence>>
    BY <1>3 DEF EvaluatePairing
  <2>2. TypesOK'
    BY <1>1, <1>2, <2>1 DEF TypesOK
  <2>3. OneTool(store') /\ \A s \in Skis : Kept(store, forgotten, s) => Kept(store', forgotten', s)
    BY <1>1, <2>1
  <2>4. QED
    BY <1>2, <2>2, <2>3, StoreStep
<1>4. CASE fp # Self
  <2>1. /\ store' = TrustUnit(store, u)
        /\ links' \subseteq links
        /\ forgotten' = forgotten \cup ({store.unit.ski} \ {None})
        /\ last' = 0 /\ silence' = 0
    BY <1>4 DEF EvaluatePairing
  <2>2. u \in Units /\ u.ski = None
    BY <1>4 DEF TrustConstants, Units
  <2> HIDE DEF u
  <2>3. /\ store' \in Stores /\ OneTool(store')
        /\ \A s \in Skis : store'.peers[s] =
             IF s = None THEN USER_VERIFIED
             ELSE IF s = store.unit.ski THEN UNTRUSTED ELSE store.peers[s]
    BY <1>1, <2>1, <2>2, TrustUnitParts
  <2>4. store.unit.ski \in Skis \cup {None} /\ None \notin Skis
    BY <1>1, StoreParts DEF Units, TrustConstants
  <2>5. TypesOK'
    BY <1>1, <1>2, <2>1, <2>3, <2>4 DEF TypesOK
  <2>6. \A s \in Skis : Kept(store, forgotten, s) => Kept(store', forgotten', s)
    BY <2>1, <2>3, <2>4 DEF Kept, IsTrusted
  <2>7. QED
    BY <1>2, <2>3, <2>5, <2>6, StoreStep
<1>5. QED
  BY <1>3, <1>4

\* What a device announces, and what is on record of it, are keys of that device.
LEMMA KeysAreOwn ==
    ASSUME TrustConstants, TIInv
    PROVE  /\ \A z \in Nodes : \A s \in Announced(own[z]) : s \in Links /\ Owner(s) = z
           /\ \A ski \in Links : \A s \in peerKeys[ski].trusted \cup saved.keys[ski].trusted :
                s \in Links /\ Owner(s) = Owner(ski)
<1>1. ASSUME NEW z \in Nodes, NEW s \in Announced(own[z])
      PROVE  s \in Links /\ Owner(s) = z
  <2>1. PICK k, n \in Nat : KeysAt(z, k, n)
    BY DEF TIInv
  <2>2. QED
    BY <2>1, OwnerOf DEF KeysAt
<1>2. ASSUME NEW ski \in Links, NEW s \in peerKeys[ski].trusted \cup saved.keys[ski].trusted
      PROVE  s \in Links /\ Owner(s) = Owner(ski)
  <2> DEFINE z == Owner(ski)
  <2>1. z \in Nodes
    BY OwnerIsNode
  <2>2. PICK k, n \in Nat : KeysAt(z, k, n)
    BY <2>1 DEF TIInv
  <2>3. s \in {Keys[z][j] : j \in 1 .. n} /\ n \in DOMAIN Keys[z]
    BY <2>2 DEF KeysAt
  <2>4. PICK j \in 1 .. n : s = Keys[z][j]
    BY <2>3
  <2>5. j \in DOMAIN Keys[z]
    BY <2>1, <2>3, <2>4 DEF TrustConstants
  <2>6. QED
    BY <2>1, <2>4, <2>5, OwnerOf
<1>3. QED
  BY <1>1, <1>2

LEMMA FollowKept ==
    ASSUME TrustConstants, TIInv, NEW ski \in Links, FollowKeyMaterial(ski)
    PROVE  TIInv'
<1> DEFINE z == Owner(ski)
           message == own[z]
           record == peerKeys[ski]
           trust == NewlyTrusted(record, message)
           untrust == NoLongerTrusted(record, message)
           next == ApplyKeys(record, message)
<1>1. /\ peerKeys' = [peerKeys EXCEPT ![ski] = next]
      /\ store' = FollowedIn(store, trust, untrust, ski)
      /\ forgotten' = forgotten \ trust
      /\ UNCHANGED <<scene, guard, saved, own, shaking, links, last, silence>>
  BY DEF FollowKeyMaterial
<1>2. z \in Nodes
  BY OwnerIsNode
<1>3. TypesOK /\ store \in Stores /\ OneTool(store) /\ peerKeys \in Records
  BY DEF TIInv, TypesOK
<1>4. Announced(message) \subseteq Skis /\ record.trusted \subseteq Skis
  BY <1>2, KeysAreOwn DEF Links
<1>5. message.counter \in Nat
  BY <1>2, <1>3 DEF TypesOK
<1>6. next.counter = message.counter /\ next.trusted = Announced(message)
  BY DEF ApplyKeys
<1>7. next \in [counter : Nat, trusted : SUBSET Skis]
  BY <1>4, <1>5 DEF ApplyKeys
<1>8. /\ trust = Announced(message) \ record.trusted
      /\ untrust = record.trusted \ Announced(message)
  BY DEF NewlyTrusted, NoLongerTrusted
<1> HIDE DEF next, trust, untrust
<1>9. peerKeys' \in Records /\ \A x \in Links : peerKeys'[x] = IF x = ski THEN next ELSE peerKeys[x]
  BY <1>1, <1>3, <1>7 DEF Records, Links
<1>10. /\ store' \in Stores /\ OneTool(store')
       /\ \A s \in Skis : store'.peers[s] =
            IF s \in untrust \ {ski} THEN UNTRUSTED
            ELSE IF s \in trust THEN USER_VERIFIED ELSE store.peers[s]
  <2>1. trust \in SUBSET Skis /\ untrust \in SUBSET Skis
    BY <1>4, <1>8
  <2>2. QED
    BY <1>1, <1>3, <2>1, FollowedParts
<1>11. TypesOK'
  BY <1>1, <1>3, <1>9, <1>10 DEF TypesOK
<1>12. ASSUME NEW y \in Nodes PROVE \E k, n \in Nat : KeysAt(y, k, n)'
  <2>1. PICK k, n \in Nat : KeysAt(y, k, n)
    BY DEF TIInv
  <2>2. y = z => Announced(message) \subseteq {Keys[y][j] : j \in 1 .. n}
    <3>1. y = z => Announced(message) = {Keys[y][k], Keys[y][n]}
      BY <2>1 DEF KeysAt
    <3>2. k \in 1 .. n /\ n \in 1 .. n
      BY <2>1 DEF KeysAt, TrustConstants
    <3>3. QED
      BY <3>1, <3>2
  <2>3. \A x \in Links : Owner(x) = y =>
          peerKeys'[x].trusted \subseteq {Keys[y][j] : j \in 1 .. n}
    BY <1>6, <1>9, <2>1, <2>2 DEF KeysAt
  <2>4. KeysAt(y, k, n)'
    BY <1>1, <2>1, <2>3 DEF KeysAt
  <2>5. QED
    BY <2>4
<1>13. CountersOK(peerKeys)'
  BY <1>1, <1>5, <1>6, <1>9 DEF TIInv, CountersOK
<1>14. RecordsKept(peerKeys, store, forgotten)'
  <2> SUFFICES ASSUME NEW x \in Links, NEW s \in peerKeys'[x].trusted,
                      s \in Announced(own[Owner(x)])
               PROVE  Kept(store', forgotten', s)
    BY <1>1 DEF RecordsKept, Kept, IsTrusted
  <2>1. Owner(x) \in Nodes
    BY OwnerIsNode
  <2>2. s \in Skis /\ Owner(s) = Owner(x)
    BY <2>1, KeysAreOwn DEF Links
  <2>3. s \notin untrust
    BY <2>2, <1>8, KeysAreOwn
  <2>4. s \in trust \/ Kept(store, forgotten, s)
    BY <1>6, <1>8, <1>9 DEF TIInv, RecordsKept
  <2>5. USER_VERIFIED # UNTRUSTED
    BY LevelsAreLevels
  <2>6. QED
    BY <1>1, <1>10, <2>2, <2>3, <2>4, <2>5 DEF Kept, IsTrusted
<1>15. CountersOK(saved.keys)' /\ RecordsKept(saved.keys, saved.store, saved.forgotten)'
  BY <1>1 DEF TIInv, CountersOK, RecordsKept, Kept, IsTrusted
<1>16. OneTool(store)' /\ OneTool(saved.store)'
  BY <1>1, <1>10 DEF TIInv, OneTool
<1>17. QED
  BY <1>11, <1>12, <1>13, <1>14, <1>15, <1>16 DEF TIInv

LEMMA SaveKept ==
    ASSUME TrustConstants, TIInv, Save
    PROVE  TIInv'
<1>1. /\ saved'.store = store /\ saved'.keys = peerKeys
      /\ saved'.forgotten = forgotten /\ saved'.guard = guard
      /\ saved' = [store |-> store, keys |-> peerKeys, guard |-> guard, forgotten |-> forgotten]
      /\ UNCHANGED <<scene, store, peerKeys, guard, own, shaking, links, last, silence,
                     forgotten>>
  BY DEF Save, Image
<1>2. TypesOK'
  BY <1>1 DEF TIInv, TypesOK, Images
<1>3. \A z \in Nodes : \E k, n \in Nat : KeysAt(z, k, n)'
  BY ZenonT(30), <1>1 DEF TIInv, KeysAt
<1>4. CountersOK(peerKeys)' /\ CountersOK(saved.keys)'
  BY <1>1 DEF TIInv, CountersOK
<1>5. /\ RecordsKept(peerKeys, store, forgotten)'
      /\ RecordsKept(saved.keys, saved.store, saved.forgotten)'
  BY <1>1 DEF TIInv, RecordsKept, Kept, IsTrusted
<1>6. OneTool(store)' /\ OneTool(saved.store)'
  BY <1>1 DEF TIInv, OneTool
<1>7. QED
  BY <1>2, <1>3, <1>4, <1>5, <1>6 DEF TIInv

LEMMA RestartKept ==
    ASSUME TrustConstants, TIInv, Restart
    PROVE  TIInv'
<1>1. /\ store' = FromJson(saved.store) /\ peerKeys' = saved.keys
      /\ guard' = saved.guard /\ shaking' = {} /\ links' = {}
      /\ last' = 0 /\ silence' = 0 /\ forgotten' = saved.forgotten
      /\ UNCHANGED <<scene, saved, own>>
  BY DEF Restart
<1>2. /\ TypesOK /\ saved.store \in Stores /\ OneTool(saved.store)
      /\ saved.keys \in Records /\ saved.guard \in Guards /\ saved.forgotten \in SUBSET Skis
  BY DEF TIInv, TypesOK, Images
<1>3. /\ store' \in Stores /\ OneTool(store')
      /\ \A s \in Skis : IsTrusted(saved.store, s) => IsTrusted(store', s)
  BY <1>1, <1>2, FromJsonParts
<1>4. TypesOK'
  BY <1>1, <1>2, <1>3 DEF TypesOK
<1>5. \A z \in Nodes : \E k, n \in Nat : KeysAt(z, k, n)'
  BY SMTT(20), <1>1 DEF TIInv, KeysAt
<1>6. CountersOK(peerKeys)' /\ CountersOK(saved.keys)'
  BY <1>1 DEF TIInv, CountersOK
<1>7. RecordsKept(saved.keys, saved.store, saved.forgotten)'
  BY <1>1 DEF TIInv, RecordsKept, Kept, IsTrusted
<1>8. RecordsKept(peerKeys, store, forgotten)'
  <2> SUFFICES ASSUME NEW x \in Links, NEW s \in saved.keys[x].trusted,
                      s \in Announced(own[Owner(x)])
               PROVE  Kept(store', forgotten', s)
    BY <1>1 DEF RecordsKept, Kept, IsTrusted
  <2>1. Kept(saved.store, saved.forgotten, s) /\ s \in Skis
    BY KeysAreOwn DEF TIInv, RecordsKept, Links
  <2>2. QED
    BY <1>1, <1>3, <2>1 DEF Kept
<1>9. OneTool(store)' /\ OneTool(saved.store)'
  BY <1>1, <1>3 DEF TIInv, OneTool
<1>10. QED
  BY <1>4, <1>5, <1>6, <1>7, <1>8, <1>9 DEF TIInv

-----------------------------------------------------------------------------
(* Renewal *)

\* A step in which device z changes its keys: nobody's record is up to date afterwards, and
\* a key it announces now and did not before is on nobody's record.
LEMMA OwnStep ==
    ASSUME TrustConstants, TIInv, NEW z \in Nodes,
           NEW keys \in [counter : Nat \ {0}, entries : SUBSET Entries],
           keys.counter = own[z].counter + 1,
           own' = [own EXCEPT ![z] = keys],
           UNCHANGED <<scene, store, peerKeys, guard, saved, shaking, links, last, silence,
                       forgotten>>,
           \E k, n \in Nat : KeysAt(z, k, n)',
           \A s \in Announced(keys) : s \in Announced(own[z]) \/
             \A ski \in Links : Owner(ski) = z =>
               s \notin peerKeys[ski].trusted /\ s \notin saved.keys[ski].trusted
    PROVE  TIInv'
<1>1. TypesOK
  BY DEF TIInv
<1>2. \A y \in Nodes : own'[y] = IF y = z THEN keys ELSE own[y]
  BY <1>1 DEF TypesOK
<1>3. TypesOK'
  BY <1>1 DEF TypesOK
<1>4. \A y \in Nodes : \E k, n \in Nat : KeysAt(y, k, n)'
  <2> TAKE y \in Nodes
  <2>1. CASE y = z
    BY <2>1
  <2>2. CASE y # z
    <3>1. PICK k, n \in Nat : KeysAt(y, k, n)
      BY DEF TIInv
    <3>2. own'[y] = own[y]
      BY <1>2, <2>2
    <3>3. KeysAt(y, k, n)'
      BY <3>1, <3>2 DEF KeysAt
    <3>4. QED
      BY <3>3
  <2>3. QED
    BY <2>1, <2>2
<1>5. \A ski \in Links : /\ Owner(ski) \in Nodes
                         /\ own[Owner(ski)].counter \in Nat
                         /\ peerKeys[ski].counter \in Nat /\ saved.keys[ski].counter \in Nat
  BY <1>1, OwnerIsNode DEF TypesOK, Records, Images, Links
<1>6. CountersOK(peerKeys)' /\ CountersOK(saved.keys)'
  <2>1. ASSUME NEW ski \in Links, Owner(ski) = z
        PROVE  /\ peerKeys[ski].counter < own'[Owner(ski)].counter
               /\ saved.keys[ski].counter < own'[Owner(ski)].counter
    <3>1. own'[Owner(ski)].counter = own[z].counter + 1
      BY <1>2, <2>1
    <3>2. /\ peerKeys[ski].counter <= own[z].counter
          /\ saved.keys[ski].counter <= own[z].counter
      BY <2>1 DEF TIInv, CountersOK
    <3>3. QED
      BY <3>1, <3>2, <2>1, <1>5
  <2>2. ASSUME NEW ski \in Links, Owner(ski) # z
        PROVE  own'[Owner(ski)] = own[Owner(ski)]
    BY <1>2, <1>5, <2>2
  <2>3. \A ski \in Links : own'[Owner(ski)].counter \in Nat
    BY <1>2, <1>5
  <2>4. QED
    BY <1>5, <2>1, <2>2, <2>3 DEF TIInv, CountersOK
<1>7. ASSUME NEW ski \in Links, NEW s, s \in Announced(own'[Owner(ski)]),
             s \in peerKeys[ski].trusted \/ s \in saved.keys[ski].trusted
      PROVE  s \in Announced(own[Owner(ski)])
  BY <1>2, <1>5, <1>7
<1>8. RecordsKept(peerKeys, store, forgotten)'
  BY <1>7 DEF TIInv, RecordsKept, Kept, IsTrusted
<1>9. RecordsKept(saved.keys, saved.store, saved.forgotten)'
  BY <1>7 DEF TIInv, RecordsKept, Kept, IsTrusted
<1>10. OneTool(store)' /\ OneTool(saved.store)'
  BY DEF TIInv, OneTool
<1>11. QED
  BY <1>3, <1>4, <1>6, <1>8, <1>9, <1>10 DEF TIInv

\* What the counter and the entries of changed keys are.
LEMMA ChangedKeys ==
    ASSUME NEW keys \in [counter : Nat \ {0}, entries : SUBSET Entries],
           NEW entries \in SUBSET Entries
    PROVE  /\ Bump(keys, entries).counter = keys.counter + 1
           /\ Bump(keys, entries).entries = entries
           /\ Bump(keys, entries) \in [counter : Nat \ {0}, entries : SUBSET Entries]
BY DEF Bump

\* Two sets of entries with the same ones of the negotiated curve announce the same.
LEMMA OtherCurve ==
    ASSUME NEW a, NEW b,
           \A e : e.curve = "tls" => (e \in a.entries <=> e \in b.entries)
    PROVE  Announced(a) = Announced(b) /\ CurrentFor(a, "tls") = CurrentFor(b, "tls")
BY DEF Announced, CurrentFor, EntriesIn

LEMMA CurveKept ==
    ASSUME TrustConstants, TIInv, NEW z \in Nodes, AddCurve(z) \/ DropCurve(z)
    PROVE  TIInv'
<1> DEFINE spare == [state |-> "Current", curve |-> "spare", ski |-> Spare]
           entries == IF AddCurve(z) THEN own[z].entries \cup {spare}
                      ELSE {e \in own[z].entries : e.curve # "spare"}
           keys == Bump(own[z], entries)
<1>1. own[z] \in [counter : Nat \ {0}, entries : SUBSET Entries] /\ z \in DOMAIN own
  BY DEF TIInv, TypesOK
<1>2. /\ own' = [own EXCEPT ![z] = keys]
      /\ UNCHANGED <<scene, store, peerKeys, guard, saved, shaking, links, last, silence,
                     forgotten>>
  <2>1. CASE AddCurve(z)
    <3>1. keys = Bump(own[z], own[z].entries \cup {spare})
      BY <2>1
    <3>2. QED
      BY <1>1, <2>1, <3>1 DEF AddCurve
  <2>2. CASE ~AddCurve(z)
    <3>1. keys = Bump(own[z], {e \in own[z].entries : e.curve # "spare"})
      BY <2>2
    <3>2. QED
      BY <1>1, <2>2, <3>1 DEF DropCurve
  <2>3. QED
    BY <2>1, <2>2
<1>3. spare \in Entries /\ spare.curve = "spare" /\ spare.state = "Current"
  BY DEF Entries, Skis
<1> HIDE DEF spare
<1>4. entries \in SUBSET Entries
  BY <1>1, <1>3
<1>5. \A e : e.curve = "tls" => (e \in entries <=> e \in own[z].entries)
  BY <1>3
<1>6. \A e \in entries : e.state = "Successor" => e \in own[z].entries
  BY <1>3
<1> HIDE DEF entries
<1>7. /\ keys.counter = own[z].counter + 1 /\ keys.entries = entries
      /\ keys \in [counter : Nat \ {0}, entries : SUBSET Entries]
  BY <1>1, <1>4, ChangedKeys
<1> HIDE DEF keys
<1>8. Announced(keys) = Announced(own[z]) /\ CurrentFor(keys, "tls") = CurrentFor(own[z], "tls")
  BY <1>5, <1>7, OtherCurve
<1>9. \E k, n \in Nat : KeysAt(z, k, n)'
  <2>1. PICK k, n \in Nat : KeysAt(z, k, n)
    BY DEF TIInv
  <2>2. own'[z] = keys
    BY <1>1, <1>2
  <2> DEFINE successor == [state |-> "Successor", curve |-> "tls", ski |-> Keys[z][n]]
  <2>3. successor.curve = "tls"
    OBVIOUS
  <2>4. n = k + 1 => successor \in keys.entries
    BY <1>5, <1>7, <2>1, <2>3 DEF KeysAt
  <2>5. KeysAt(z, k, n)'
    BY <1>2, <1>6, <1>7, <1>8, <2>1, <2>2, <2>4 DEF KeysAt
  <2>6. QED
    BY <2>5
<1>10. QED
  BY <1>2, <1>7, <1>8, <1>9, OwnStep

LEMMA BeginKept ==
    ASSUME TrustConstants, TIInv, NEW z \in Nodes, BeginUpdate(z)
    PROVE  TIInv'
<1>1. own[z] \in [counter : Nat \ {0}, entries : SUBSET Entries] /\ z \in DOMAIN own
  BY DEF TIInv, TypesOK
<1>2. PICK i \in 2 .. Len(Keys[z]) :
        /\ Keys[z][i - 1] \in CurrentFor(own[z], "tls")
        /\ own' = [own EXCEPT ![z] = Bump(own[z], own[z].entries \cup
                      {[state |-> "Successor", curve |-> "tls", ski |-> Keys[z][i]]})]
  BY DEF BeginUpdate
<1>3. UNCHANGED <<scene, store, peerKeys, guard, saved, shaking, links, last, silence,
                  forgotten>>
  BY DEF BeginUpdate
<1>4. PICK k, n \in Nat : KeysAt(z, k, n)
  BY DEF TIInv
<1>5. \A e \in own[z].entries : e.state # "Successor"
  BY DEF BeginUpdate, UpdateInProgress, EntriesIn
<1>6. n = k
  <2> DEFINE successor == [state |-> "Successor", curve |-> "tls", ski |-> Keys[z][n]]
  <2>1. successor.state = "Successor"
    OBVIOUS
  <2>2. n = k + 1 => successor \in own[z].entries
    BY <1>4 DEF KeysAt
  <2>3. QED
    BY <1>4, <1>5, <2>1, <2>2 DEF KeysAt
<1>7. i \in DOMAIN Keys[z] /\ i - 1 \in DOMAIN Keys[z] /\ k \in DOMAIN Keys[z]
  BY <1>4 DEF TrustConstants, KeysAt
<1>8. i = k + 1
  <2>1. Keys[z][i - 1] = Keys[z][k]
    BY <1>2, <1>4 DEF KeysAt
  <2>2. i - 1 = k
    BY <1>7, <2>1 DEF TrustConstants
  <2>3. QED
    BY <1>2, <2>2
<1> DEFINE e == [state |-> "Successor", curve |-> "tls", ski |-> Keys[z][i]]
           entries == own[z].entries \cup {e}
           keys == Bump(own[z], entries)
<1>9. e.state = "Successor" /\ e.curve = "tls" /\ e.ski = Keys[z][i]
  OBVIOUS
<1>10. e \in Entries
  BY <1>7, OwnerOf DEF Entries, Links
<1>11. e = [state |-> "Successor", curve |-> "tls", ski |-> Keys[z][i]]
  OBVIOUS
<1>12. own' = [own EXCEPT ![z] = keys]
  BY <1>2
<1> HIDE DEF e
<1>13. entries \in SUBSET Entries
  BY <1>1, <1>10
<1>14. /\ keys.counter = own[z].counter + 1 /\ keys.entries = entries
       /\ keys \in [counter : Nat \ {0}, entries : SUBSET Entries]
  BY <1>1, <1>13, ChangedKeys
<1> HIDE DEF keys
<1>15. CurrentFor(keys, "tls") = CurrentFor(own[z], "tls")
  BY <1>9, <1>14 DEF CurrentFor, EntriesIn
<1>16. Announced(keys) = Announced(own[z]) \cup {Keys[z][i]}
  BY <1>9, <1>14 DEF Announced
<1>17. own'[z] = keys
  BY <1>1, <1>12
<1>18. KeysAt(z, k, i)'
  <2>1. Announced(keys) = {Keys[z][k], Keys[z][i]}
    BY <1>4, <1>6, <1>16 DEF KeysAt
  <2>2. \A ski \in Links : Owner(ski) = z =>
         /\ peerKeys[ski].trusted \subseteq {Keys[z][j] : j \in 1 .. i}
         /\ saved.keys[ski].trusted \subseteq {Keys[z][j] : j \in 1 .. i}
    <3>1. {Keys[z][j] : j \in 1 .. n} \subseteq {Keys[z][j] : j \in 1 .. i}
      BY <1>6, <1>8
    <3>2. QED
      BY <1>4, <3>1 DEF KeysAt
  <2>3. \A x \in keys.entries : x.state = "Successor" =>
          x.curve = "tls" /\ i = k + 1 /\ x.ski = Keys[z][i]
    BY <1>5, <1>8, <1>9, <1>14
  <2>4. QED
    BY <1>3, <1>4, <1>7, <1>8, <1>11, <1>14, <1>15, <1>17, <2>1, <2>2, <2>3 DEF KeysAt
<1>19. \A ski \in Links : Owner(ski) = z =>
         Keys[z][i] \notin peerKeys[ski].trusted /\ Keys[z][i] \notin saved.keys[ski].trusted
  <2>1. Keys[z][i] \notin {Keys[z][j] : j \in 1 .. n}
    <3>1. ASSUME NEW j \in 1 .. n PROVE Keys[z][i] # Keys[z][j]
      <4>1. j \in DOMAIN Keys[z] /\ j # i
        BY <1>4, <1>6, <1>7, <1>8 DEF TrustConstants, KeysAt
      <4>2. QED
        BY <1>7, <4>1 DEF TrustConstants
    <3>2. QED
      BY <3>1
  <2>2. QED
    BY <1>4, <2>1 DEF KeysAt
<1>20. \E m, j \in Nat : KeysAt(z, m, j)'
  BY <1>18, <1>8
<1>21. \A s \in Announced(keys) : s \in Announced(own[z]) \/
         \A ski \in Links : Owner(ski) = z =>
           s \notin peerKeys[ski].trusted /\ s \notin saved.keys[ski].trusted
  BY <1>16, <1>19
<1>22. QED
  BY <1>3, <1>12, <1>14, <1>20, <1>21, OwnStep

LEMMA PromotedParts ==
    ASSUME NEW e \in Entries
    PROVE  /\ Promoted(e) \in Entries
           /\ Promoted(e).curve = e.curve /\ Promoted(e).ski = e.ski
           /\ e.curve # "tls" => Promoted(e).state = e.state
           /\ e.curve = "tls" => Promoted(e).state =
                IF e.state = "Current" THEN "Predecessor"
                ELSE IF e.state = "Successor" THEN "Current" ELSE e.state
BY DEF Promoted, Entries

LEMMA CompleteKept ==
    ASSUME TrustConstants, TIInv, NEW z \in Nodes, CompleteUpdate(z)
    PROVE  TIInv'
<1> DEFINE staying == {x \in own[z].entries : x.curve # "tls" \/ x.state # "Predecessor"}
           entries == {Promoted(e) : e \in staying}
           keys == Bump(own[z], entries)
<1>1. own[z] \in [counter : Nat \ {0}, entries : SUBSET Entries] /\ z \in DOMAIN own
  BY DEF TIInv, TypesOK
<1>2. /\ own' = [own EXCEPT ![z] = keys]
      /\ UNCHANGED <<scene, store, peerKeys, guard, saved, shaking, links, last, silence,
                     forgotten>>
  BY DEF CompleteUpdate
<1>3. PICK k, n \in Nat : KeysAt(z, k, n)
  BY DEF TIInv
<1>4. n = k + 1
  BY <1>3 DEF CompleteUpdate, UpdateInProgress, EntriesIn, KeysAt
<1>5. staying \subseteq Entries
  BY <1>1
<1>6. entries \in SUBSET Entries
  BY <1>5, PromotedParts
<1>7. /\ keys.counter = own[z].counter + 1 /\ keys.entries = entries
      /\ keys \in [counter : Nat \ {0}, entries : SUBSET Entries]
  BY <1>1, <1>6, ChangedKeys
<1>8. \A x \in entries : x.curve = "tls" =>
        \/ x.state = "Predecessor"
        \/ /\ x.state = "Current"
           /\ \E e \in own[z].entries : e.curve = "tls" /\ e.state = "Successor" /\ e.ski = x.ski
  <2>1. ASSUME NEW e \in staying, e.curve = "tls"
        PROVE  \/ Promoted(e).state = "Predecessor"
               \/ Promoted(e).state = "Current" /\ e.state = "Successor"
    <3>1. e.state \in {"Current", "Successor"}
      BY <1>5, <2>1 DEF Entries
    <3>2. QED
      BY <1>5, <2>1, <3>1, PromotedParts
  <2>2. QED
    BY <1>5, <2>1, PromotedParts
<1>9. \A x \in entries : x.curve # "tls" => x \in own[z].entries /\ x.state # "Successor"
  <2>1. ASSUME NEW e \in staying, e.curve # "tls"
        PROVE  Promoted(e) = e /\ e.state # "Successor"
    BY <1>3, <2>1 DEF Promoted, KeysAt
  <2>2. QED
    BY <1>5, <2>1, PromotedParts
<1>10. \A x \in entries : x.curve = "tls" /\ x.state # "Predecessor" =>
         x.state = "Current" /\ x.ski = Keys[z][n]
  BY <1>3, <1>8 DEF KeysAt
<1> DEFINE old == [state |-> "Successor", curve |-> "tls", ski |-> Keys[z][n]]
<1>11. old.state = "Successor" /\ old.curve = "tls" /\ old.ski = Keys[z][n]
  OBVIOUS
<1>12. old \in own[z].entries
  BY <1>3, <1>4 DEF KeysAt
<1> HIDE DEF old
<1>13. \E x \in entries : x.curve = "tls" /\ x.state = "Current" /\ x.ski = Keys[z][n]
  <2>1. old \in staying
    BY <1>11, <1>12
  <2>2. Promoted(old) \in entries
    BY <2>1
  <2>3. QED
    BY <1>5, <1>11, <2>1, <2>2, PromotedParts
<1> HIDE DEF entries, keys
<1>14. CurrentFor(keys, "tls") = {Keys[z][n]}
  BY <1>7, <1>10, <1>13 DEF CurrentFor, EntriesIn
<1>15. Announced(keys) = {Keys[z][n]}
  BY <1>7, <1>10, <1>13 DEF Announced
<1>16. \A x \in entries : x.state # "Successor"
  BY <1>9, <1>10
<1>17. own'[z] = keys
  BY <1>1, <1>2
<1>18. KeysAt(z, n, n)'
  BY <1>2, <1>3, <1>7, <1>14, <1>15, <1>16, <1>17 DEF KeysAt
<1>19. \A s \in Announced(keys) : s \in Announced(own[z])
  BY <1>3, <1>15 DEF KeysAt
<1>20. \E m, j \in Nat : KeysAt(z, m, j)'
  BY <1>18
<1>21. QED
  BY <1>2, <1>7, <1>19, <1>20, OwnStep

-----------------------------------------------------------------------------
(* The results *)

LEMMA TNextKept == TrustConstants /\ TIInv /\ [TNext]_tvars => TIInv'
<1> SUFFICES ASSUME TrustConstants, TIInv, [TNext]_tvars PROVE TIInv'
  OBVIOUS
<1>1. CASE UNCHANGED tvars
  <2>1. UNCHANGED <<scene, store, peerKeys, guard, saved, own, shaking, links, last, silence,
                    forgotten>>
    BY <1>1 DEF tvars
  <2>2. TypesOK' /\ OneTool(store')
    BY <2>1 DEF TIInv, TypesOK
  <2>3. QED
    BY <2>1, <2>2, StoreStep
<1>2. scene.nodes \subseteq Nodes /\ Skis \ {Spare} = Links
  BY DEF TIInv, TypesOK, TrustConstants, Links
<1>3. ASSUME NEW z \in scene.nodes,
             \/ ApproveAt(z, USER_VERIFIED) \/ Connects(z) \/ ApproveAt(z, AUTO_ACCEPT)
             \/ BeginUpdate(z) \/ CompleteUpdate(z) \/ AddCurve(z) \/ DropCurve(z)
      PROVE  TIInv'
  <2>1. z \in Nodes
    BY <1>2
  <2>2. QED
    BY <1>3, <2>1, ApproveKept, ConnectsKept, BeginKept, CompleteKept, CurveKept
<1>4. ASSUME NEW ski \in Links,
             \/ Adopted(ski) \/ Disconnected(ski) \/ PinVerified(ski) \/ ForgetSki(ski)
             \/ MessageReceived(ski) \/ FollowKeyMaterial(ski)
      PROVE  TIInv'
  BY <1>4, LinkKept, PinKept, ForgetKept, FollowKept
<1>5. CASE ForgetUnit \/ TTick \/ ForgetAll \/ Save \/ Restart
  BY <1>5, ForgetKept, LinkKept, SaveKept, RestartKept
<1>6. CASE \E d \in DOMAIN Requests : EvaluatePairing(d)
  BY <1>6, PairingKept
<1>7. QED
  BY <1>1, <1>2, <1>3, <1>4, <1>5, <1>6 DEF TNext

\* What the invariant says of the tools, the types and the renewals.
LEMMA KeptShows ==
    ASSUME TrustConstants, TIInv
    PROVE  TrustTypeOK /\ OneCommissioningTool /\ RenewalIsFollowed
<1>1. TrustTypeOK
  <2>1. store.peers \in [Skis -> Levels] /\ store.unit \in Units
    BY StoreParts DEF TIInv, TypesOK
  <2>2. store.unit \in [fp : Skis \cup {None}, ski : Skis \cup {None}]
    BY <2>1 DEF Units
  <2>3. Len(guard) <= GuardCapacity
    BY DEF TIInv, TypesOK, Guards
  <2>4. links \cup shaking \subseteq Skis
    BY DEF TIInv, TypesOK, Links
  <2>5. \A s \in Skis : peerKeys[s].trusted \subseteq Skis
    BY DEF TIInv, TypesOK, Records
  <2>6. QED
    BY <2>1, <2>2, <2>3, <2>4, <2>5 DEF TrustTypeOK, Levels
<1>2. OneCommissioningTool
  BY DEF TIInv, OneTool, OneCommissioningTool
<1>3. RenewalIsFollowed
  <2>1. links \subseteq Links
    BY DEF TIInv, TypesOK
  <2>2. QED
    BY <2>1 DEF TIInv, RenewalIsFollowed, CountersOK, RecordsKept, Kept
<1>4. QED
  BY <1>1, <1>2, <1>3

\* A pairing request is evaluated for a node with a unit only after the unit was silent.
LEMMA PairingSpares ==
    ASSUME TIInv
    PROVE  UnitIsKept
BY DEF TIInv, TypesOK, UnitIsKept, EvaluatePairing, Accepting

\* At most one record has the second factor of a commissioning tool, and a link whose latest
\* announcement was taken up has its device's keys trusted, whatever is forgotten, paired,
\* renewed, saved and restored in between. (node.rs TrustStore, ship/keys.rs)
THEOREM TrustIsKept ==
    ASSUME TrustConstants
    PROVE  TSpec => [](TrustTypeOK /\ OneCommissioningTool /\ RenewalIsFollowed)
<1>1. TInit => TIInv
  BY TInitKept
<1>2. TIInv /\ [TNext]_tvars => TIInv'
  BY TNextKept
<1>3. TIInv => TrustTypeOK /\ OneCommissioningTool /\ RenewalIsFollowed
  BY KeptShows
<1>4. QED
  BY <1>1, <1>2, <1>3, PTL DEF TSpec

\* A control unit that was heard from is not displaced by a pairing request. (hub.rs
\* evaluate_pairing, note_unit_exchange)
THEOREM UnitIsSpared ==
    ASSUME TrustConstants
    PROVE  TSpec => [][UnitIsKept]_tvars
<1>1. TInit => TIInv
  BY TInitKept
<1>2. TIInv /\ [TNext]_tvars => TIInv'
  BY TNextKept
<1>3. TIInv => UnitIsKept
  BY PairingSpares
<1>4. QED
  BY <1>1, <1>2, <1>3, PTL DEF TSpec

-----------------------------------------------------------------------------
(* Requester: what is still to be polled agrees with the state.             *)

\* The inductive invariant.
RIInv ==
    /\ Asking!RequestIsAnnounced
    /\ onAir \in BOOLEAN /\ complete \in BOOLEAN /\ overruled \in BOOLEAN
    /\ requester.pending = "Announce" => Asking!is_announcing(requester)
    /\ requester.pending = "Withdraw" => ~Asking!is_announcing(requester)
    /\ ~Asking!is_announcing(requester) => requester.since = -1

LEMMA RInitAnnounced ==
    ASSUME SETTLED_AFTER \in Nat, Asking!RInit
    PROVE  RIInv
BY DEF RIInv, Asking!RInit, Asking!RequestIsAnnounced, Asking!new, Asking!is_announcing,
       Asking!Requesters, Asking!Ages, Asking!None, Asking!Down

LEMMA RNextAnnounced ==
    ASSUME SETTLED_AFTER \in Nat, RIInv, [Asking!RNext]_(Asking!rvars)
    PROVE  RIInv'
<1> USE DEF RIInv, Asking!RequestIsAnnounced, Asking!Requesters, Asking!Ages,
            Asking!is_announcing, Asking!None, Asking!Down
<1>1. CASE UNCHANGED Asking!rvars
  BY <1>1 DEF Asking!rvars
<1>2. CASE Asking!PollAction
  BY <1>2 DEF Asking!PollAction
<1>3. ASSUME NEW c \in Connections, Asking!Connect(c)
      PROVE  RIInv'
  BY <1>3 DEF Asking!Connect, Asking!on_connected
<1>4. ASSUME NEW c \in Connections, Asking!Disconnect(c)
      PROVE  RIInv'
  BY <1>4 DEF Asking!Disconnect, Asking!on_disconnected
<1>5. CASE Asking!HandleTimeout
  BY <1>5 DEF Asking!HandleTimeout, Asking!settle
<1>6. CASE Asking!Withdraw
  BY <1>6 DEF Asking!Withdraw, Asking!settle
<1>7. CASE Asking!RecordSettled
  BY <1>7 DEF Asking!RecordSettled
<1>8. CASE Asking!Restart
  BY <1>8 DEF Asking!Restart, Asking!new, Asking!settled
<1>9. CASE Asking!RTick
  <2>1. \A a \in Asking!Ages : Asking!Older(a) \in Asking!Ages /\ (Asking!Older(a) = -1 <=> a = -1)
    BY DEF Asking!Older
  <2>2. QED
    BY <1>9, <2>1 DEF Asking!RTick
<1>10. QED
  BY <1>1, <1>2, <1>3, <1>4, <1>5, <1>6, <1>7, <1>8, <1>9 DEF Asking!RNext

\* The request is on the air until it is withdrawn for good, the clock that settles it is
\* that of one connection that has held, and it does not come back after a restart.
\* (pairing.rs Requester)
THEOREM RequestStaysAnnounced ==
    ASSUME SETTLED_AFTER \in Nat
    PROVE  Asking!RSpec => []Asking!RequestIsAnnounced
<1>1. Asking!RInit => RIInv
  BY RInitAnnounced
<1>2. RIInv /\ [Asking!RNext]_(Asking!rvars) => RIInv'
  BY RNextAnnounced
<1>3. RIInv => Asking!RequestIsAnnounced
  BY DEF RIInv
<1>4. QED
  BY <1>1, <1>2, <1>3, PTL DEF Asking!RSpec

=============================================================================
