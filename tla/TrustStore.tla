----------------------------- MODULE TrustStore -----------------------------
(* Whom a node trusts and how that changes: the trust store (node.rs), its  *)
(* levels (ship/trust.rs), the pairing service (ship/pairing.rs and the     *)
(* hub's evaluate_pairing), and certificate renewal (ship/keys.rs and the   *)
(* hub's follow_key_material). A restart brings back what was last saved.   *)
(*                                                                          *)
(* A certificate is named by its SKI, also where the code compares its      *)
(* fingerprint. One curve is the one TLS negotiates; Spare is another.      *)
EXTENDS Integers, Sequences, SequencesExt

CONSTANTS
    Nodes,               \* the peer devices
    Keys,                \* Keys[z]: the SKIs device z goes through, in order
    Spare,               \* the SKI a device adds for another curve
    Requests,            \* digest -> what the announced pairing request carries
    Self,                \* this node's own certificate
    GuardCapacity,       \* digests the replay guard remembers
    REPLACEABLE_AFTER,   \* ticks a pairing is protected after its last use
    Scenarios            \* [what, nodes]: the operations and devices of a behaviour

VARIABLES
    scene,     \* the scenario, fixed
    store,     \* [peers, unit]: TrustStore
    peerKeys,  \* ski -> PeerKeys
    guard,     \* ReplayGuard: digests accepted, oldest first
    saved,     \* what the application wrote to disk last
    own,       \* device -> its OwnKeys
    shaking,   \* SKIs whose handshake has passed hello
    links,     \* SKIs with a connection
    last,      \* ticks since last_exchange
    silence,   \* ticks since the paired unit was heard from, or paired
    forgotten  \* SKIs a user or a pairing took out of the store

tvars == <<scene, store, peerKeys, guard, saved, own, shaking, links, last, silence,
           forgotten>>

None == "none"
Skis == (UNION {Range(Keys[z]) : z \in Nodes}) \cup {Spare}
Owner(ski) == CHOOSE z \in Nodes : ski \in Range(Keys[z])

-----------------------------------------------------------------------------
(* Levels.                                                                   *)

MIN_USER_TRUST == 8
COMMISSIONING_TRUST == 32
SECOND_FACTOR_PIN_FIRST == 32
SECOND_FACTOR_PIN_LATER == 16
Level(user, second) == [user |-> user, second |-> second]
UNTRUSTED == Level(0, 0)
AUTO_ACCEPT == Level(8, 0)
USER_VERIFIED == Level(32, 0)
Larger(a, b) == IF a > b THEN a ELSE b
Merged(a, b) == Level(Larger(a.user, b.user), Larger(a.second, b.second))
PermitsCommunication(l) == l.user >= MIN_USER_TRUST
PermitsPinTransmission(l) == l.user >= COMMISSIONING_TRUST
PermitsShipCommissioning(l) ==
    l.user >= COMMISSIONING_TRUST \/ l.second >= COMMISSIONING_TRUST

-----------------------------------------------------------------------------
(* The store.                                                                *)

NewStore == [peers |-> [s \in Skis |-> UNTRUSTED], unit |-> [fp |-> None, ski |-> None]]
NoUnit == [fp |-> None, ski |-> None]

IsTrusted(st, ski) == st.peers[ski] # UNTRUSTED
Remembered(st, ski, level) == [st EXCEPT !.peers[ski] = level]
Trusted(st, ski) == Remembered(st, ski, USER_VERIFIED)
Without(st, ski) ==
    IF ski = None THEN st ELSE [st EXCEPT !.peers[ski] = UNTRUSTED]

TrustUnit(st, unit) ==
    LET cleared == Without([st EXCEPT !.unit = unit], st.unit.ski)
    IN  IF unit.ski = None THEN cleared ELSE Trusted(cleared, unit.ski)

ForgetUnitIn(st) == Without([st EXCEPT !.unit = NoUnit], st.unit.ski)

ForgetIn(st, ski) ==
    LET rest == Without(st, ski)
    IN  IF st.unit.ski = ski THEN [rest EXCEPT !.unit = NoUnit] ELSE rest

IsCertificateTrusted(st, ski) == st.unit.fp = ski

ObserveUnitSki(st, ski) ==
    IF st.unit.fp # ski \/ st.unit.ski = ski THEN st
    ELSE Trusted(Without([st EXCEPT !.unit.ski = ski], st.unit.ski), ski)

\* A slip: only the peer's own record is asked.
PinFirstTakenByIt(st, ski) == st.peers[ski].second >= SECOND_FACTOR_PIN_FIRST

PinFirstTaken(st, ski) ==
    \E s \in Skis : st.peers[s].second >= SECOND_FACTOR_PIN_FIRST

AwardPinTrust(st, ski) ==
    LET won == IF PinFirstTaken(st, ski) THEN SECOND_FACTOR_PIN_LATER
               ELSE SECOND_FACTOR_PIN_FIRST
    IN  IF ~IsTrusted(st, ski) THEN st
        ELSE Remembered(st, ski, Merged(st.peers[ski], Level(0, won)))

(* from_json: the peers as written, then the unit, whose own record is      *)
(* rebuilt from nothing.                                                    *)
FromJson(st) ==
    LET peers == [st EXCEPT !.unit = NoUnit]
    IN  IF st.unit.fp = None THEN peers ELSE TrustUnit(peers, st.unit)

-----------------------------------------------------------------------------
(* A device's own keys, and what a peer records of them.                    *)

NewKeys(ski) == [counter |-> 1,
                 entries |-> {[state |-> "Current", curve |-> "tls", ski |-> ski]}]
EntriesIn(keys, state) == {e \in keys.entries : e.state = state}
UpdateInProgress(keys) == EntriesIn(keys, "Successor") # {}
CurrentFor(keys, curve) ==
    {e.ski : e \in {x \in EntriesIn(keys, "Current") : x.curve = curve}}
Bump(keys, entries) == [counter |-> keys.counter + 1, entries |-> entries]

NoRecord == [counter |-> 0, trusted |-> {}]

(* PeerKeys::apply, for the negotiated curve: what is trusted now.          *)
Announced(message) ==
    {e.ski : e \in {x \in message.entries :
                      x.curve = "tls" /\ x.state \in {"Current", "Successor"}}}

ApplyKeys(record, message) ==
    [counter |-> message.counter, trusted |-> Announced(message)]
\* A slip: the record is replaced before it is compared.
NewlyTrustedAfter(record, message) ==
    Announced(message) \ ApplyKeys(record, message).trusted

NewlyTrusted(record, message) == Announced(message) \ record.trusted
NoLongerTrusted(record, message) == record.trusted \ Announced(message)

FollowedIn(st, trust, untrust, ski) ==
    [peers |-> [s \in Skis |->
                  IF s \in untrust \ {ski} THEN UNTRUSTED
                  ELSE IF s \in trust THEN USER_VERIFIED ELSE st.peers[s]],
     unit |-> IF st.unit.ski \in untrust \ {ski} THEN NoUnit ELSE st.unit]

-----------------------------------------------------------------------------
Image == [store |-> store, keys |-> peerKeys, guard |-> guard, forgotten |-> forgotten]

TInit ==
    /\ scene \in Scenarios
    /\ store = NewStore
    /\ peerKeys = [s \in Skis |-> NoRecord]
    /\ guard = <<>>
    /\ saved = [store |-> NewStore, keys |-> [s \in Skis |-> NoRecord], guard |-> <<>>,
                forgotten |-> {}]
    /\ own = [z \in Nodes |-> NewKeys(Keys[z][1])]
    /\ shaking = {} /\ links = {}
    /\ last = 0 /\ silence = 0
    /\ forgotten = {}

(* A user approves what a device presents; auto-accept gives it less.       *)
ApproveAt(z, level) ==
    \E ski \in CurrentFor(own[z], "tls") :
      /\ store.peers[ski] # level
      /\ store' = Remembered(store, ski, level)
      /\ forgotten' = forgotten \ {ski}
      /\ UNCHANGED <<scene, peerKeys, guard, saved, own, shaking, links, last, silence>>

ForgetSki(ski) ==
    /\ IsTrusted(store, ski)
    /\ store' = ForgetIn(store, ski)
    /\ forgotten' = forgotten \cup {ski}
    /\ UNCHANGED <<scene, peerKeys, guard, saved, own, shaking, links, last, silence>>

ForgetUnit ==
    /\ store.unit # NoUnit
    /\ store' = ForgetUnitIn(store)
    /\ forgotten' = forgotten \cup ({store.unit.ski} \ {None})
    /\ UNCHANGED <<scene, peerKeys, guard, saved, own, shaking, links, last, silence>>

(* eebus_reset: every peer and the unit.                                    *)
ForgetAll ==
    /\ store # NewStore
    /\ store' = NewStore
    /\ forgotten' = forgotten \cup {s \in Skis : IsTrusted(store, s)}
    /\ UNCHANGED <<scene, peerKeys, guard, saved, own, shaking, links, last, silence>>

PinVerified(ski) ==
    /\ ski \in shaking
    /\ store' = AwardPinTrust(store, ski)
    /\ UNCHANGED <<scene, peerKeys, guard, saved, own, shaking, links, last, silence,
                   forgotten>>

-----------------------------------------------------------------------------
(* Connections. The trust decision comes when hello is passed, the link     *)
(* when the handshake has run to its end.                                   *)

Connects(z) ==
    \E ski \in CurrentFor(own[z], "tls") :
      /\ ski \notin shaking
      /\ IsTrusted(store, ski) \/ IsCertificateTrusted(store, ski)
      /\ store' = IF IsTrusted(store, ski) THEN store ELSE ObserveUnitSki(store, ski)
      /\ shaking' = shaking \cup {ski}
      /\ UNCHANGED <<scene, peerKeys, guard, saved, own, links, last, silence,
                     forgotten>>

\* A slip: only the pairing itself starts the clock.
ExchangedUnnoted(ski) == last' = last

(* note_unit_exchange: only a message from the unit's certificate counts.   *)
Exchanged(ski) == last' = IF store.unit.fp = ski THEN 0 ELSE last
HeardFrom(ski) == silence' = IF store.unit.fp = ski THEN 0 ELSE silence

Adopted(ski) ==
    /\ ski \in shaking
    /\ shaking' = shaking \ {ski}
    /\ links' = links \cup {ski}
    /\ Exchanged(ski) /\ HeardFrom(ski)
    /\ UNCHANGED <<scene, store, peerKeys, guard, saved, own, forgotten>>

MessageReceived(ski) ==
    /\ ski \in links
    /\ Exchanged(ski) /\ HeardFrom(ski)
    /\ UNCHANGED <<scene, store, peerKeys, guard, saved, own, shaking, links, forgotten>>

Disconnected(ski) ==
    /\ ski \in links
    /\ links' = links \ {ski}
    /\ UNCHANGED <<scene, store, peerKeys, guard, saved, own, shaking, last, silence,
                   forgotten>>

-----------------------------------------------------------------------------
(* A pairing request, as far as its evaluation tells one from another: is   *)
(* it addressed to this node's SHIP id and certificate, is every field well *)
(* formed, was the digest made with this node's secret, and the certificate *)
(* it asks to trust.                                                        *)

Accepting == store.unit = NoUnit \/ last >= REPLACEABLE_AFTER
Replayed(digest) == digest \in Range(guard)
GuardAccept(digest) ==
    LET longer == Append(guard, digest)
    IN  IF Len(longer) > GuardCapacity THEN Tail(longer) ELSE longer

FromPairs(request) == request.wellFormed

Verify(digest, request) ==
    IF Replayed(digest) THEN "Replay"
    ELSE IF ~request.authentic THEN "DigestMismatch" ELSE "ok"

Evaluate(digest) ==
    LET request == Requests[digest]
    IN  IF ~request.forId THEN "NotForThisNode"
        ELSE IF ~FromPairs(request) THEN "InvalidField"
        ELSE IF ~request.forPar THEN "NotForThisNode"
        ELSE Verify(digest, request)

EvaluatePairing(digest) ==
    /\ Accepting /\ Evaluate(digest) = "ok"
    /\ guard' = GuardAccept(digest)
    /\ LET unit == [fp |-> Requests[digest].trustPar, ski |-> None]
           displaced == IF store.unit.fp = unit.fp THEN None ELSE store.unit.ski
       IN  IF unit.fp = Self
           THEN UNCHANGED <<store, links, forgotten, last, silence>>
           ELSE /\ store' = TrustUnit(store, unit)
                /\ links' = links \ {displaced}
                /\ forgotten' = forgotten \cup ({store.unit.ski} \ {None})
                /\ last' = 0 /\ silence' = 0
    /\ UNCHANGED <<scene, peerKeys, saved, own, shaking>>

-----------------------------------------------------------------------------
(* Renewal: a device announces a successor, then switches to it.            *)

BeginUpdate(z) ==
    /\ ~UpdateInProgress(own[z])
    /\ \E i \in 2 .. Len(Keys[z]) :
         /\ Keys[z][i - 1] \in CurrentFor(own[z], "tls")
         /\ own' = [own EXCEPT ![z] = Bump(own[z], own[z].entries \cup
                      {[state |-> "Successor", curve |-> "tls", ski |-> Keys[z][i]]})]
    /\ UNCHANGED <<scene, store, peerKeys, guard, saved, shaking, links, last, silence,
                   forgotten>>

Promoted(e) ==
    IF e.curve # "tls" THEN e
    ELSE [e EXCEPT !.state = IF @ = "Current" THEN "Predecessor"
                             ELSE IF @ = "Successor" THEN "Current" ELSE @]

CompleteUpdate(z) ==
    /\ UpdateInProgress(own[z])
    /\ own' = [own EXCEPT ![z] = Bump(own[z],
                 {Promoted(e) : e \in {x \in own[z].entries :
                                        x.curve # "tls" \/ x.state # "Predecessor"}})]
    /\ UNCHANGED <<scene, store, peerKeys, guard, saved, shaking, links, last, silence,
                   forgotten>>

AddCurve(z) ==
    /\ CurrentFor(own[z], "spare") = {} /\ own[z].counter <= Len(Keys[z])
    /\ own' = [own EXCEPT ![z] = Bump(own[z], own[z].entries \cup
                 {[state |-> "Current", curve |-> "spare", ski |-> Spare]})]
    /\ UNCHANGED <<scene, store, peerKeys, guard, saved, shaking, links, last, silence,
                   forgotten>>

DropCurve(z) ==
    /\ \E e \in own[z].entries : e.curve = "spare"
    /\ own[z].counter <= Len(Keys[z])
    /\ own' = [own EXCEPT ![z] = Bump(own[z], {e \in own[z].entries : e.curve # "spare"})]
    /\ UNCHANGED <<scene, store, peerKeys, guard, saved, shaking, links, last, silence,
                   forgotten>>

(* The keyMaterialState of the device behind a link, taken up by the hub    *)
(* under the SKI the connection runs on.                                    *)
FollowKeyMaterial(ski) ==
    /\ ski \in links
    /\ LET message == own[Owner(ski)]
           record == peerKeys[ski]
           trust == NewlyTrusted(record, message)
           untrust == NoLongerTrusted(record, message)
       IN  /\ message.counter >= record.counter
           /\ peerKeys' = [peerKeys EXCEPT ![ski] = ApplyKeys(record, message)]
           /\ store' = FollowedIn(store, trust, untrust, ski)
           /\ forgotten' = forgotten \ trust
    /\ UNCHANGED <<scene, guard, saved, own, shaking, links, last, silence>>

-----------------------------------------------------------------------------
(* The application writes to_json, peer_keys and the guard's entries; a     *)
(* restart reads them back, and the pairing's clock starts again.           *)
Save ==
    /\ saved' = Image
    /\ UNCHANGED <<scene, store, peerKeys, guard, own, shaking, links, last, silence,
                   forgotten>>

Restart ==
    /\ store' = FromJson(saved.store)
    /\ peerKeys' = saved.keys
    /\ guard' = saved.guard
    /\ shaking' = {} /\ links' = {}
    /\ last' = 0 /\ silence' = 0
    /\ forgotten' = saved.forgotten
    /\ UNCHANGED <<scene, saved, own>>

TTick ==
    /\ last < REPLACEABLE_AFTER \/ silence < REPLACEABLE_AFTER
    /\ last' = IF last < REPLACEABLE_AFTER THEN last + 1 ELSE last
    /\ silence' = IF silence < REPLACEABLE_AFTER THEN silence + 1 ELSE silence
    /\ UNCHANGED <<scene, store, peerKeys, guard, saved, own, shaking, links, forgotten>>

May(kind) == kind \in scene.what

TNext ==
    \/ \E z \in scene.nodes :
         \/ ApproveAt(z, USER_VERIFIED) \/ Connects(z)
         \/ May("pin") /\ ApproveAt(z, AUTO_ACCEPT)
         \/ May("renew") /\ (BeginUpdate(z) \/ CompleteUpdate(z))
         \/ May("curve") /\ (AddCurve(z) \/ DropCurve(z))
    \/ \E ski \in Skis \ {Spare} :
         \/ Adopted(ski) \/ Disconnected(ski)
         \/ May("pin") /\ PinVerified(ski)
         \/ May("forget") /\ ForgetSki(ski)
         \/ May("pair") /\ MessageReceived(ski)
         \/ May("follow") /\ FollowKeyMaterial(ski)
    \/ May("pair") /\ (ForgetUnit \/ TTick \/ \E d \in DOMAIN Requests : EvaluatePairing(d))
    \/ May("forget") /\ ForgetAll
    \/ May("crash") /\ (Save \/ Restart)

TSpec == TInit /\ [][TNext]_tvars

-----------------------------------------------------------------------------
(* Records hold levels of Table 10; a unit that has shown its certificate   *)
(* is in the SKI half of the store too.                                     *)
TrustTypeOK ==
    /\ store.peers \in [Skis -> [user : {0, 8, 32}, second : {0, 16, 32}]]
    /\ store.unit \in [fp : Skis \cup {None}, ski : Skis \cup {None}]
    /\ Len(guard) <= GuardCapacity
    /\ links \cup shaking \subseteq Skis
    /\ \A s \in Skis : peerKeys[s].trusted \subseteq Skis

(* "It is not possible that two SHIP nodes hold a second factor of 32": of  *)
(* the peers in the store, one at most has it, over renewals, displaced     *)
(* units and restarts. (award_pin_trust, remember, from_json)               *)
OneCommissioningTool ==
    \A s, t \in Skis :
        store.peers[s].second >= SECOND_FACTOR_PIN_FIRST /\
        store.peers[t].second >= SECOND_FACTOR_PIN_FIRST => s = t

(* A control unit that was heard from within the last REPLACEABLE_AFTER is  *)
(* not displaced by another unit's request. (accepting, note_unit_exchange) *)
UnitIsKept ==
    \A d \in DOMAIN Requests :
        EvaluatePairing(d) /\ store.unit # NoUnit /\ store'.unit # store.unit =>
            silence >= REPLACEABLE_AFTER

(* Trust follows a renewal: on a connection whose latest announcement has   *)
(* been taken up, the keys the device uses now or next are trusted, unless  *)
(* somebody took them out. (apply, follow_key_material, restore_peer_keys)  *)
RenewalIsFollowed ==
    \A ski \in links :
      peerKeys[ski].counter = own[Owner(ski)].counter =>
        \A s \in Announced(own[Owner(ski)]) : IsTrusted(store, s) \/ s \in forgotten

=============================================================================
