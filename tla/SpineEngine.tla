----------------------------- MODULE SpineEngine -----------------------------
(***************************************************************************)
(* The SPINE engine of src/src/spine/engine.rs with its relation tables    *)
(* (relations.rs) and message counters (counter.rs): the requests a device *)
(* sends and retries, the writes it puts to its application, the bindings  *)
(* and subscriptions it grants and holds, and the peers it has heard of.   *)
(*                                                                         *)
(* The engine is one struct that runs one call at a time.  Its environment *)
(* is the application (Request, Accept, Reject, RemoveEntity, ...), the    *)
(* peers, which may send any datagram in any order and more than once, the *)
(* connections that come and go (RemovePeer) and the clock.                *)
(*                                                                         *)
(* Replies, results and notifications leave through the outbox and are     *)
(* not seen again, so no state is kept for them; requests are in pending.  *)
(* Instants are kept as the time left until them.  Entries of a table are  *)
(* ordered by their names (msgCounter, token), which only ever grow.       *)
(***************************************************************************)
EXTENDS Integers, Sequences, FiniteSets

CONSTANTS
    Devices,               \* the devices that may be heard of
    Clients,               \* their client features: [device, entity, feature]
    Servers,               \* this device's server features
    Group,                 \* bind_together: the ones that share a partner
    Bound,                 \* the ones that take writes from bound clients only
    Approved,              \* the ones whose writes the application decides
    RETRY_SCHEDULE,        \* the delays before each retry
    MAX_PENDING_REQUESTS, MAX_PEERS, MAX_DEFERRED_WRITES,
    MAX_RELATIONS_PER_PEER,
    WINDOW, RESTART_THRESHOLD,
    ResponseDelay,         \* how long an answer is waited for
    DecisionWindow,        \* how long a peer waits for the application
    Counters,              \* the msgCounters peers use
    RequestKinds,          \* the requests the application makes
    Budgets                \* bounds: how much of each Kind may happen

\* Requests of the application, answers, calls and writes of peers, and
\* disconnections or changes of the entity.
Kinds == {"requests", "answers", "calls", "writes", "upheavals"}

None == 0
NoDevice == "NoDevice"
Nobody == [device |-> NoDevice, entity |-> 0, feature |-> 0]
NodeManagement == "NodeManagement"

ASSUME EngineAssumption ==
    /\ NoDevice \notin Devices /\ Nobody \notin Clients
    /\ \A c \in Clients : c.device \in Devices
    /\ Group \subseteq Servers /\ Bound \subseteq Servers /\ Approved \subseteq Servers
    /\ NodeManagement \notin Servers
    /\ RETRY_SCHEDULE \in Seq(Nat \ {0})
    /\ Counters \subseteq Nat \ {0}
    /\ RequestKinds \subseteq {"read", "write", "bind", "subscribe"}

ASSUME LimitsAssumption ==
    /\ MAX_PENDING_REQUESTS \in Nat \ {0} /\ MAX_PEERS \in Nat \ {0}
    /\ MAX_DEFERRED_WRITES \in Nat /\ MAX_RELATIONS_PER_PEER \in Nat \ {0}
    /\ WINDOW \in Nat \ {0} /\ RESTART_THRESHOLD \in Nat /\ RESTART_THRESHOLD > WINDOW
    /\ ResponseDelay \in Nat \ {0} /\ DecisionWindow \in Nat \ {0}
    /\ Budgets \subseteq [Kinds -> Nat]

VARIABLES
    peers,         \* the devices with a Peer record, oldest first
    discovered,    \* the ones whose record holds entities or use cases
    tracker,       \* their MsgCounterTracker
    pending,       \* requests that wait for an answer or for their retry
    deferred,      \* writes that wait for the application
    bindings,      \* granted: <<client, server>>
    subscriptions, \* granted
    held,          \* granted by a peer to this device's entity: [device, kind]
    present,       \* the server features whose entity exists
    owner,         \* who wrote what each server feature holds
    counter,       \* the next msgCounter (only requests' are told apart)
    next_token,
    answered, timedOut, forgotten, \* how requests ended
    processed,     \* the counters accepted of each peer since its record began
    budget         \* what may still happen

tables == <<peers, discovered, tracker, pending, deferred, bindings,
            subscriptions, held>>
ends == <<answered, timedOut, forgotten>>
vars == <<tables, present, owner, counter, next_token, ends, processed, budget>>

Spend(kind) == budget[kind] > 0 /\ budget' = [budget EXCEPT ![kind] = @ - 1]

Recorded == {peers[i] : i \in 1 .. Len(peers)}

(***************************************************************************)
(* MsgCounterTracker.  seen holds how far behind last a counter already    *)
(* processed is: bit i - 1 of the code's word is i here.                   *)
(***************************************************************************)
NewTracker == [last |-> None, seen |-> {}]

\* Mutant: the newest counter is not entered into the window it leaves.
ShiftedEmpty(seen, ahead) ==
    IF ahead < WINDOW THEN {i + ahead : i \in {j \in seen : j + ahead <= WINDOW}}
    ELSE {}

\* The window after last has moved ahead, the old last included.
Shifted(seen, ahead) ==
    IF ahead < WINDOW
    THEN {i + ahead : i \in {j \in seen : j + ahead <= WINDOW}} \cup {ahead}
    ELSE {}

Restarts(t, n) == t.last # None /\ t.last - n >= RESTART_THRESHOLD

\* is_acceptable: anything but a duplicate.
Acceptable(t, n) ==
    \/ t.last = None
    \/ n > t.last
    \/ Restarts(t, n)
    \/ t.last - n \in 1 .. WINDOW /\ t.last - n \notin t.seen

\* observe, of an acceptable counter.
Observe(t, n) ==
    IF t.last = None \/ Restarts(t, n) THEN [last |-> n, seen |-> {}]
    ELSE IF n > t.last THEN [last |-> n, seen |-> Shifted(t.seen, n - t.last)]
    ELSE [t EXCEPT !.seen = @ \cup {t.last - n}]

(***************************************************************************)
(* Peer records.  peer_entry makes room by forgetting the peer that has    *)
(* told least; remove_peer takes everything that was filed under it.       *)
(***************************************************************************)
\* The peer that goes: the first that never completed discovery, or the first.
Victim ==
    LET unknown == {i \in 1 .. Len(peers) : peers[i] \notin discovered}
    IN  IF unknown = {} THEN 1
        ELSE CHOOSE i \in unknown : \A j \in unknown : i <= j

\* Mutant: the evicted record goes and what is filed under it stays.
EvictedRecordOnly(d) == {}

\* The devices remove_peer is called for when a datagram of d is filed.
Evicted(d) ==
    IF d \in Recorded \/ Len(peers) < MAX_PEERS THEN {} ELSE {peers[Victim]}

Without(s, i) ==
    [j \in 1 .. Len(s) - 1 |-> IF j < i THEN s[j] ELSE s[j + 1]]

\* peers after peer_entry(d).
Entered(d) ==
    IF d \in Recorded THEN peers
    ELSE Append(IF Len(peers) < MAX_PEERS THEN peers ELSE Without(peers, Victim), d)

\* What remove_peer leaves of each table.
Staying(gone) == {r \in pending : r.dest \notin gone}
Waiting(gone) == {w \in deferred : w.client.device \notin gone}
BoundBut(gone) == {b \in bindings : b[1].device \notin gone}
SubscribedBut(gone) == {s \in subscriptions : s[1].device \notin gone}
HeldBut(gone) == {h \in held : h.device \notin gone}
Forgetting(f, gone, new) == [d \in Devices |-> IF d \in gone THEN new ELSE f[d]]
Names(rs) == {r.request : r \in rs}

(***************************************************************************)
(* Requests.                                                               *)
(***************************************************************************)
NewRequest(kind, dest) ==
    [request |-> counter, transmissions |-> {counter}, kind |-> kind,
     dest |-> dest, retries |-> 0, deadline |-> ResponseDelay,
     awaiting |-> "Answer"]

Oldest == {r \in pending : \A q \in pending : r.request <= q.request}

\* Mutant: there is always room.
OverflowNever == {}

\* send: the oldest request is given up to make room.
Overflow == IF Cardinality(pending) >= MAX_PENDING_REQUESTS THEN Oldest ELSE {}

\* The request resolve_pending matches with a reference in a datagram of d: at
\* most one, no counter is used twice.
Resolved(d, reference) ==
    {r \in pending : reference \in r.transmissions /\ r.dest \in {d, NoDevice}}

(***************************************************************************)
(* Relations.                                                              *)
(***************************************************************************)
SameEntity(a, b) == a.device = b.device /\ a.entity = b.entity

\* Mutant: every feature has a binding partner of its own.
GroupOfOne(s) == {s}

\* group_of: the features that share a binding partner with s.
GroupOf(s) == IF s \in Group THEN Group ELSE {s}

GrantedTo(rel, d) == Cardinality({r \in rel : r[1].device = d})

\* add_binding's conditions, for a binding that does not exist yet.
MayBind(bound, c, s) ==
    /\ \A b \in bound : b[2] \in GroupOf(s) => SameEntity(b[1], c)
    /\ GrantedTo(bound, c.device) < MAX_RELATIONS_PER_PEER

AddBinding(bound, c, s) ==
    IF <<c, s>> \in bound \/ ~MayBind(bound, c, s) THEN bound
    ELSE bound \cup {<<c, s>>}

AddSubscription(subs, c, s) ==
    IF GrantedTo(subs, c.device) >= MAX_RELATIONS_PER_PEER THEN subs
    ELSE subs \cup {<<c, s>>}

-----------------------------------------------------------------------------
Init ==
    /\ peers = <<>> /\ discovered = {}
    /\ tracker = [d \in Devices |-> NewTracker]
    /\ processed = [d \in Devices |-> {}]
    /\ pending = {} /\ deferred = {}
    /\ bindings = {} /\ subscriptions = {} /\ held = {}
    /\ present = Servers
    /\ owner = [s \in Servers |-> Nobody]
    /\ counter = 1 /\ next_token = 1
    /\ answered = {} /\ timedOut = {} /\ forgotten = {}
    /\ budget \in Budgets

(***************************************************************************)
(* handle_datagram.  Every datagram of d goes through Admit: a duplicate   *)
(* is dropped, and a device not yet recorded may cost another its record.  *)
(***************************************************************************)
Admit(d, n) ==
    /\ Acceptable(tracker[d], n)
    /\ peers' = Entered(d)
    /\ tracker' = [Forgetting(tracker, Evicted(d), NewTracker)
                      EXCEPT ![d] = Observe(tracker[d], n)]
    /\ processed' = [Forgetting(processed, Evicted(d), {})
                        EXCEPT ![d] = IF Restarts(tracker[d], n) THEN {n}
                                      ELSE @ \cup {n}]
    /\ UNCHANGED <<counter, present>>

\* The datagram concerns no request of ours.
NoAnswer(d) ==
    /\ pending' = Staying(Evicted(d))
    /\ forgotten' = forgotten \cup Names(pending \ Staying(Evicted(d)))
    /\ UNCHANGED <<answered, timedOut>>

NoDiscovery(d) == discovered' = discovered \ Evicted(d)
NoWrite(d) ==
    /\ deferred' = Waiting(Evicted(d))
    /\ UNCHANGED <<owner, next_token>>
NoBinding(d) == bindings' = BoundBut(Evicted(d))
NoSubscription(d) == subscriptions' = SubscribedBut(Evicted(d))
NoGrant(d) == held' = HeldBut(Evicted(d))

\* handle_read: whatever is answered, nothing is kept.
ReadArrives(d, n) ==
    /\ Spend("calls") /\ Admit(d, n)
    /\ NoAnswer(d) /\ NoDiscovery(d) /\ NoWrite(d)
    /\ NoBinding(d) /\ NoSubscription(d) /\ NoGrant(d)

\* handle_write, of a write the feature could store (check_write) or not.
WriteArrives(c, n, s, storable) ==
    LET d == c.device
        bound == <<c, s>> \in BoundBut(Evicted(d))
        serves == s \in present /\ (s \in Bound => bound) /\ storable
        waiting == Waiting(Evicted(d))
    IN  /\ Spend("writes") /\ Admit(d, n)
        /\ NoAnswer(d) /\ NoDiscovery(d)
        /\ NoBinding(d) /\ NoSubscription(d) /\ NoGrant(d)
        /\ \/ /\ serves /\ s \in Approved
              /\ Cardinality(waiting) < MAX_DEFERRED_WRITES
              /\ deferred' = waiting \cup
                   {[token |-> next_token, client |-> c, server |-> s,
                     reference |-> n, deadline |-> DecisionWindow]}
              /\ next_token' = next_token + 1
              /\ UNCHANGED owner
           \/ /\ serves /\ s \notin Approved
              /\ owner' = [owner EXCEPT ![s] = c]
              /\ deferred' = waiting
              /\ UNCHANGED next_token
           \/ \* BindingRequired, DestinationUnknown, Overload, ...
              /\ ~serves \/ (s \in Approved /\ Cardinality(waiting) >= MAX_DEFERRED_WRITES)
              /\ NoWrite(d)

\* handle_call.  client_of_caller turns down a client on another device.
BindingCalled(d, n, c, s) ==
    /\ Spend("calls") /\ Admit(d, n)
    /\ NoAnswer(d) /\ NoDiscovery(d) /\ NoWrite(d) /\ NoSubscription(d) /\ NoGrant(d)
    /\ bindings' = IF c.device = d /\ s \in present
                   THEN AddBinding(BoundBut(Evicted(d)), c, s)
                   ELSE BoundBut(Evicted(d))

BindingReleased(d, n, c, s) ==
    /\ Spend("calls") /\ Admit(d, n)
    /\ NoAnswer(d) /\ NoDiscovery(d) /\ NoWrite(d) /\ NoSubscription(d) /\ NoGrant(d)
    /\ bindings' = BoundBut(Evicted(d))
                     \ (IF c.device = d THEN {<<c, s>>} ELSE {})

SubscriptionCalled(d, n, c, s) ==
    /\ Spend("calls") /\ Admit(d, n)
    /\ NoAnswer(d) /\ NoDiscovery(d) /\ NoWrite(d) /\ NoBinding(d) /\ NoGrant(d)
    /\ subscriptions' = IF c.device = d /\ s \in present \cup {NodeManagement}
                        THEN AddSubscription(SubscribedBut(Evicted(d)), c, s)
                        ELSE SubscribedBut(Evicted(d))

SubscriptionReleased(d, n, c, s) ==
    /\ Spend("calls") /\ Admit(d, n)
    /\ NoAnswer(d) /\ NoDiscovery(d) /\ NoWrite(d) /\ NoBinding(d) /\ NoGrant(d)
    /\ subscriptions' = SubscribedBut(Evicted(d))
                          \ (IF c.device = d THEN {<<c, s>>} ELSE {})

\* Mutant: the request an answer belongs to is looked up and not taken out.
AnswersKept(d, reference) ==
    /\ pending' = Staying(Evicted(d))
    /\ answered' = answered \cup Names(Resolved(d, reference))
    /\ forgotten' = forgotten \cup Names(pending \ Staying(Evicted(d)))
    /\ UNCHANGED timedOut

\* resolve_pending, for a datagram that refers to a request of ours.
Answers(d, reference) ==
    /\ pending' = Staying(Evicted(d)) \ Resolved(d, reference)
    /\ answered' = answered \cup Names(Resolved(d, reference))
    /\ forgotten' = forgotten \cup Names(pending \ Staying(Evicted(d)))
    /\ UNCHANGED timedOut

\* A reply or a notification.  Its data may be discovery or use cases, whole or
\* partial, after which the record of d holds some of either or none (told).
DataArrives(d, n, reference, told) ==
    /\ Spend("answers") /\ Admit(d, n)
    /\ Answers(d, reference)
    /\ discovered' = IF told THEN (discovered \ Evicted(d)) \cup {d}
                     ELSE discovered \ (Evicted(d) \cup {d})
    /\ NoWrite(d) /\ NoBinding(d) /\ NoSubscription(d) /\ NoGrant(d)

\* handle_result: what was asked for is recorded once the peer grants it.
ResultArrives(d, n, reference, success) ==
    LET granted == {r \in Resolved(d, reference) : r.kind \in {"bind", "subscribe"}}
    IN  /\ Spend("answers") /\ Admit(d, n)
        /\ Answers(d, reference)
        /\ held' = HeldBut(Evicted(d)) \cup
             {[device |-> r.dest, kind |-> r.kind] : r \in {x \in granted : success}}
        /\ NoDiscovery(d) /\ NoWrite(d) /\ NoBinding(d) /\ NoSubscription(d)

(***************************************************************************)
(* The application.                                                        *)
(***************************************************************************)
\* read, write, request_binding, request_subscription, start_discovery (NoDevice).
Request(kind, dest) ==
    /\ Spend("requests")
    /\ dest = NoDevice => kind = "read"
    /\ pending' = (pending \ Overflow) \cup {NewRequest(kind, dest)}
    /\ timedOut' = timedOut \cup Names(Overflow)
    /\ counter' = counter + 1
    /\ UNCHANGED <<peers, discovered, tracker, processed, deferred, bindings,
                   subscriptions, held, present, owner, next_token, answered,
                   forgotten>>

\* accept_write, stored or not: the write has had its answer.
Accept(w, stored) ==
    /\ deferred' = deferred \ {w}
    /\ owner' = IF stored /\ w.server \in present
                THEN [owner EXCEPT ![w.server] = w.client] ELSE owner
    /\ UNCHANGED <<peers, discovered, tracker, processed, pending, bindings,
                   subscriptions, held, present, counter, next_token, ends, budget>>

\* reject_write.
Reject(w) ==
    /\ deferred' = deferred \ {w}
    /\ UNCHANGED <<peers, discovered, tracker, processed, pending, bindings,
                   subscriptions, held, present, owner, counter, next_token,
                   ends, budget>>

\* remove_peer, when the hub drops the connection.
RemovePeer(d) ==
    /\ Spend("upheavals")
    /\ peers' = IF d \in Recorded
                THEN Without(peers, CHOOSE i \in 1 .. Len(peers) : peers[i] = d)
                ELSE peers
    /\ tracker' = Forgetting(tracker, {d}, NewTracker)
    /\ processed' = Forgetting(processed, {d}, {})
    /\ discovered' = discovered \ {d}
    /\ pending' = Staying({d})
    /\ forgotten' = forgotten \cup Names(pending \ Staying({d}))
    /\ deferred' = Waiting({d})
    /\ bindings' = BoundBut({d})
    /\ subscriptions' = SubscribedBut({d})
    /\ held' = HeldBut({d})
    /\ UNCHANGED <<present, owner, counter, next_token, answered, timedOut>>

\* remove_entity, of the entity with the server features, and add_entity.
RemoveEntity ==
    /\ Spend("upheavals")
    /\ present # {}
    /\ present' = {}
    /\ bindings' = {} /\ held' = {}
    /\ subscriptions' = {x \in subscriptions : x[2] = NodeManagement}
    /\ UNCHANGED <<peers, discovered, tracker, processed, pending, deferred,
                   owner, counter, next_token, ends>>

AddEntity ==
    /\ Spend("upheavals")
    /\ present = {}
    /\ present' = Servers
    /\ owner' = [s \in Servers |-> Nobody]
    /\ UNCHANGED <<tables, processed, counter, next_token, ends>>

(***************************************************************************)
(* Time.                                                                   *)
(***************************************************************************)
RequestDeadlines == {r.deadline : r \in pending}
WriteDeadlines == {w.deadline : w \in deferred}

\* poll_timeout.  Either half alone is a mutant: a device that only asks, or
\* only serves, would never be woken.
Deadlines == RequestDeadlines \cup WriteDeadlines

Due == {r \in pending : r.deadline = 0}
Retrying == {r \in Due : r.awaiting = "Retry"}
Abandoned == {r \in Due : r.awaiting = "Answer" /\ r.retries = Len(RETRY_SCHEDULE)}

\* The same request goes out again under a counter of its own.
Retried(r) ==
    LET n == counter + Cardinality({q \in Retrying : q.request < r.request})
    IN  [r EXCEPT !.retries = @ + 1, !.transmissions = @ \cup {n},
                  !.awaiting = "Answer", !.deadline = ResponseDelay]

\* The peer did not answer: the retry waits for its turn.
Delayed(r) ==
    [r EXCEPT !.awaiting = "Retry", !.deadline = RETRY_SCHEDULE[r.retries + 1]]

Served(r) ==
    IF r \notin Due THEN r ELSE IF r \in Retrying THEN Retried(r) ELSE Delayed(r)

HandleTimeout ==
    /\ 0 \in Deadlines
    /\ pending' = {Served(r) : r \in pending \ Abandoned}
    /\ timedOut' = timedOut \cup Names(Abandoned)
    /\ counter' = counter + Cardinality(Retrying)
    /\ deferred' = {w \in deferred : w.deadline > 0}
    /\ UNCHANGED <<peers, discovered, tracker, processed, bindings, subscriptions,
                   held, present, owner, next_token, answered, forgotten, budget>>

Tick ==
    /\ Deadlines # {} /\ 0 \notin Deadlines
    /\ pending' = {[r EXCEPT !.deadline = @ - 1] : r \in pending}
    /\ deferred' = {[w EXCEPT !.deadline = @ - 1] : w \in deferred}
    /\ UNCHANGED <<peers, discovered, tracker, processed, bindings, subscriptions,
                   held, present, owner, counter, next_token, ends, budget>>

References == 0 .. counter - 1

Next ==
    \/ \E d \in Devices, n \in Counters :
         \/ ReadArrives(d, n)
         \/ \E c \in Clients, s \in Servers \cup {NodeManagement} :
              \/ BindingCalled(d, n, c, s) \/ BindingReleased(d, n, c, s)
              \/ SubscriptionCalled(d, n, c, s) \/ SubscriptionReleased(d, n, c, s)
         \/ \E r \in References, b \in BOOLEAN :
              DataArrives(d, n, r, b) \/ ResultArrives(d, n, r, b)
    \/ \E c \in Clients, n \in Counters, s \in Servers, b \in BOOLEAN :
         WriteArrives(c, n, s, b)
    \/ \E kind \in RequestKinds, d \in Devices \cup {NoDevice} : Request(kind, d)
    \/ \E w \in deferred : Reject(w) \/ \E b \in BOOLEAN : Accept(w, b)
    \/ \E d \in Devices : RemovePeer(d)
    \/ RemoveEntity \/ AddEntity
    \/ HandleTimeout \/ Tick

Spec == Init /\ [][Next]_vars

\* The hub sleeps until poll_timeout and then calls handle_timeout.
FairSpec == Spec /\ WF_vars(HandleTimeout) /\ WF_vars(Tick)

-----------------------------------------------------------------------------
(***************************************************************************)
(* Properties.                                                             *)
(***************************************************************************)
Pending ==
    [request : Nat \ {0}, transmissions : SUBSET (Nat \ {0}),
     kind : RequestKinds,
     dest : Devices \cup {NoDevice}, retries : 0 .. Len(RETRY_SCHEDULE),
     deadline : Nat, awaiting : {"Answer", "Retry"}]

DeferredWrite ==
    [token : Nat \ {0}, client : Clients, server : Approved,
     reference : Counters, deadline : 0 .. DecisionWindow]

\* The state has its types, and the tables a peer or an application could grow
\* stay within their limits.
TypeOK ==
    /\ peers \in Seq(Devices) /\ Len(peers) <= MAX_PEERS
    /\ discovered \subseteq Recorded
    /\ tracker \in [Devices -> [last : Nat, seen : SUBSET (1 .. WINDOW)]]
    /\ pending \subseteq Pending
    /\ Cardinality(pending) <= MAX_PENDING_REQUESTS
    /\ deferred \subseteq DeferredWrite
    /\ Cardinality(deferred) <= MAX_DEFERRED_WRITES
    /\ bindings \subseteq Clients \X Servers
    /\ subscriptions \subseteq Clients \X (Servers \cup {NodeManagement})
    /\ present \in {{}, Servers}
    /\ owner \in [Servers -> Clients \cup {Nobody}]

\* Features of one use case have one controller: whoever asks for which of
\* them in which order, all granted bindings on the group are of one client
\* entity (LPC guide §3.5, bind_together).
OneController ==
    \A a, b \in bindings :
        a[2] \in Group /\ b[2] \in Group => SameEntity(a[1], b[1])

\* "An entry that outlives its peer record is an entry nothing can ever clean
\* up": whatever is filed under a peer goes with its record, also when it is
\* evicted for another, and no relation is granted on a feature that is gone
\* (peer_entry, remove_peer, remove_local_entity).
NothingOutlivesItsPeer ==
    /\ \A r \in bindings \cup subscriptions :
         r[1].device \in Recorded /\ r[2] \in present \cup {NodeManagement}
    /\ \A w \in deferred : w.client.device \in Recorded
    /\ \A h \in held : h.device \in Recorded

\* A counter that has been processed is not processed again while it is less
\* than the window behind the newest one, in whatever order datagrams arrive
\* (TC_SPINE_DATA_003, MsgCounterTracker::observe).
DuplicatesAreRefused ==
    \A d \in Devices : \A n \in processed[d] :
        tracker[d].last - n < WINDOW => ~Acceptable(tracker[d], n)

\* Every request ends at most once and in one way, whatever answers come late,
\* twice or from another peer, and no name is used again (resolve_pending,
\* handle_timeout, send, remove_peer).
Ledger == INSTANCE RequestLedger WITH
              RequestNames <- Nat \ {0}, open <- Names(pending)
RefinesLedger == Ledger!Spec

\* Every request comes to an end though no peer answers: once the application
\* has fallen quiet, which a budget sees to, nothing stays pending
\* (RETRY_SCHEDULE, handle_timeout).
RequestsEnd == <>[](pending = {})

\* A write the application never decides does not keep its slot: the queue that
\* MAX_DEFERRED_WRITES bounds does not fill up and stay full (poll_timeout).
WritesAreReleased == <>[](deferred = {})

\* Both: neither a silent peer nor a silent application holds the engine up.
NothingWaitsForever == RequestsEnd /\ WritesAreReleased

\* Stated at relations.rs:8-10, "A write without one is refused with
\* `errorNumber` 9, which is what stops a second energy manager from overriding
\* the first one's limit": what a feature holds is not replaced on the word of
\* one client while another is bound to it.
ControllerIsNotOverridden ==
    [][\A s \in Bound : owner'[s] # owner[s] =>
         \A b \in bindings : b[2] = s => SameEntity(b[1], owner'[s])]_vars
=============================================================================
