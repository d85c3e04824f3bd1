--------------------------------- MODULE Hub ---------------------------------
(* The hub that keeps a node's connections (runtime/hub.rs), with the part  *)
(* of the node and the connection driver it leans on: handshakes in flight, *)
(* the decisions they wait for, established links, double connections,      *)
(* keep-alive, redialling, and the program counter of Hub::next.            *)
(*                                                                          *)
(* Times are what is left until a deadline, in ticks; Off is "no deadline". *)
EXTENDS Integers, Sequences, FiniteSets, SequencesExt

CONSTANTS
    Self,                       \* this node's own SKI
    Peers,                      \* the SKIs of other nodes
    Watched,                    \* the peers the liveness properties speak of
    Own,                        \* this node's SPINE device address
    Devices,                    \* the device addresses peers claim
    MAX_CONNECTIONS_PER_PEER,
    MAX_PENDING_TRUST,
    MAX_SIGHTINGS,
    ARBITRATION_DELAY,
    PONG_TIMEOUT,
    MAX_DELAY,                  \* the longest redial delay
    MaxAttempts,                \* bound: failures counted per remembered peer
    Ports,                      \* the source ports of accepted connections
    Worlds                      \* the instances a behaviour may start in

VARIABLES
    world,    \* [max, keepalive, peers, bigger, trusted, calls]: fixed
    hub,      \* the fields of Hub
    node,     \* [trusted, refusals]: what Node shares with its handshakes
    tasks,    \* the handshake tasks, oldest first
    at        \* where Hub::next stands

vars == <<world, hub, node, tasks, at>>

None == "none"
Off == -1
Skis == Peers \cup {Self}
Times == Off .. MAX_DELAY + PONG_TIMEOUT + ARBITRATION_DELAY
Kinds == {"Dialed", "Accepted"}

(* A node is not its own peer, and a missing name is no name.               *)
ASSUME NamesAssumption ==
    Self \notin Peers /\ None \notin Skis /\ Own # None /\ IsFiniteSet(Peers)

ASSUME LimitsAssumption ==
    /\ MAX_CONNECTIONS_PER_PEER \in Nat /\ MAX_PENDING_TRUST \in Nat
    /\ MAX_SIGHTINGS \in Nat \ {0} /\ MaxAttempts \in Nat
    /\ ARBITRATION_DELAY \in Nat /\ PONG_TIMEOUT \in Nat /\ MAX_DELAY \in Nat

(* There is a source port for every connection a hub may hold.              *)
ASSUME WorldsAssumption ==
    /\ IsFiniteSet(Ports)
    /\ \A w \in Worlds : /\ w.max \in Nat /\ w.max <= Cardinality(Ports)
                         /\ w.keepalive \in Times /\ w.peers \subseteq Skis

Forgotten == [attempts |-> 0, wait |-> Off, dialing |-> FALSE, found |-> FALSE]

New == [links |-> <<>>, inFlight |-> [k \in Kinds |-> 0], awaiting |-> {},
        known |-> [p \in Skis |-> Forgotten], sightings |-> <<>>,
        duplicates |-> <<>>, wake |-> Off, pending |-> <<>>, engine |-> {},
        writing |-> 0, ownInstance |-> FALSE]

-----------------------------------------------------------------------------
(* Reading the tables.                                                       *)

LinksTo(h, ski) == {i \in DOMAIN h.links : h.links[i].ski = ski}
Known(h, ski) == h.known[ski].wait # Off
LinksOf(h, kind) == Cardinality({i \in DOMAIN h.links : h.links[i].kind = kind})
Reserved == world.max - 1

HasRoomFor(h, kind) ==
    /\ Len(h.links) + h.inFlight["Dialed"] + h.inFlight["Accepted"] < world.max
    /\ world.max > 1 => LinksOf(h, kind) + h.inFlight[kind] < Reserved

HasSlotFor(h, kind) ==
    /\ Len(h.links) < world.max
    /\ world.max > 1 => LinksOf(h, kind) < Reserved

(* The entries of s at the positions S, in their order.                     *)
Kept(s, S) ==
    [k \in 1 .. Cardinality(S) |->
       s[CHOOSE i \in S : Cardinality({j \in S : j <= i}) = k]]

(* Events for the application, in order.                                     *)
Emit(h, event, ski) ==
    [h EXCEPT !.pending = Append(@, [event |-> event, ski |-> ski])]

WakeAt(h, t) == [h EXCEPT !.wake = IF @ = Off THEN t ELSE IF t < @ THEN t ELSE @]

-----------------------------------------------------------------------------
(* Ends of links.                                                            *)

Forget(h, ski) ==
    [h EXCEPT !.duplicates = Kept(@, {i \in DOMAIN @ : @[i].ski # ski})]

(* What forget_peer_state leaves of the peers whose links are doomed: the   *)
(* engine loses their devices, and one with no link left is not watched.    *)
ForgetPeerStates(h, doomed) ==
    LET left == DOMAIN h.links \ doomed
        alone == {h.links[i].ski : i \in doomed} \ {h.links[i].ski : i \in left}
    IN  [h EXCEPT
           !.engine = @ \ {h.links[i].device : i \in doomed},
           !.duplicates = Kept(@, {i \in DOMAIN @ : @[i].ski \notin alone})]

(* Links go highest index first, each with its event.                       *)
DropLinks(h, doomed) ==
    LET gone == Kept(h.links, doomed)
        told == [k \in 1 .. Len(gone) |->
                   [event |-> "Disconnected", ski |-> gone[Len(gone) + 1 - k].ski]]
    IN  IF doomed = {} THEN h
        ELSE [ForgetPeerStates(h, doomed) EXCEPT
                !.links = Kept(@, DOMAIN @ \ doomed),
                !.pending = @ \o told]

DropLink(h, i) == DropLinks(h, {i})

CloseLinksWith(h, ski) == DropLinks(h, LinksTo(h, ski))

(* The newest connection stays; its older twins are closed off the loop and *)
(* reported to nobody, the engine's record of their device included.        *)
CloseDuplicates(h, ski) ==
    LET mine == LinksTo(h, ski)
        doomed == {i \in mine : \E j \in mine : j > i}
        others == {i \in DOMAIN h.pending : \/ h.pending[i].event # "Disconnected"
                                            \/ h.pending[i].ski # ski}
    IN  Forget([h EXCEPT
                  !.links = Kept(@, DOMAIN @ \ doomed),
                  !.pending = IF mine = {} THEN @ ELSE Kept(@, others)],
               ski)

-----------------------------------------------------------------------------
(* Peers to keep a connection to.                                            *)

Doublings == <<1, 2, 4, 8, 16, 32, 64, 128>>

ReconnectDelay(attempts) ==
    LET seconds == Doublings[1 + (IF attempts < 7 THEN attempts ELSE 7)]
    IN  IF seconds < MAX_DELAY THEN seconds ELSE MAX_DELAY

Deferred(peer) ==
    LET n == IF peer.attempts < MaxAttempts THEN peer.attempts + 1 ELSE MaxAttempts
    IN  [peer EXCEPT !.attempts = n, !.wait = ReconnectDelay(n)]

DeferRedial(h, ski) ==
    IF ~Known(h, ski) THEN h ELSE [h EXCEPT !.known[ski] = Deferred(@)]

RememberIn(h, ski) ==
    IF ski = Self THEN h
    ELSE [h EXCEPT !.known[ski].attempts = 0, !.known[ski].wait = 0]

Sighted(h, ski) == \E i \in DOMAIN h.sightings : h.sightings[i] = ski
Unsighted(h, ski) ==
    [h EXCEPT !.sightings = Kept(@, {i \in DOMAIN @ : @[i] # ski})]

RememberDiscovered(h, ski) ==
    IF ski \in node.trusted
    THEN [RememberIn(h, ski) EXCEPT !.known[ski].found = TRUE]
    ELSE LET s == Unsighted(h, ski).sightings
             room == IF Len(s) >= MAX_SIGHTINGS THEN Tail(s) ELSE s
         IN  [h EXCEPT !.sightings = Append(room, ski)]

ForgetDiscovered(h, ski) ==
    LET rest == Unsighted(h, ski)
    IN  IF Known(h, ski) /\ h.known[ski].found
        THEN [rest EXCEPT !.known[ski] = Forgotten] ELSE rest

(* A handshake that has been started: its origin, whom it was meant for,    *)
(* who answered, and how far it has come.                                    *)
Task(kind, from, expected) ==
    [kind |-> kind, from |-> from, expected |-> expected, peer |-> None,
     asked |-> "no", phase |-> "open", woken |-> FALSE]

(* How many more handshakes of this kind HasRoomFor would let in.           *)
Room(h, kind) ==
    LET all == world.max - Len(h.links) - h.inFlight["Dialed"] - h.inFlight["Accepted"]
        own == Reserved - LinksOf(h, kind) - h.inFlight[kind]
        room == IF world.max > 1 /\ own < all THEN own ELSE all
    IN  IF room > 0 THEN room ELSE 0

(* The wanted peers are dialled one after the other, each with the address  *)
(* it is dialled at and the SKI expected there, while there is room; the    *)
(* others are put off.                                                      *)
SpawnDials(h, running, wanted) ==
    LET n == IF Room(h, "Dialed") < Len(wanted) THEN Room(h, "Dialed") ELSE Len(wanted)
        dialed == {wanted[i].expected : i \in 1 .. n}
        late == {wanted[i].expected : i \in n + 1 .. Len(wanted)}
    IN  [hub |->
           [h EXCEPT
              !.inFlight["Dialed"] = @ + n,
              !.known = [p \in Skis |->
                           IF p \in dialed /\ Known(h, p)
                           THEN [@[p] EXCEPT !.dialing = TRUE]
                           ELSE IF p \in late /\ Known(h, p) THEN Deferred(@[p])
                           ELSE @[p]],
              !.pending = @ \o [k \in 1 .. Len(wanted) - n |->
                 [event |-> "HandshakeFailed", ski |-> wanted[n + k].expected]]],
         tasks |-> running \o [k \in 1 .. n |->
                     Task("Dialed", wanted[k].from, wanted[k].expected)]]

\* Mutant: a peer that could not be reached once is not tried again.
DueOnce(h) ==
    {p \in Skis : /\ h.known[p].wait = 0 /\ ~h.known[p].dialing
                  /\ h.known[p].attempts = 0 /\ LinksTo(h, p) = {}}

DueForRedial(h) ==
    {p \in Skis : /\ h.known[p].wait = 0 /\ ~h.known[p].dialing
                  /\ LinksTo(h, p) = {}}

(* redial takes the due peers in the order they were remembered in, which   *)
(* the model leaves open.                                                   *)
Redials(h) ==
    {[i \in DOMAIN order |-> [from |-> order[i], expected |-> order[i]]] :
        order \in SetToSeqs(DueForRedial(h))}

-----------------------------------------------------------------------------
(* Keep-alive. A link carries the time left before it is pinged, the time   *)
(* left for the pong, and how long an outstanding ping has waited.          *)

Keepalive(l) ==
    IF l.pinged # Off /\ l.waited = Off
    THEN [l EXCEPT !.pinged = Off, !.quiet = world.keepalive] ELSE l

Dead(l) == l.pinged = 0 /\ l.waited # Off

NewLink(ski, kind) ==
    [ski |-> ski, kind |-> kind, device |-> None, reads |-> 2,
     quiet |-> world.keepalive, pinged |-> Off, waited |-> Off]

AdoptFrom(h, ski, kind) ==
    LET twin == LinksTo(h, ski) # {}
        watched == \E i \in DOMAIN h.duplicates : h.duplicates[i].ski = ski
    IN  Emit([h EXCEPT
               !.links = Append(@, NewLink(ski, kind)),
               !.duplicates = IF twin /\ ~watched
                              THEN Append(@, [ski |-> ski, probed |-> FALSE,
                                              left |-> ARBITRATION_DELAY])
                              ELSE @], "Connected", ski)

(* Why a connection is not adopted, or None.                                 *)
Refusal(h, ski, kind) ==
    IF ski = Self THEN "SelfConnection"
    ELSE IF \/ Cardinality(LinksTo(h, ski)) >= MAX_CONNECTIONS_PER_PEER
            \/ ~HasSlotFor(h, kind)
    THEN "TooManyConnections" ELSE None

-----------------------------------------------------------------------------
(* What a datagram changes: the device a link is bound to, the opening      *)
(* reads it still waits for, and the event once both are answered.          *)

\* Mutant: only this node's own address is looked for.
ConflictWithOwn(h, i, device) ==
    IF h.links[i].device # None THEN h.links[i].device # device ELSE device = Own

Conflict(h, i, device) ==
    LET bound == h.links[i].device
    IN  IF bound # None THEN bound # device
        ELSE \/ device = Own
             \/ \E j \in DOMAIN h.links : j # i /\ h.links[j].device = device

Discovered(l) == l.reads = 0 /\ l.device # None

Receive(h, i, device, answers) ==
    LET l == [h.links[i] EXCEPT
                !.device = IF device = None THEN @ ELSE device,
                !.reads = IF answers /\ @ > 0 THEN @ - 1 ELSE @]
        heard == [h EXCEPT !.links[i] = l,
                           !.engine = IF device = None THEN @ ELSE @ \cup {device}]
    IN  IF Discovered(l) /\ ~Discovered(h.links[i])
        THEN Emit(heard, "PeerDiscovered", l.ski) ELSE heard

-----------------------------------------------------------------------------
(* What to do about several connections to one peer (ship/policy.rs).       *)

\* Mutant: a ping round is followed by another.
ResolveByProbing(h, d) ==
    IF Cardinality(LinksTo(h, d.ski)) < 2 THEN "Settled"
    ELSE IF d.ski \notin world.bigger THEN "KeepNewest"
    ELSE IF d.left > 0 THEN "Wait" ELSE "Probe"

Resolve(h, d) ==
    IF Cardinality(LinksTo(h, d.ski)) < 2 THEN "Settled"
    ELSE IF d.ski \notin world.bigger THEN "KeepNewest"
    ELSE IF d.left > 0 THEN "Wait"
    ELSE IF d.probed THEN "CloseAfterProbe" ELSE "Probe"

(* One ping round; the links of failed are those the ping could not be      *)
(* written to.                                                               *)
ProbeLinks(h, ski, failed) ==
    LET written(l) == [Keepalive(l) EXCEPT !.waited = 0]
        asked == [h EXCEPT
                    !.links = [i \in DOMAIN @ |->
                                 IF i \notin LinksTo(h, ski) THEN @[i]
                                 ELSE IF i \in failed THEN Keepalive(@[i])
                                 ELSE written(@[i])],
                    !.duplicates[1].probed = TRUE]
    IN  WakeAt(DropLinks(asked, failed), PONG_TIMEOUT)

Unanswered(h, ski) == {i \in LinksTo(h, ski) : h.links[i].waited # Off}

CloseAfterProbe(h, ski) ==
    CloseDuplicates(DropLinks(h, Unanswered(h, ski)), ski)

-----------------------------------------------------------------------------
(* Deadlines.                                                                *)

Due(h) ==
    \/ h.wake = 0
    \/ \E p \in Skis : h.known[p].wait = 0 /\ ~h.known[p].dialing
                       /\ LinksTo(h, p) = {}
    \/ \E i \in DOMAIN h.links :
         \/ h.links[i].pinged = 0
         \/ h.links[i].pinged = Off /\ h.links[i].quiet = 0

FireTimers(h) ==
    LET checked == [h EXCEPT !.links = [i \in DOMAIN @ |-> Keepalive(@[i])]]
        after == DropLinks(checked, {i \in DOMAIN h.links : Dead(h.links[i])})
    IN  IF after.wake = 0 THEN Emit([after EXCEPT !.wake = Off], "Tick", None)
        ELSE after

ToPing(h) ==
    {i \in DOMAIN h.links : h.links[i].pinged = Off /\ h.links[i].quiet = 0}

Pinged(h, failed) ==
    DropLinks([h EXCEPT !.links = [i \in DOMAIN @ |->
                 IF i \in ToPing(h) \ failed
                 THEN [@[i] EXCEPT !.pinged = PONG_TIMEOUT, !.waited = 0]
                 ELSE @[i]]], failed)

-----------------------------------------------------------------------------
Init ==
    /\ world \in Worlds
    /\ hub = New
    /\ node = [trusted |-> world.trusted, refusals |-> {}]
    /\ tasks = <<>>
    /\ at = "top"

(* Every change to the trust store wakes every handshake (TrustStore::touch).*)
Touched == [t \in DOMAIN tasks |-> [tasks[t] EXCEPT !.woken = TRUE]]

-----------------------------------------------------------------------------
(* Hub::next, part by part. A link whose write was cut short by the caller  *)
(* dropping the future is dropped before anything else.                     *)

DropInterrupted ==
    /\ at = "top" /\ hub.writing # 0
    /\ LET idle == [hub EXCEPT !.writing = 0]
       IN  hub' = IF hub.writing <= Len(hub.links)
                  THEN DropLink(idle, hub.writing) ELSE idle
    /\ UNCHANGED <<world, node, tasks, at>>

PopEvent ==
    /\ at = "top" /\ hub.writing = 0 /\ hub.pending # <<>>
    /\ hub' = [hub EXCEPT !.pending = Tail(@)]
    /\ UNCHANGED <<world, node, tasks, at>>

(* Links the engine may have something to send on.                          *)
Writable(h) ==
    {i \in DOMAIN h.links : h.links[i].reads > 0 \/ h.links[i].device # None}

Dispatch ==
    /\ at = "top" /\ hub.writing = 0 /\ hub.pending = <<>>
    /\ \E failed \in SUBSET Writable(hub) :
         /\ Cardinality(failed) <= 1
         /\ hub' = DropLinks(hub, failed)
    /\ at' = "arbitrate"
    /\ UNCHANGED <<world, node, tasks>>

DispatchCancelled ==
    /\ at = "top" /\ hub.writing = 0 /\ hub.pending = <<>>
    /\ "cancel" \in world.calls
    /\ \E i \in Writable(hub) : hub' = [hub EXCEPT !.writing = i]
    /\ UNCHANGED <<world, node, tasks, at>>

Arbitrate ==
    /\ at = "arbitrate"
    /\ IF hub.duplicates = <<>>
       THEN hub' = hub /\ at' = "timers"
       ELSE LET d == hub.duplicates[1]
                r == Resolve(hub, d)
            IN  \/ /\ r = "Settled" /\ at' = "timers"
                   /\ hub' = Forget(hub, d.ski)
                \/ /\ r = "KeepNewest" /\ at' = "top"
                   /\ hub' = CloseDuplicates(hub, d.ski)
                \/ /\ r = "Wait" /\ at' = "timers"
                   /\ hub' = WakeAt(hub, d.left)
                \/ /\ r = "Probe"
                   /\ \E failed \in SUBSET LinksTo(hub, d.ski) :
                        /\ hub' = ProbeLinks(hub, d.ski, failed)
                        /\ at' = IF failed = {} THEN "timers" ELSE "top"
                \/ /\ r = "CloseAfterProbe" /\ at' = "top"
                   /\ hub' = CloseAfterProbe(hub, d.ski)
    /\ UNCHANGED <<world, node, tasks>>

(* redial, then the timers that are due, then the keep-alive pings.         *)
Timers ==
    /\ at = "timers"
    /\ \E wanted \in Redials(hub) :
         LET s == SpawnDials(hub, tasks, wanted)
         IN  /\ tasks' = s.tasks
             /\ IF Due(s.hub)
                THEN LET fired == FireTimers(s.hub)
                     IN  /\ at' = "top"
                         /\ \E failed \in SUBSET ToPing(fired) :
                              hub' = Pinged(fired, failed)
                ELSE at' = "wait" /\ hub' = s.hub
    /\ UNCHANGED <<world, node>>

Deadline ==
    /\ at = "wait" /\ Due(hub)
    /\ LET fired == FireTimers(hub)
       IN  \E failed \in SUBSET ToPing(fired) : hub' = Pinged(fired, failed)
    /\ at' = "top"
    /\ UNCHANGED <<world, node, tasks>>

(* Frames read while waiting.                                                *)
Heard(i) ==
    [hub EXCEPT !.links[i].quiet = world.keepalive, !.links[i].pinged = Off]

FrameData(i) ==
    /\ at = "wait"
    /\ \E device \in Devices \cup {Own, None}, answers \in BOOLEAN :
         hub' = IF device # None /\ Conflict(hub, i, device)
                THEN DropLink(Heard(i), i)
                ELSE Receive(Heard(i), i, device, answers)
    /\ at' = "top"
    /\ UNCHANGED <<world, node, tasks>>

(* The peer closes, breaks a rule, or the socket fails.                     *)
FrameEnd(i) ==
    /\ at = "wait"
    /\ hub' = DropLink(hub, i)
    /\ at' = "top"
    /\ UNCHANGED <<world, node, tasks>>

PongArrives(i) ==
    /\ at = "wait" /\ hub.links[i].waited # Off
    /\ hub' = [hub EXCEPT !.links[i].waited = Off]
    /\ UNCHANGED <<world, node, tasks, at>>

-----------------------------------------------------------------------------
(* Handshake tasks, running beside the hub (node.rs, run_handshake).        *)

TaskConnects(t) ==
    /\ at = "wait" /\ tasks[t].phase = "open"
    /\ \E p \in world.peers :
         LET known == p \in node.trusted
         IN  tasks' = [tasks EXCEPT ![t].peer = p, ![t].woken = FALSE,
                         ![t].phase = IF known THEN "trusted" ELSE "pending",
                         ![t].asked = IF known THEN "no" ELSE "sent"]
    /\ UNCHANGED <<world, hub, node, at>>

\* Node::refuse_pairing and take_refusal: one waiting handshake takes it.
RefusePairing(ski) ==
    node' = [node EXCEPT !.refusals = @ \cup {ski}] /\ tasks' = Touched
TakeRefusal(n, ski) == [n EXCEPT !.refusals = @ \ {ski}]

(* A decision: the refusal first, then the trust store.                     *)
TaskDecides(t) ==
    /\ at = "wait" /\ tasks[t].woken /\ tasks[t].phase \in {"pending", "trusted"}
    /\ LET p == tasks[t].peer
           refused == p \in node.refusals
           next == IF tasks[t].phase = "trusted" THEN "trusted"
                   ELSE IF refused THEN "failed"
                   ELSE IF p \in node.trusted THEN "trusted" ELSE "pending"
       IN  /\ tasks' = [tasks EXCEPT ![t].woken = FALSE, ![t].phase = next]
           /\ node' = TakeRefusal(node, p)
    /\ UNCHANGED <<world, hub, at>>

TaskEnds(t) ==
    /\ at = "wait" /\ tasks[t].phase \in {"open", "pending", "trusted"}
    /\ \E next \in {"failed"} \cup (IF tasks[t].phase = "trusted" THEN {"ok"} ELSE {}) :
         tasks' = [tasks EXCEPT ![t].phase = next]
    /\ UNCHANGED <<world, hub, node, at>>

(* What a task has put in the hub's inbox.                                   *)
Origin(task) == <<task.kind, task.from>>

HandleTrustRequested(t) ==
    /\ at = "wait" /\ tasks[t].asked = "sent"
    /\ LET p == tasks[t].peer
           seen == [tasks EXCEPT ![t].asked = "handled"]
           same == \E w \in hub.awaiting : w.origin = Origin(tasks[t])
           waiting == \E w \in hub.awaiting : w.ski = p
       IN  IF same \/ waiting
           THEN tasks' = seen /\ UNCHANGED <<hub, node>>
           ELSE IF Cardinality(hub.awaiting) >= MAX_PENDING_TRUST
           THEN /\ node' = [node EXCEPT !.refusals = @ \cup {p}]
                /\ tasks' = [k \in DOMAIN seen |-> [seen[k] EXCEPT !.woken = TRUE]]
                /\ hub' = Emit(hub, "HandshakeFailed", p)
           ELSE /\ tasks' = seen
                /\ hub' = Emit([hub EXCEPT !.awaiting =
                                  @ \cup {[origin |-> Origin(tasks[t]), ski |-> p]}],
                               "TrustRequested", p)
                /\ UNCHANGED node
    /\ at' = "top" /\ UNCHANGED world

(* A finished task leaves: its in-flight slot and its place in the pairing  *)
(* table come back, and the peer it was meant for may be dialled again.     *)
\* Mutant: a finished handshake keeps its place in the pairing table.
ReleasedButAwaiting(task) ==
    [hub EXCEPT !.inFlight[task.kind] = IF @ > 0 THEN @ - 1 ELSE 0,
                !.known = [p \in Skis |-> IF p = task.expected
                                          THEN [@[p] EXCEPT !.dialing = FALSE]
                                          ELSE @[p]]]

Released(task) ==
    [hub EXCEPT !.inFlight[task.kind] = IF @ > 0 THEN @ - 1 ELSE 0,
                !.awaiting = {w \in @ : w.origin # Origin(task)},
                !.known = [p \in Skis |-> IF p = task.expected
                                          THEN [@[p] EXCEPT !.dialing = FALSE]
                                          ELSE @[p]]]

HandleFailed(t) ==
    /\ at = "wait" /\ tasks[t].phase = "failed" /\ tasks[t].asked # "sent"
    /\ LET back == Released(tasks[t])
           e == tasks[t].expected
       IN  hub' = Emit(IF e = None THEN back ELSE DeferRedial(back, e),
                       "HandshakeFailed", tasks[t].peer)
    /\ tasks' = Kept(tasks, DOMAIN tasks \ {t})
    /\ at' = "top" /\ UNCHANGED <<world, node>>

HandleEstablished(t) ==
    /\ at = "wait" /\ tasks[t].phase = "ok" /\ tasks[t].asked # "sent"
    /\ LET task == tasks[t]
           back == Released(task)
           ski == task.peer
           e == task.expected
           why == Refusal(back, ski, task.kind)
           deferred(h) == IF e = None THEN h ELSE DeferRedial(h, e)
       IN  hub' = IF why = None
                  THEN LET up == AdoptFrom(back, ski, task.kind)
                       IN  IF e = None THEN up
                           ELSE IF e # ski THEN DeferRedial(up, e)
                           ELSE IF Known(up, ski)
                           THEN [up EXCEPT !.known[ski].attempts = 0,
                                           !.known[ski].wait = 0]
                           ELSE up
                  ELSE Emit(IF why = "SelfConnection"
                            THEN Unsighted([back EXCEPT !.known[ski] = Forgotten], ski)
                            ELSE deferred(back), "HandshakeFailed", ski)
    /\ tasks' = Kept(tasks, DOMAIN tasks \ {t})
    /\ at' = "top" /\ UNCHANGED <<world, node>>

(* A stream accepted by the listener task.                                  *)
Accept ==
    /\ at = "wait"
    /\ IF HasRoomFor(hub, "Accepted")
       THEN LET used == {tasks[k].from : k \in DOMAIN tasks}
                free == CHOOSE n \in Ports : n \notin used
            IN  /\ hub' = [hub EXCEPT !.inFlight["Accepted"] = @ + 1]
                /\ tasks' = Append(tasks, Task("Accepted", free, None))
       ELSE hub' = Emit(hub, "HandshakeFailed", None) /\ UNCHANGED tasks
    /\ at' = "top" /\ UNCHANGED <<world, node>>

(* The browse thread: an announcement, of a peer or of this node itself.    *)
Found(ski) ==
    /\ at = "wait"
    /\ hub' = IF ski = Self THEN [hub EXCEPT !.ownInstance = TRUE]
              ELSE Emit(RememberDiscovered(hub, ski), "Found", ski)
    /\ at' = "top" /\ UNCHANGED <<world, node, tasks>>

Lost(ski) ==
    /\ at = "wait"
    /\ hub' = IF ski = Self /\ hub.ownInstance
              THEN [hub EXCEPT !.ownInstance = FALSE]
              ELSE Emit(ForgetDiscovered(hub, ski), "Lost", ski)
    /\ at' = "top" /\ UNCHANGED <<world, node, tasks>>

-----------------------------------------------------------------------------
(* The application, between two calls of next.                              *)

AppTurn == at \in {"top", "wait"} /\ hub.pending = <<>> /\ at' = "top"

Approve(ski) ==
    /\ AppTurn /\ ski # Self
    /\ node' = [node EXCEPT !.trusted = @ \cup {ski}]
    /\ tasks' = Touched
    /\ hub' = IF Sighted(hub, ski)
              THEN [RememberIn(Unsighted(hub, ski), ski)
                      EXCEPT !.known[ski].found = TRUE]
              ELSE hub
    /\ UNCHANGED world

Refuse(ski) ==
    /\ AppTurn /\ RefusePairing(ski)
    /\ UNCHANGED <<world, hub>>

Dial(address) ==
    /\ AppTurn
    /\ LET s == SpawnDials(hub, tasks, <<[from |-> address, expected |-> None]>>)
       IN  hub' = s.hub /\ tasks' = s.tasks
    /\ UNCHANGED <<world, node>>

Remember(ski) ==
    /\ AppTurn
    /\ hub' = RememberIn(hub, ski)
    /\ UNCHANGED <<world, node, tasks>>

ForgetPeer(ski) ==
    /\ AppTurn
    /\ hub' = [hub EXCEPT !.known[ski] = Forgotten]
    /\ UNCHANGED <<world, node, tasks>>

Close(ski) ==
    /\ AppTurn
    /\ hub' = CloseLinksWith(hub, ski)
    /\ UNCHANGED <<world, node, tasks>>

(* disconnect takes the links out by hand and leaves the engine alone.      *)
Disconnect(ski) ==
    /\ AppTurn
    /\ hub' = Emit(Forget([hub EXCEPT !.links =
                             Kept(@, DOMAIN @ \ LinksTo(hub, ski))], ski),
                   "Disconnected", ski)
    /\ UNCHANGED <<world, node, tasks>>

-----------------------------------------------------------------------------
Less(t) == IF t > 0 THEN t - 1 ELSE t
MoreWaited(t) == IF t = Off \/ t = PONG_TIMEOUT THEN t ELSE t + 1

Timed(h) ==
    \/ h.wake > 0
    \/ \E p \in Skis : h.known[p].wait > 0
    \/ \E i \in DOMAIN h.links : \/ h.links[i].quiet > 0 \/ h.links[i].pinged > 0
                                 \/ h.links[i].waited \in 0 .. PONG_TIMEOUT - 1
    \/ \E i \in DOMAIN h.duplicates : h.duplicates[i].left > 0

Tick ==
    /\ at = "wait" /\ ~Due(hub) /\ Timed(hub)
    /\ hub' = [hub EXCEPT
         !.wake = Less(@),
         !.known = [p \in Skis |-> [hub.known[p] EXCEPT !.wait = Less(@)]],
         !.duplicates = [i \in DOMAIN hub.duplicates |->
                           [hub.duplicates[i] EXCEPT !.left = Less(@)]],
         !.links = [i \in DOMAIN hub.links |->
                      [hub.links[i] EXCEPT !.quiet = Less(@), !.pinged = Less(@),
                                           !.waited = MoreWaited(@)]]]
    /\ UNCHANGED <<world, node, tasks, at>>

Loop == DropInterrupted \/ PopEvent \/ Dispatch \/ Arbitrate \/ Timers \/ Deadline
Frames == \E i \in DOMAIN hub.links : FrameData(i) \/ FrameEnd(i) \/ PongArrives(i)
TaskSteps == \E t \in DOMAIN tasks : TaskConnects(t) \/ TaskDecides(t) \/ TaskEnds(t)
Inbox == \E t \in DOMAIN tasks :
            HandleTrustRequested(t) \/ HandleFailed(t) \/ HandleEstablished(t)
Asks(call) == call \in world.calls
Application ==
    \/ \E ski \in world.peers \ {Self} :
         \/ Asks("approve") /\ Approve(ski)
         \/ Asks("refuse") /\ Refuse(ski)
         \/ Asks("keep") /\ (Remember(ski) \/ ForgetPeer(ski))
         \/ Asks("close") /\ (Close(ski) \/ Disconnect(ski))
    \/ Asks("dial") /\ \E address \in world.peers : Dial(address)
Browsing == Asks("browse") /\ \E ski \in world.peers : Found(ski) \/ Lost(ski)

Next == Loop \/ Frames \/ TaskSteps \/ Inbox \/ Accept \/ Application
        \/ Browsing \/ DispatchCancelled \/ Tick

Spec == Init /\ [][Next]_vars

(* The hub's task and the handshake tasks are scheduled, the clock runs     *)
(* whatever happens, the inbox is served first (select! is biased), and the *)
(* application does not answer every event with a call that queues another, *)
(* which would keep next from ever reading.                                 *)
FairSpec ==
    /\ Spec /\ WF_vars(Loop) /\ SF_vars(Dispatch) /\ SF_vars(Tick)
    /\ SF_vars(TaskSteps) /\ SF_vars(Inbox)

-----------------------------------------------------------------------------
Phases == {"open", "pending", "trusted", "ok", "failed"}

(* Every field holds what its Rust type says; the tables hold what the      *)
(* limits of hub.rs allow.                                                  *)
HubTypeOK ==
    /\ at \in {"top", "arbitrate", "timers", "wait"}
    /\ hub.inFlight \in [Kinds -> 0 .. world.max]
    /\ Len(hub.links) <= world.max
    /\ \A i \in DOMAIN hub.links :
         hub.links[i] \in [ski : Peers, kind : Kinds, device : Devices \cup {None},
                           reads : 0 .. 2, quiet : Times, pinged : Times, waited : Times]
    /\ hub.known \in [Skis -> [attempts : 0 .. MaxAttempts, wait : Times,
                                dialing : BOOLEAN, found : BOOLEAN]]
    /\ hub.engine \subseteq Devices
    /\ Len(hub.sightings) <= MAX_SIGHTINGS
    /\ \A t \in DOMAIN tasks : tasks[t].phase \in Phases

(* Slots come back: the in-flight counters are exactly the handshakes still *)
(* running, no entry of the pairing table outlives its handshake, one peer  *)
(* holds one entry, and a peer marked as being dialled has a task dialling. *)
(* (spawn_dial, accept, handle_inbound, release_in_flight)                  *)
SlotsAreReturned ==
    /\ \A k \in Kinds : hub.inFlight[k] =
         Cardinality({t \in DOMAIN tasks : tasks[t].kind = k})
    /\ \A w \in hub.awaiting : \E t \in DOMAIN tasks :
         Origin(tasks[t]) = w.origin /\ tasks[t].peer = w.ski
    /\ \A v, w \in hub.awaiting : v.ski = w.ski => v = w
    /\ \A p \in Skis : hub.known[p].dialing =>
         \E t \in DOMAIN tasks : tasks[t].expected = p

(* The hub's tables keep their limits, and slots come back.                 *)
SlotsAreKept == HubTypeOK /\ SlotsAreReturned

(* A double connection is always on the list arbitrate works through, and   *)
(* no two links, nor a link and this node, answer to one device address, so *)
(* route never has to choose. (adopt_from, forget_peer_state, receive)      *)
DoublesAreWatched ==
    /\ \A p \in Peers : Cardinality(LinksTo(hub, p)) > 1 =>
         \E i \in DOMAIN hub.duplicates : hub.duplicates[i].ski = p
    /\ \A i, j \in DOMAIN hub.links :
         /\ hub.links[i].device # Own
         /\ hub.links[i].device = hub.links[j].device /\ i # j =>
              hub.links[i].device = None

(* A double connection ends, whichever node has the bigger SKI and whether  *)
(* or not the peer arbitrates. (arbitrate, policy.rs resolve)               *)
DoublesEnd ==
    \A p \in Watched : Cardinality(LinksTo(hub, p)) > 1
                      ~> Cardinality(LinksTo(hub, p)) < 2

(* A remembered peer without a connection is dialled again, unless it is    *)
(* forgotten or the hub is full. (redial, defer_redial, next_deadline)      *)
RememberedAreDialed ==
    \A p \in Watched :
      Known(hub, p) /\ LinksTo(hub, p) = {}
      ~> \/ hub.known[p].dialing \/ LinksTo(hub, p) # {} \/ ~Known(hub, p)
         \/ ~HasRoomFor(hub, "Dialed")

=============================================================================
