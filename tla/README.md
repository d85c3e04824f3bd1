# A TLA+ model of eebus

This directory specifies, model-checks and proves properties of the core logic
of the eebus library: SHIP connections and trust, the SPINE engine, and the use
cases built on them, first of all the Limitation of Power Consumption /
Production (LPC and LPP), through which a grid operator curtails a household
appliance.

- One module per component, parameterised by constants: `ControllableSystem`,
  `CsActor`, `GuardBinding`, `EnergyGuard` (limitation); `ShipHandshake`, `Hub`,
  `TrustStore`, `Requester` (SHIP); `SpineEngine`, `FunctionData`, `Discovery`,
  `UseCases`, `Features`, `PreScenario` (SPINE); `BatteryControl`, `Ohpcf`,
  `EvCharging`, `EvProfile`, `EvSession`, `Hvac`, `Monitoring`, `Measurands` (other use
  cases); `Times` (values).
- `RequestLedger.tla`: what the engine promises about its requests.
- `MC_*.tla`, `MC_*.cfg`: the instances TLC checks.
- `*_proofs.tla`: theorems about a component, checked by TLAPS for every value
  of its constants; `Parts_proofs.tla` carries them over to the composition that the
  `parts` run checks.
- `PROJECT.json`: the inventory in machine-readable form: components, runs,
  which source lines each definition models, hazards, findings, theorems.

Reproduce with `tlc -workers 2 -config MC_X.cfg MC_Module` and
`tlapm X_proofs.tla`.

## 1. The system and its parts

The library is sans-I/O at its core. Every protocol object has the same
interface: feed it what arrived (`handle_message`, `handle_datagram`,
`handle_event`), tell it the time (`handle_timeout(now)`), ask when it wants to
be woken (`poll_timeout`) and drain what it wants to send or report. A thin
tokio runtime owns the sockets and the clock. Two consequences shape the models:
each operation runs to completion on `&mut self`, so it is one atomic action; and
the hard behaviours are the *orders* in which messages, decisions, timers and
failures reach these objects, and the lateness of whoever calls them.

| Component | Source | State | Operations | What makes it correct |
|---|---|---|---|---|
| Controllable System machine | `src/usecases/limitation/state.rs` | state of LPC/LPP Table 1, limit and expiry, last heartbeat, opening sequence, failsafe values | heartbeat, limit write (accepted, refused, unreadable, not stored), failsafe writes, interrupt, `handle_timeout`, `poll_timeout` | a silent guard never keeps an appliance limited; a limit changes only for a reason; deadlines are exact |
| Controllable System actor | `.../limitation/actor.rs` | the machine, published data, bound guards, the heartbeat source | install, publish, decide_limit, decide_failsafe, on_binding, interrupt | what is published, answered and obeyed agree |
| Energy Guard actor | `.../limitation/guard.rs`, `heartbeat.rs` | one record per peer: bindings, descriptions, requirement, outstanding write, acknowledged limit, backoff, beat freshness | attach, detach, require, events, `handle_timeout` | what is required is what the peer acknowledges in the end; nothing is written to a peer that cannot evaluate it |
| SHIP handshake | `src/ship/handshake.rs` | phase, trust, readiness, negotiated protocol, PIN states, timers | start, handle_message, set_trust, enter_pin, close, `handle_timeout` | both sides agree on trust, version, format and PIN; nobody waits for ever; a slow user is waited for |
| Connection driver | `src/runtime/connection.rs` | handshake, stream, keepalive | recv, send, close, run_handshake | every end of the stream is reported once |
| Hub | `src/runtime/hub.rs`, `src/ship/policy.rs` | links by SKI, handshakes in flight, pairing table, duplicates, remembered peers, sightings | next, dial, accept, adopt, approve, refuse, remember, close, browse | slots come back; one connection per peer in the end; a remembered peer is dialled again |
| Node, trust store | `src/runtime/node.rs`, `src/ship/trust.rs` | trusted peers with two levels, the paired unit, refusals | trust, distrust, award_pin_trust, save, restore | one commissioning tool; a user's decision reaches the handshake it was meant for |
| SPINE engine | `src/spine/engine.rs`, `counter.rs` | peers and their counters, pending requests, deferred writes, entities | read, write, notify, call, handle_datagram, `handle_timeout` | every request ends once and in one way; nothing is processed twice; tables stay within their limits |
| Bindings and subscriptions | `src/spine/relations.rs` | the two relation tables | add, record, remove | one controller for the features of a use case; no relation outlives its device or entity |
| Device model, discovery | `src/spine/device.rs`, `discovery.rs` | announced entity tree | add, modify, remove entity; absorb | a peer's tree equals what it announced |
| Restricted function exchange | `src/model/rfe.rs`, `src/codec/macros.rs` | stored and cached function data | write, update, delete by selectors and elements, partial read | what is shown is what is stored; a copy equals its original |
| Keys and pairing | `src/ship/keys.rs`, `pairing.rs` | usable, announced and retired keys; seen announcements; a request on the air | rotate, follow, evaluate, displace; announce, settle, withdraw | trust follows a renewal; a working unit is not displaced; a request stays up until one connection has held |
| Use-case tables | `src/usecases/descriptor.rs` and each use case | none | serve, locate | both ends and the features agree |
| Battery control | `src/usecases/cob.rs` | state, setpoint, control mode, timers | writes, heartbeat, timeouts | a battery nobody manages is freed; deadlines are exact |
| OHPCF | `src/usecases/ohpcf.rs` | the offered process, its schedule | offer, schedule, start, pause, stop | the manager sees the offer; late commands change nothing |
| E-mobility | `src/usecases/emobility/*` | limits per phase, profile, battery, bill | curtail, publish, learn, write | guard and car agree; values mean what they are described as |
| HVAC | `src/usecases/hvac/*` | modes, overrun, setpoints; a reader each | set mode, overrun, temperature | the appliance has what the unit has |
| Monitoring | `src/usecases/monitoring/*` and five use cases | values, descriptions; readings | publish, describe, learn, apply | a value is filed under what it measures |
| Time values | `src/model/time.rs` | none | parse, format, convert | calendar and texts are exact |

Interactions. The runtime feeds a connection's bytes to a handshake and, once
data exchange is open, its payloads to the engine. The engine turns datagrams
into events (`DataChanged`, `ResultReceived`, `SubscriptionGranted`, …) that the
application hands to the actors, and the actors call back into the engine to
read, write, notify and answer. The Energy Guard of one node writes onto the
Controllable System of another through two engines and a SHIP connection.

What is hard here: a decision (a user's, the grid's) that races a message; two
peers' timers that must respect each other's; callers that wake late; requests
that are refused, or never answered, while new ones are due; reconnections that
replace state; a write accepted by one layer and refused by the next. The
`hazards` list of `PROJECT.json` gives each with its line and with the properties
that would catch it.

## 2. The modules

### ControllableSystem

`cs` is the struct of `state.rs` as a record with the source's field names, `now`
the caller's clock and `answer` what the last operation told the peer (a ghost
that the action properties refer to). Operators `On...(c, ..., t)` are the
methods as functions of the record; the actions apply them to `cs`. `LimitWrite`
is the whole of the actor's `decide_limit`: the machine decides, the engine
stores, and an acceptance that could not be stored is taken back before anything
else happens. A value that is not a finite number is the constant `NotFinite`.

The environment: the guard may beat and write anything at any time; the device
may refuse, fail to store, and interrupt; `Timeout` may be called at any instant,
due or not; and `Tick` lets time pass up to `MaxLag` beyond `poll_timeout`. That
last guard is the only assumption on the caller: it wakes at most `MaxLag` late.

### ShipHandshake

`hs[n]` is the `Handshake` struct of each of two nodes joined by an ordered
stream (`outbox`, with the age of every message). Receiving dispatches on the
phase as `handle_message` does; `Decide` is `set_trust`; `Timeout` is
`handle_timeout` with its cascade over the expired timers; `Hangup` is what the
runtime does when the peer's socket ends; `Lose` makes the stream silent without
closing it. Timers are kept as the time left, so no clock is needed and the state
space is finite. A stream delivers every message within `around.latency` ticks unless
lost, which is what SHIP's own timers presume of a healthy connection.

Versions, formats, trust levels and PINs are small values; PIN checking is modelled
by whether the entered PIN is the right one, with the penalty after the attempts
the code counts.

### EnergyGuard

`peers[p]` is the guard's `Tracked` record; `deferred` holds requirements for peers
not attached yet; `subscribed` and `received` are the *peer's* side of the
heartbeat: whether it holds a subscription, and for how much longer a beat it has
received is fresh. Having both makes the guard's bookkeeping (`watches_heartbeat`,
`beat_seen_at`) something that can be wrong. Instants are kept as time left, and
every `since` as the time until it stops counting, which is all the code compares.

`WriteLimitIfDue(g, S)` is the code's `write_limit_if_due` for a set of peers: the
code calls it for one peer after another, and a beat sent for one counts for all,
but changes nothing another's write depends on except its freshness; so one beat
for the set has the same outcome as the sequence. The peer and the engine are
what the actor can observe of them: binding answers, descriptions, notifications,
results, requests that time out, grants of subscriptions, in any order.

### SpineEngine and RequestLedger

One engine with its relation tables and counter trackers. `peers` is the ordered
table of peer records; `pending`, `deferred`, `bindings`, `subscriptions` and
`held` are the tables filed under them; `owner[s]` stands for the data of a server
feature by the client whose write put it there. The environment: the application
asks and decides; peers send any datagram, in any order, any number of times and
with any reference; connections and the entity come and go; time passes.

Every datagram passes `Admit`: the duplicate check, and the peer record, which may
cost another peer its own. Each `...Arrives` or `...Called` action is then the
whole handler, the eviction included: what the evicted peer had filed goes in the
same step. A datagram that has no effect beyond that (addressed elsewhere,
malformed, not understood) is like a read. `HandleTimeout` treats all that is due
in one step, in the order of the table, as the code's loop does. `Request` is one
request; `start_discovery` and `discover` make two.

Replies, results and notifications are not kept: the engine never looks at them
again. Response delays are one constant, and so is the window for decisions.
`answered`, `timedOut`, `forgotten` and `processed` are ghosts: how requests ended, and which
counters were accepted of each peer since its record began or the peer restarted.

`RequestLedger` is the abstract specification: requests are open or have ended in
exactly one of three ways. `Ledger` maps a pending request to its name, so that
retries are stutters.

### Hub

`hub` is the `Hub` struct, `node` what `Node` shares with its handshakes (who is
trusted, who was refused), `tasks` the handshake tasks in flight, each a small
automaton (open, pending on trust, trusted, finished, failed) in place of
`ShipHandshake`, and `at` where `Hub::next` stands: top of the loop, arbitration,
timers, or the `select!`. So what runs between two awaits is one action and what
another task may do at an await is an interleaving. `world` fixes the surroundings:
limits, which peers exist, whose SKI is bigger, who is trusted, what the application
calls. Datagrams are counted and not read; a link learns its device from discovery.
Where the code drops several links in a loop, one step keeps the rest in their order
(`Kept`). The order in which remembered peers are redialled is left open
(`Redials`). `next` may be dropped while it dispatches an event (`DispatchCancelled`); its
other awaits are taken to complete (section 7). `NamesAssumption`, `LimitsAssumption` and `WorldsAssumption` say what the
proofs need of the constants: a node is not its own peer, and there is a source port for
every connection a hub may hold.

### TrustStore

Nodes with several keys, one of them current; `store` is the trust store with its two
levels per peer and the paired unit, `peerKeys` what the hub knows of a peer's keys,
`saved` what a restart brings back, `last` the last announcement of each link. A
request to pair is a set of facts (for this node, for this parameter set, well formed,
authentic, whom it names), because the digest is a function of them.

### Requester

The asking end of the pairing service, `Requester` of `pairing.rs`, driven as
`examples/steuerbox.rs` drives it. `requester` has the fields of the struct, an instant
kept as the time since then; `onAir` is what the mDNS responder does with the polled
actions, `connected` how long each connection has held, `complete` what the application
has recorded for its next start. Several connections may be up at once, as the hub
allows.

### CsActor and GuardBinding

Two views of `actor.rs` that share nothing the properties relate. `CsActor` puts
`ControllableSystem`, as an instance whose operators it applies, behind the features
it serves (`served`) and the audit log; each decision is one action with its publish
and its log. `GuardBinding` follows both bindings, discovery, the subscription and the
connection of two guards, and says whose heartbeat is counted. The engine's side of
it (bindings dropped with a peer, release events on request only) is in the module.
The machine of `CsActor` counts half watts, because the features serve whole ones
(`WholeWatts`: `from_f64` with no decimals, halves away from zero); the scaling of
numbers that do not fit 64 bits is left out.

### FunctionData and Discovery

`FunctionData` has one list function: entries with an identifier and two elements, a
server that stores, a client that keeps a copy. Commands, filters and selectors are
records; encoding is what `encode` does to them (an absent element stays absent, an
empty list is no list). Only kinds of element that are tags are distinguished, and
each command names an identifier once. `torn` remembers a write that failed after its
deletes; `synced`, that the client has been given the function.
`Discovery` is a device whose entities come, change and go, the two documents it
publishes and the client's picture of it. `missed` and `dropped` mark the two cases
in which the code lets the picture differ (section 4).

### UseCases and PreScenario

`UseCases` has the tables: per use case and actor, per scenario, which function of
which feature is served, read, written, how it is delivered and whether a binding is
needed. `Features` has the features the crate's constructors build, which are written in
other files than the tables. `PreScenario` puts a device on stage that plays one or two
use cases with those features, on one entity or with a second one beside it, announced
with or without the entity that plays (SPINE 1.1.1). Two managers locate it (`locate`),
bind what their tables say needs it (`relations.rs`), read, write, subscribe and leave;
a write that waits for the application is decided or abandoned. `ScenariosAreServed`
compares every answer with what both tables promise. Assumed: a use case's server
implements every scenario.

### The other use cases

`BatteryControl` is `cob.rs` as `ControllableSystem` is `state.rs`. `Ohpcf`,
`EvCharging`, `Hvac` and `Monitoring` each have both ends joined by streams that
deliver in order and as late as they like; connections may break and be restored.
In `EvCharging` the ghost `car.behind` says that the last publication was made in a
silence that `last_source` does not know of.
`EvProfile` is what a car publishes of itself and how `EvReader` puts values and their
descriptions together, in whatever order they come, with the rounding of `ScaledNumber`.
`EvSession` follows a manager that learns about a car and its station; its six topics
(keys, power, plain data, station, battery, bill) share no state and a behaviour follows
one. The car may be of this crate or number its entries otherwise. Subscriptions
precede reads there. `Measurands` is the vocabulary in which units describe what they
measure, and the reader that puts two descriptions together. `Times` turns a calendar
one day at a time as the reference for the date arithmetic.

### Deliberate slips

Definitions marked `Mutant:` are wrong on purpose: plausible slips in the code
they precede, used by `PROJECT.json` (`mutants`) to show that each property can
fail. Nothing in the specifications uses them.

## 3. What is model-checked

| Run | Instance | Result |
|---|---|---|
| `controllable_system` | `MC_ControllableSystem.cfg` | passes, 167 k states |
| `unstored_write` | `MC_UnstoredWrite.cfg` | violation (finding 1) |
| `ship_handshake` | `MC_ShipHandshake.cfg` | passes, 352 k states |
| `energy_guard` | `MC_EnergyGuard.cfg` | passes, 158 k states |
| `guard_spin` | `MC_GuardSpin.cfg` | violation (finding 2) |
| `guard_reconnect` | `MC_GuardReconnect.cfg` | violation (finding 3) |
| `spine_engine` | `MC_SpineEngine.cfg` | passes, 160 k states |
| `spine_stale_binding` | `MC_StaleBinding.cfg` | violation (finding 4) |
| `hub` | `MC_Hub.cfg` | passes, 127 k states |
| `parts` | `MC_Parts.cfg` | passes, 926 k states |
| `cs_reconnect` | `MC_CsReconnect.cfg` | violation (finding 5) |
| `car_publishes` | `MC_CarPublishes.cfg` | violation (finding 6) |

**controllable_system.** One time unit stands for 40 s, rounded so that strict and
non-strict comparisons fall on different ticks (write window 2, heartbeat and
settle timeouts 3, failsafe duration 4 or 5). `MaxTime = 11` lets a machine go
through a limit, lose its guard, sit out the failsafe duration and be released,
with a late wake-up in each. The writes cover open-ended, timed, zero-duration,
deactivating, negative and non-finite limits.

**ship_handshake.** Two kinds of configuration, chosen in the initial state. Users
who are still to be asked, on either side or on both, with different patience or too
little trust, up to two changes of mind, and messages that take a tick. And nodes that
trust each other and differ in versions, formats, PINs and key material, where seven
PIN attempts reach both penalties. In both the connection may go silent.
`ProlongThrInc`, the gap and the wait timers keep the order relations of the source's
constants. Liveness is checked under `FairSpec`.

**energy_guard.** One peer, two decisions of the grid and two adversities
(refusal, silence, a reported drift, a reconnection). Two adversities are enough
for a refusal to follow a reconnection and for a second backoff step. Safety for any number
of peers is proved (section 5).

**spine_engine.** Two devices with three client entities between them compete for
one peer record (so that any datagram may evict), two pending requests and one
write slot. Counters 1, 2 and 4 with a window of 2 and a restart threshold of 3 give
duplicates, an overtaken datagram, a jump past the window and a restart. How much
may happen is a budget per kind of event, chosen among seven in the initial state:
three for a device that asks (enough to overflow, and to retry through the whole
schedule with answers to old transmissions), four for one that serves (two bindings
and a write, a release in between, an entity that goes and comes back). The limits themselves are
proved for any values (section 5). Deadlock is not checked because a behaviour ends
with its budget, which is also how `NothingWaitsForever` says "once the application is quiet".

**hub.** Eight surroundings (`MCWorlds`), each made for a question: a known peer that
is redialled; double connections that the peer, or this node, arbitrates; a peer that
closes; two undecided peers and a pairing table of one; a node that finds itself; and
an mDNS sighting whose user approves or refuses. At most three connections and one
failure counted per peer: the delays of the second and later failures differ only in
length. Refusals, cancelled dials, failed handshakes and silent links end handshakes
and links in every way the code has.

**parts.** A behaviour runs one of fifteen components and leaves the variables of the
others where they start, so the state spaces add up instead of multiplying; each
property is conditional on its part and says nothing of the others. No two parts share
state, so nothing that one could do to another is lost. The bounds of each:

| Part | Bound | Enough for |
|---|---|---|
| battery | `MaxTime` 10, `MaxLag` 1 | control, silence, failsafe and release, each woken late |
| trust | two nodes, one with three keys; six scenarios | two renewals with a restart or a removal in between; two units and a replayed request; two PINs |
| ev | two phases, two writes, one beat | a refusal or a loss, then a limit; a clamp; a silence, noticed or met by a write |
| compressor | three commands, three changes of its own | a stop that crosses an end and the next offer |
| times | 31 years from each of four dates | leap days, centuries, 1970, the year 0 |
| binding | two guards, two releases and a loss | every order of two bindings, discovery and answers; a guard that releases and binds anew |
| actor | `MaxTime` 3, one record kept, half watts | a limit that follows a limit, runs out, is rounded, or is not stored |
| function | four operations, three entries | a delete and an update that cross a read |
| device | two changes, three paths | a subtree removed while its child is added |
| hvac, meter | two steps (also checked with three) | a change that crosses a write, a reattachment |
| scenarios | two use cases, two managers, one undecided write | features shared by two use cases; a write refused for want of room; a manager that leaves with a write undecided |
| session | two changes | a value before, between and after its description |
| requester | settled after 3, two connections, two restarts | a connection that takes over from another, a withdrawal at any point, a crash before and after the record |
| words | two values of one unit | two values that could be taken for each other |

**Fairness.** The runtime's loop polls the socket and sleeps until `poll_timeout`
for ever (`connection.rs`, `run_handshake`), which justifies weak fairness of
receiving, of the timers and of time. In `EnergyGuard`, weak fairness of
`Answered` is the engine's own response deadline: a request is answered or
reported as timed out. In `SpineEngine` the hub sleeps until the engine's
`poll_timeout` and then calls `handle_timeout`. In `Hub`, weak fairness of the loop is
the task being polled; strong fairness of the handshake tasks, the inbox, the
dispatching of events and the clock is what a scheduler and a biased `select!` give to
things that are ready again and again, interrupted only by the loop's own steps; and
the application is assumed not to answer every event by a call that queues another.
Users, applications and peers owe nothing.

`CHECK_DEADLOCK FALSE` is set where a behaviour may stop: a handshake that has ended,
a budget or a clock that is used up.

## 4. Findings

1. *An unstored limit write releases a limited system* (`state.rs:607`). The write
   is answered with an error, and the comments promise the previous limit.
2. *A refused write nobody wants any more leaves a deadline in the past*
   (`guard.rs:1071`): `retry_at` is not cleared, and `poll_timeout` reports it for ever.
3. *The requirement does not survive a reconnection* (`guard.rs:441`): the first
   write of the new connection deactivates, unless the application calls `require`
   again after every attach.
4. *A write outlives the binding that permitted it* (`engine.rs:1861`): the binding is
   checked on arrival and not when the application accepts, and a release leaves
   the client's waiting writes alone. The limit of the manager that has bound since is
   overridden by one that no longer may.
5. *A guard that comes back is not listened to* (`actor.rs:1035`): nothing clears
   `subscribed` when the guard's connection is lost, so its new bindings do not lead to a
   new subscription and the system goes into failsafe while its guard is there.
6. *A limit in force stays published as inactive* (`charging.rs:1670`). A write that
   meets a silence the car has not noticed is published inactive by `decide`, which leaves
   `last_source` as it was (`:1660`); the heartbeat that puts the limit in force then finds
   the source unchanged and `settle` does not publish. The comment at `:1500` says that
   `isLimitActive` says whether the limit is in force.

Observations made while modelling, without a run of their own:

- `close()` before data exchange makes `is_ready_for_data` true while closing
  (`handshake.rs:521`, `:581`).
- A node that requires no PIN may send data to one that still demands one, which
  ends the connection there; `MessagesAreExpected` states this exception.
- A node that requires a PIN waits for it with no timer (`handshake.rs:1232`);
  `SilenceIsNoticed` excludes that phase.
- `set_trust(Rejected)` after the hello phase is stored and has no effect
  (`handshake.rs:558`).
- A requirement set while a write is outstanding is sent at the next wake-up of
  the guard, a heartbeat at the latest, and not when the answer arrives.
- The guard does not react to a released heartbeat subscription: it keeps
  counting beats the peer no longer receives. `LimitIsHeard` speaks of peers that are
  subscribed.
- `refuse_pairing` keeps a refusal for a peer that is not waiting, and a later
  handshake of that peer consumes it, also after an approval (`node.rs:743`; the comment
  at `:738` says it means nothing then). Of two handshakes of one peer, one takes it.
- A counter exactly `WINDOW` ahead clears the window, after which the counter it
  came from, exactly `WINDOW` behind, is accepted a second time (`counter.rs:161`,
  `:182`). `DuplicatesAreRefused` says "less than the window".
- `remove_peer` drops pending requests without an event (`engine.rs:2556`); a result
  that arrives after `remove_entity` records a held relation for a feature that is
  gone.
- `BindingReleased` is attributed to a feature without looking at the client
  (`actor.rs:969`), and the engine reports the release of a binding that was never held
  (`engine.rs:2043`): together, a stranger's release makes the system forget its guard.
  Since a release forgets the `LoadControl` binding whichever was released, a guard that
  binds only `DeviceConfiguration` again holds both and is not followed; `GuardIsFound`
  speaks of guards that bound `LoadControl` after the last release.
- A guard that bound before it was discovered, was lost, and comes back after another
  has bound is subscribed to although it may not write (`actor.rs:1029`).
- A write of two failsafe values keeps the one that was accepted although the write is
  refused for the other (`actor.rs:1228`), and the features then serve the old value.
- A refused or unreadable limit that moves the machine is not published
  (`actor.rs:1114`); `ObeyedIsServed` speaks of the limit in force, which is.
- A delete that precedes a failing update is not taken back (`engine.rs:315`), and
  subscribers are not told; a fragment that cannot be merged costs the client the copy
  it had (`engine.rs:2256`). `CopyIsTrue` excludes the first (`torn`).
- A second write that waits for a decision is shown resolved against the data of its
  arrival and stored onto the data of its acceptance (`engine.rs:1742`).
- A change of a device's tree between its discovery reply and the grant of the
  subscription is told to nobody (`hub.rs:2029`), and a feature that is dropped stays in
  the client's document (`engine.rs:654`). `TreeIsMirrored` excludes both.
- Monitoring reads a feature before it subscribes to it (`monitoring/appliance.rs:643`)
  and drops values that come before their descriptions (`:248`); a parameter description
  that comes before the measurement description turns `unphased(YieldDay)`, as `moi.rs:39`
  publishes it, into a total (`:217`).
- HVAC: `OverrunFinished` is reported again by every overrun payload that repeats it
  (`hvac/appliance.rs:682`), and `set_temperature` acts on the mode last heard.
- Charging: a limit that could not be stored is answered with an error and followed
  (`charging.rs:1651`); a write the guard gives up may have been carried out (`:2014`).
  `AppliedIsHeld` excludes both, and `PublishedIsInForce` the case of finding 6 (the
  ghost `behind`). `narrowest` may return a minimum above the maximum
  when the bands of two phases are disjoint (`:665`).
- EV data that the car withdraws stays in the profile (`evcc.rs:510`).
- `settle` replaces the action that nobody has polled yet (`pairing.rs:817`): `withdraw`
  after a timeout has settled the request, and before its `Withdraw` was polled, leaves
  nothing to poll, and the responder keeps answering. `overruled` marks this case, which
  `RequestIsAnnounced` excludes.
- A retired key is never taken out of the trust store (`keys.rs:73`: "a peer that still
  trusts it SHALL stop").
- With one `DeviceConfiguration` feature for COB and LPC on one entity, the first
  manager to bind it shuts the other use case's manager out (`relations.rs:207`).

## 5. What is proved

**ControllableSystem_proofs** proves every property of the run, and three more
(`LimitedHasLimit`, `SequenceMeansControl`, `SilenceEndsControl`), for any set of
writes, any failsafe range and any `MaxLag`, with no bound on values. Most properties are
not inductive. The invariant adds: a controlled state implies a heartbeat was
heard, `entered_state_at`, `last_heartbeat` and `awaiting_write_since` are not in
the future, a state's deadline is at most `MaxLag` behind `now` (what `Tick`
guarantees), and a limited machine holds an active limit. `SilenceReleases` needs the
bound on each state's length separately: heartbeat timeout to leave control,
failsafe duration to leave failsafe, one late wake-up each.

**EnergyGuard_proofs** proves `TypeOK`, `LimitIsHeard` and `DeadlinesAdvance` for
any number of peers and any periods. The strengthening (`Coherence`) relates the
guard's bookkeeping to the peer's side: a peer the guard believes to be watching is
subscribed, the freshness the guard counts never exceeds what the peer received,
and it counts nothing for a peer that is not watching; a detached peer has the empty
record. Without it a beat counted for the wrong peer would satisfy the guard and
not the peer.

**SpineEngine_proofs** proves all safety properties of the run, for any devices,
features, retry schedule, window and limits, from the assumptions
`EngineAssumption` and `LimitsAssumption` (limits are positive, the restart
threshold is beyond the window). The parts of the argument:

- *Requests* (`RequestsInv`): names of pending requests are unique, below the next
  counter and disjoint from those that ended; a request without a device address is
  a read; one that waits for its retry has a retry left. Every step is shown to be a
  `LedgerStep`, which ends disjoint sets of requests in one way each, and such a
  step implements the ledger. The one subtle case is a datagram that answers a
  request and evicts a peer at once: the evicted peer is recorded and the sender is
  not, so no request is both answered and forgotten.
- *Peer records* (`EnteredKeeps`, `RemovePeerKeeps`): a full table loses one record, and
  not that of the sender. With it and `RequestsInv`, whatever a datagram files is
  filed under a record that exists (`FiledStep`).
- *Duplicates* (`AllRemember`): the window holds every counter processed that is less
  than its width behind. The property alone is not inductive, as it says nothing of
  what a shift carries along.
- *One controller* is inductive as it stands.

**ShipHandshake_proofs** proves `TypeOK`, `TrustIsMutual`, `RequiredPinIsProved` and
`NegotiationAgrees` for every pair of configurations (any versions, formats, PIN
requirements and trusts), all lengths of the timers and any latency, from
`TimesAssumption` and `ConfigsAssumption`. None of them is inductive, since what one
node may rely on is decided by a message its peer sent some time ago. The invariant
has three parts: what a node's own fields owe each other in each phase (`NodeOK`), what
the sender of a message on its way still stands by (`Fits`: a ready hello means that
its sender's approval stands, a `Select` that the server proposed exactly that, a PIN
that its sender knows it was asked), and what a node may conclude of its peer
(`Agree`). Each handler is shown to be `Good`: it takes back nothing it has said
(`Mono`) and learns nothing but from the message it reads (`Learns`). `KeepAgree` then
carries `Agree` over any step of either node.

The same module proves `MessagesAreExpected`, which is about the order of what is under
way and needs an invariant of its own (`XInv`). It also needs `DriverAssumption`: the
driver delivers decisions and never `Pending` (`connection.rs:594,599`), and can close
only a connection whose handshake it has finished (`connection.rs:321`). Without either the
property is false: a server that closed in the middle of the negotiation, for instance,
would abort over the announcement that is still under way to it. `XInv` says, of each node, what its phase allows it to
have sent and what may follow what (`Own`, `Posted`); of each stream, what its reader
will still find in it (`Stream`: nothing before the CMI, the PIN state before the
first data, an approval not overtaken by an older pending hello); and how far the two have
got with the one exchange whose messages answer each other (`Stage`: unannounced,
announced, selected, echoed, settled). From these a live reader expects the oldest
message of its stream (`MessageIsWelcome`), and each handler given such a message makes an
orderly step (`Turn`), which keeps the stream it writes (`StreamOut`), the one it reads
(`StreamInRead`) and the stage (`StageClient`, `StageServer`).

**Hub_proofs** proves `SlotsAreKept` and `DoublesAreWatched` for any peers, ports, limits
and surroundings. `HubInvariant` has two parts. `Table` is about the hub's own tables:
types, limits, and `Watch`, that of two links to one peer the list of doubles knows. `Slots`
compares them with the tasks that run: the counters of what is in flight (`Counts`), the
entries of the pairing table (`Pairings`) and the marks of peers being dialled
(`Dialings`). The properties alone are not inductive, since what a finished task releases
depends on how it was started; the invariant adds which phases of a handshake know their peer.
What `Kept` leaves of a sequence is shown by the rank of each index instead of by an
induction over the links, and that an accepted connection finds a free port is a
pigeonhole argument. There is one lemma per action.

**TrustStore_proofs** has two subjects. For any devices with any number of keys, any
requests and any replay capacity: at most one commissioning tool, and trust that follows
a renewal (`TrustIsKept`), and a unit that was heard from is not displaced
(`UnitIsSpared`). `TrustConstants` says what keys are: distinct, nobody else's. The
invariant (`TIInv`) relates four pieces of state that the property does not mention
together: which of its keys a device uses and has announced (`KeysAt`), how current each
record of it is (`CountersOK`), which keys on record are trusted (`RecordsKept`), and all
of this again of what was saved, since a restart brings it back. For any settling time and any
connections: a request is on the air exactly until it is withdrawn for good
(`RequestStaysAnnounced`). `RIInv` adds that what is pending agrees with the
state (an `Announce` only while announcing, a `Withdraw` only after) and that a settled
request has no clock.

**Actors_proofs** is about the actors of the use cases and what they read and write. The
components that do not share the Controllable System's state are instances in it
(`Calendar`, `Pump`, `Car`, `Mirror`, `Words`, `Unit`, `Meter`).

- *The guard* (`GuardFound`), for any number of guards and every order of bindings,
  discoveries, grants and releases, until a connection is lost. `GIInv`: the bindings the
  actor saw are ones the engine holds, the guard it took holds the limit's binding, and the
  heartbeat that is followed, or asked for, is the guard's; without releases the actor has
  seen every binding. Losses are assumed away because the result is false after one
  (finding 5).
- *The limit* (`LimitServed`), for all settings of the machine and any writes: the feature
  serves the limit after every operation, timeouts included, and the accepted write
  nearest the end of the log is that limit; that a log which drops its oldest records still
  ends in it takes the well-ordering of the record numbers.
- *Dates and durations* (`EveryDateIsCounted`, `EveryDurationIsRead`, `TurnedIsTold`), for
  every year. `DaysFromCivil` and its inverse are taken apart into eras of 400 years,
  centuries, spans of four years, years from March and months; each level is a division
  with a remainder (`Dividing`). A text has at most three components of a kind, so that the
  sum the parser forms is found by cases. The calendar's own invariant (`Turned`) is
  that count and date agree.
- *The compressor* (`OfferFollowed`, `LateCommandsAreRefused`). `PumpInv`: the feature
  serves the compressor's own state, and the manager has the latest document, or it is the
  last on its way, or a read is due behind the subscription.
- *The car* (`ChargingAgrees`), from `CarConstants` (a limit's number means one phase, and so
  on). Its side says that what it publishes as active is what it follows, and the converse
  as long as the last publication was not made in a silence `last_source` does not know of
  (`behind`, finding 6): it relates `last_source` to the source of the current. The guard's
  side says that the numbers of its writes ascend, that the one outstanding is the last, that a write on its
  way carries what is asked and a confirmation on its way is of what the car holds.
- *The device tree* (`TreeFollowed`), from `DeviceConstants` (the tree fits the limit on
  entries). `Mirrored`: there is a list of trees, one for each notification on its way, that
  leads from the client's picture to the device's; each notification turns the
  picture of one into that of the next. The list is existential, which is what
  takes the place of an induction over the stream.
- *The vocabularies* (`MeaningFollowed`): in each the scope leads back to the quantity and,
  unless it leaves them open, to the phases (`ScopeLeadsBack`).
- *The HVAC unit* (`UnitFollowed`), from `HvacConstants`. `UnitInv` says for each function of
  the protocol that a read is due behind its subscription, or that the appliance is
  subscribed and the latest payload is the last of its kind on its way, or has been
  heard; and that the application has been told what follows from the readers.
- *The measured unit* (`ReadingsFollowed`), from `MeterConstants`. Values mean nothing
  without their phases, so `MeterInv` orders two things along one wire: the phases are
  known behind everything that is under way (`Labelling`), and the latest values come
  behind the read that tells the phases (`Valued`). Looking for this invariant showed that
  the ghost `relabelled` had to survive a later measurement while the parameters are
  missed (`StillRelabelled`): with two values per phase the property would otherwise have
  claimed more than the code gives.

**Parts_proofs** begins with `BatteryControl`: the three parts of `BatteryIsTimed` (types,
exact deadlines, a battery nobody manages is free again in time) for all timers, failsafe
durations, writes and any `MaxLag`, from `BatteryTimers` and `BatteryInputs`. The
invariant (`Sound`) bounds every state's age by its own timer plus one late wake-up. The
failsafe state has two bounds (`FailsafeBounded`): its duration while the silence lasts,
and the settle timer from the first heartbeat on, whatever duration the manager writes
meanwhile. With one bound only the invariant is not inductive.

It then states the results about components of `PSpec`, the composition that TLC checks:
one lemma says that a step of the composition is a step of the part that runs
(`OnePartMoves`); others, that the instance of a component in `MC_Parts` and the one in the
proofs are the same specification (`SameBinding`, `SameCar`, `SameDevice`, `SameMeter`,
...), and that the run's constants meet the assumptions (`CarIsOrdinary`, `DeviceFits`,
`UnitIsOrdinary`, ...).

Only model-checked:

- Liveness (`RequirementReaches`, `OpeningWriteIsSent`, `SilenceIsNoticed`,
  `ApprovalOpens`, `NothingWaitsForever`, `DoublesEnd`, `RememberedAreDialed`), which is
  outside the prover's reach.
- `OneSlowUserIsWaitedFor`, which rests on the latency being shorter than every timer and
  on the phase difference of two clocks.
- `CopyIsTrue`, and with it the half of `CommandsAreCarriedOut` that is about
  `FunctionData`: what a write leaves of a list is a fold of its entries, and the library's
  folds are recursive functions whose value for every list needs an induction. The
  compressor's half is proved (`LateCommandsAreRefused`).
- The scenarios of `PeersAreFound`, which are statements about tables that TLC evaluates
  completely, and what a manager knows of a car (`EvSession`). The requester's part of it is proved
  (`RequestAlwaysAnnounced`).
- `BoundGuardIsFollowed`, which the code violates after a lost connection (finding 5), and
  `InForceIsPublished`, which it violates after a write in an unnoticed silence
  (finding 6). What remains true of each is proved (`GuardFound`, `ChargingAgrees`).

## 6. Plan

What would come next, in this order: the Controllable System actor composed with the
Energy Guard over an unreliable connection (`CsActor`, `GuardBinding`, `EnergyGuard`);
several cars at one charging guard; the routing of datagrams over connections that come
and go (`Hub` with `SpineEngine`); `FunctionData` without folds, so that `CopyIsTrue` can be
proved; a run each for the observations of section 4.

## 7. Not modelled

Where a property says less than its name: `OneCommissioningTool` says that no two peers
hold the level, which is more than that no two gain it with the PIN (`node.rs:465`). The
entities of MOB and MOI are declared from the tables, so that for these two the served
scenarios hold by definition. `WriteSparesUnnamed` is about partial writes that are
carried out at once and have no delete filter.

Of the engine: the choice of recipients of a notification, datagrams without a source
device (the answer to an opening read that names none) and `insert_binding` /
`insert_subscription`, which restore relations from outside the protocol and which
nothing in the library calls. The binding policy is the default, `SinglePerFeature`.
The limit on remembered functions per peer (`MAX_REMOTE_FUNCTIONS`, `engine.rs:2273`).
Of discovery: delete filters (`engine.rs:2170`), the partial merge of use cases (`:2216`)
and the removal of single features (`discovery.rs:296`), none of which this crate's own
notifications use; the run's trees stay within `MAX_ENTRIES`. Of the hub: a `next` that is
dropped at an await outside dispatch. While it flushes a reply or sends a ping that leaves
`writing` set, and the next call drops the link, as after dispatch (`hub.rs:1693`, `:2157`,
`:2353`). While it refuses a text frame (`:1725`) the link has been removed, `writing` is
not set and `forget_peer_state` never runs, so what was filed under that peer stays.
Of the data: delete filters in a peer's notification and a fragment that cannot be merged,
which costs the held copy (`engine.rs:2264`); lists with several identifiers and elements that are lists or structures
themselves; units, commodities and directions of measured values; character-level
parsing of times, addresses and QR codes. Of the use cases: managers of COB; more than
one unit, car or compressor at one manager; EVCEM, which is an instance of
`Monitoring`.

TLS, WebSocket framing and JSON are I/O and serialisation. The generated data model
has no control. Examples, benches, the code generator and the conformance harness are
not part of the library's logic. mDNS is an external service.
