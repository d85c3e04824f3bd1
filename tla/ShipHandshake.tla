---------------------------- MODULE ShipHandshake ----------------------------
(***************************************************************************)
(* The SHIP connection handshake of src/src/ship/handshake.rs, both ends   *)
(* of it: the dialling node ("Client") and the accepting one ("Server"),   *)
(* each running the Handshake state machine of the crate, joined by the    *)
(* reliable, ordered byte stream a WebSocket over TLS is, and driven the   *)
(* way run_handshake and ShipConnection (runtime/connection.rs) drive it:  *)
(* what the machine queues is sent before anything else is read, a timer   *)
(* wakes it when it falls due, a change of the trust store delivers a      *)
(* decision, and an opened connection may be closed, asked for its key     *)
(* material and used for data.                                             *)
(*                                                                         *)
(* Time.  The code keeps instants (now + d) and only ever compares them    *)
(* with a later now, so every timer is kept here as the time that is left; *)
(* a deadline in the past reads 0.  The clock is then no state at all and  *)
(* the prolongation of a pending hello runs round a finite graph for ever. *)
(* Tick lets one unit pass; it waits for due timers to be served and for   *)
(* messages older than the latency to be delivered.                            *)
(*                                                                         *)
(* Losing the connection is silent (a cable, a dead peer without a FIN):   *)
(* nothing is delivered any more and only timers can end the handshake.    *)
(***************************************************************************)
EXTENDS Integers, Sequences, FiniteSets

CONSTANTS
    Configs,             \* the pairs of HandshakeConfigs the two nodes may have,
                         \* with what happens around each: see Surroundings
    CmiTimeout,          \* cmi_timeout
    WaitTimer,           \* wait_timer
    CloseMaxTime,        \* the max_time the driver closes with
    StateResponseTimeout,\* STATE_RESPONSE_TIMEOUT of a keyMaterialState
    PinPenaltyShort,     \* PIN_PENALTY_SHORT
    PinPenaltyLong,      \* PIN_PENALTY_LONG
    ProlongThrInc,       \* T_HELLO_PROLONG_THR_INC
    ProlongWaitingGap,   \* T_HELLO_PROLONG_WAITING_GAP
    ProlongMin,          \* T_HELLO_PROLONG_MIN
    Decisions,           \* the trusts a change of the trust store may deliver
    PinEntries,          \* the PINs a user may type ("right", "wrong")
    MaxPinAttempts,      \* bound: PINs typed are no more than this many refusals
    DataSenders,         \* the nodes that send SPINE data as soon as they may
    CanLose              \* whether the connection may go silent

Node == {"Client", "Server"}
Peer(n) == IF n = "Client" THEN "Server" ELSE "Client"

None == -1

\* Trust is the user trust level of §12.3.2, or one of two levels of its own.
Pending  == -1
Rejected == -2
MIN_USER_TRUST      == 8
COMMISSIONING_TRUST == 32
Trusts == {Pending, Rejected} \cup 0 .. 40

Phases == {"Cmi", "Hello", "ProtocolHandshake", "Pin", "DataExchange",
           "Closing", "Closed", "Aborted"}
PinStates == {"None", "Required", "Optional", "PinOk"}
AbortReasons == {"Timeout", "UnexpectedMessage", "SelectionMismatch",
                 "TrustRejected", "PeerAborted", "Closed"}

ASSUME TimesAssumption ==
    /\ {CmiTimeout, WaitTimer, CloseMaxTime, StateResponseTimeout,
        PinPenaltyShort, PinPenaltyLong, ProlongMin} \subseteq Nat \ {0}
    /\ {ProlongThrInc, ProlongWaitingGap, MaxPinAttempts} \subseteq Nat
    /\ Decisions \subseteq Trusts
    /\ PinEntries \subseteq {"right", "wrong"}
    /\ DataSenders \subseteq Node
    /\ CanLose \in BOOLEAN

\* What a node's surroundings do: how many ticks its messages may be under way,
\* how many decisions the trust store delivers (a bound), the phases in which
\* the driver may call close, and how few messages have to be under way for
\* applications to send another (a bound).
Surroundings == [latency : Nat, decisions : Nat, closes : SUBSET Phases, queue : Nat]

ASSUME ConfigsAssumption ==
    Configs \subseteq
      [Node -> [trust : Trusts, hello_init : Nat \ {0}, max_version : Nat,
                formats : Seq(STRING), pin : {"None", "Required", "Optional"},
                peer_pin : {"none", "right", "wrong"},
                key_material : BOOLEAN, around : Surroundings]]

\* What drives the handshake never takes a decision back to undecided
\* (run_handshake delivers a refusal or a level, connection.rs:594,599) and
\* can call close only on what run_handshake has returned (connection.rs:321).
ASSUME DriverAssumption ==
    /\ Pending \notin Decisions
    /\ \A c \in Configs, n \in Node :
         c[n].around.closes \cap {"Cmi", "Hello", "ProtocolHandshake"} = {}

VARIABLES
    config,     \* [Node -> HandshakeConfig], fixed for the connection
    hs,         \* [Node -> Handshake]
    lost,       \* whether the connection has gone silent
    decided     \* [Node -> Nat]: decisions the driver has delivered

vars == <<config, hs, lost, decided>>

(***************************************************************************)
(* The messages, by what the receiver looks at.  A version is 100 times    *)
(* its major number plus its minor number, which orders as ShipVersion     *)
(* does; waiting = None is an absent element.                              *)
(***************************************************************************)
Cmi == [kind |-> "Cmi"]
ConnectionHello(phase, waiting, prolongation) ==
    [kind |-> "Hello", phase |-> phase, waiting |-> waiting,
     prolongation |-> prolongation]
Protocol(type, version, formats) ==
    [kind |-> "Protocol", type |-> type, version |-> version,
     formats |-> formats]
ProtocolError == [kind |-> "ProtocolError"]
PinState(state, busy) == [kind |-> "PinState", state |-> state, busy |-> busy]
PinInput(pin) == [kind |-> "PinInput", pin |-> pin]
PinError == [kind |-> "PinError"]
ConnectionClose(phase) == [kind |-> "Close", phase |-> phase]
Data == [kind |-> "Data"]
KeyMaterialState == [kind |-> "KeyMaterialState"]
KeyMaterialStateResponse == [kind |-> "KeyMaterialStateResponse"]
KeyMaterialStateRequest(stale) ==
    [kind |-> "KeyMaterialStateRequest", stale |-> stale]
AccessMethodsRequest == [kind |-> "AccessMethodsRequest"]
AccessMethods == [kind |-> "AccessMethods"]

(***************************************************************************)
(* Timers and the Handshake record.  hello_announced_pending, cmi_sent and *)
(* the instants key_material_sent_at and pin_penalty_until carry nothing   *)
(* the timers below do not.                                                *)
(***************************************************************************)
NoTimers ==
    [cmi |-> None, wait_for_ready |-> None, send_prolongation |-> None,
     prolongation_reply |-> None, wait |-> None, pin_penalty |-> None,
     close |-> None, key_material |-> None]

TimerNames == DOMAIN NoTimers

\* poll_timeout: is there an instant to be woken at at all.
Armed(h) == \E t \in TimerNames : h.timers[t] # None
Due(h, t) == h.timers[t] = 0
Served(h, t) == [h EXCEPT !.timers[t] = None]

Send(h, m) == [h EXCEPT !.outbox = Append(@, [msg |-> m, age |-> 0])]

New(n, c) ==
    Send([phase |-> "Cmi", trust |-> c.trust,
          local_ready |-> FALSE, remote_ready |-> FALSE,
          peer_waiting |-> None, peer_deadline |-> None,
          proposed |-> <<>>, negotiated |-> <<>>,
          key_material_resent |-> FALSE,
          local_pin_state |-> c.pin, peer_pin_state |-> "Unknown",
          peer_pin |-> c.peer_pin, pin_attempts |-> 0,
          timers |-> [NoTimers EXCEPT !.cmi = CmiTimeout],
          outbox |-> <<>>, reason |-> "None"], Cmi)

Ended(h) == h.phase \in {"Aborted", "Closed"}

IsReadyForData(h) == h.phase \in {"DataExchange", "Closing"}

\* Mutant: an abandoned handshake leaves its timers running.
AbortKeepingTimers(h, reason) ==
    IF Ended(h) THEN h
    ELSE [h EXCEPT !.phase = "Aborted", !.reason = reason]

Abort(h, reason) ==
    IF Ended(h) THEN h
    ELSE [h EXCEPT !.phase = "Aborted", !.timers = NoTimers, !.reason = reason]

Finish(h) ==
    IF Ended(h) THEN h
    ELSE [h EXCEPT !.phase = "Closed", !.timers = NoTimers, !.reason = "Closed"]

(***************************************************************************)
(* PIN.                                                                    *)
(***************************************************************************)
\* send_pin_state: what this node demands, and whether input is refused now.
SendPinState(h) ==
    Send(h, PinState(h.local_pin_state,
                     /\ h.local_pin_state \in {"Required", "Optional"}
                     /\ h.timers.pin_penalty # None))

PinWanted(h) ==
    /\ h.phase \in {"Pin", "DataExchange"}
    /\ h.peer_pin_state \in {"Required", "Optional"}

\* send_pin_if_permitted: the PIN goes out once, and only above level 32.
SendPinIfPermitted(h) ==
    IF /\ PinWanted(h)
       /\ h.trust >= COMMISSIONING_TRUST
       /\ h.peer_pin # "none"
    THEN [Send(h, PinInput(h.peer_pin)) EXCEPT !.peer_pin = "none"]
    ELSE h

\* Mutant: data exchange opens before the peer's PIN has been seen.
TryFinishPinUnproved(h) ==
    IF h.phase = "Pin" /\ h.peer_pin_state # "Unknown"
    THEN [h EXCEPT !.phase = "DataExchange", !.timers.wait = None]
    ELSE h

TryFinishPin(h) ==
    IF /\ h.phase = "Pin"
       /\ h.local_pin_state \in {"None", "PinOk", "Optional"}
       /\ h.peer_pin_state # "Unknown"
    THEN [h EXCEPT !.phase = "DataExchange", !.timers.wait = None]
    ELSE h

EnterPin(h) ==
    SendPinState([h EXCEPT !.phase = "Pin", !.timers.wait = WaitTimer])

OnPinState(h, m) ==
    LET seen == [h EXCEPT !.timers.wait = None, !.peer_pin_state = m.state]
        asked == m.state \in {"Required", "Optional"} /\ ~m.busy
    IN  TryFinishPin(IF asked /\ h.peer_pin # "none"
                     THEN SendPinIfPermitted(seen) ELSE seen)

PinPenalty(attempts) ==
    IF attempts >= 6 THEN PinPenaltyLong
    ELSE IF attempts >= 3 THEN PinPenaltyShort ELSE None

\* on_pin_input: refused unread during a penalty, else verified and counted.
OnPinInput(n, h, m) ==
    IF h.timers.pin_penalty # None THEN SendPinState(h)
    ELSE IF config[n].pin # "None" /\ m.pin = "right"
    THEN TryFinishPin(Send([h EXCEPT !.local_pin_state = "PinOk"],
                           PinState("PinOk", FALSE)))
    ELSE LET refused == Send([h EXCEPT !.pin_attempts = @ + 1], PinError)
             penalty == PinPenalty(refused.pin_attempts)
         IN  IF penalty = None THEN refused
             ELSE SendPinState([refused EXCEPT !.timers.pin_penalty = penalty])

(***************************************************************************)
(* Protocol handshake: the client announces its maximum, the server        *)
(* selects, the client echoes the selection.                               *)
(***************************************************************************)
SendProtocolError(h) ==
    IF h.phase = "ProtocolHandshake" THEN Send(h, ProtocolError) ELSE h

Mismatch(h) == Abort(SendProtocolError(h), "SelectionMismatch")

\* Mutant: both ends announce their maximum, whatever their role.
EnterProtocolHandshakeAnnouncing(n, h) ==
    Send([h EXCEPT !.phase = "ProtocolHandshake", !.timers.wait = WaitTimer],
         Protocol("AnnounceMax", config[n].max_version, config[n].formats))

EnterProtocolHandshake(n, h) ==
    LET g == [h EXCEPT !.phase = "ProtocolHandshake", !.timers.wait = WaitTimer]
    IN  IF n = "Client"
        THEN Send(g, Protocol("AnnounceMax", config[n].max_version,
                              config[n].formats))
        ELSE g

\* select_version and supports_version: the lower maximum, major at least 1.
SelectVersion(n, m) ==
    IF m.version < config[n].max_version THEN m.version
    ELSE config[n].max_version
SupportsVersion(n, v) == v >= 100 /\ v <= config[n].max_version

Elements(s) == {s[i] : i \in DOMAIN s}

\* select_format: the first of ours that the peer also offers.
CommonFormats(n, m) ==
    {i \in DOMAIN config[n].formats :
        config[n].formats[i] \in Elements(m.formats)}
SelectFormat(n, m) ==
    config[n].formats[CHOOSE i \in CommonFormats(n, m) :
                        \A j \in CommonFormats(n, m) : i <= j]

OnAnnounceMax(n, h, m) ==
    IF m.type # "AnnounceMax"
    THEN Abort(SendProtocolError(h), "UnexpectedMessage")
    ELSE IF SelectVersion(n, m) < 100 \/ CommonFormats(n, m) = {}
    THEN Mismatch(h)
    ELSE LET version == SelectVersion(n, m)
             format == SelectFormat(n, m)
             select == Protocol("Select", version, <<format>>)
         IN  Send([h EXCEPT !.proposed = <<select>>,
                            !.negotiated = <<version, format>>,
                            !.timers.wait = WaitTimer], select)

OnConfirmation(h, m) == IF h.proposed = <<m>> THEN EnterPin(h) ELSE Mismatch(h)

\* Mutant: the client settles on its own maximum and echoes the server's.
OnSelectKeepingOwnVersion(n, h, m) ==
    IF m.type # "Select"
    THEN Abort(SendProtocolError(h), "UnexpectedMessage")
    ELSE EnterPin(Send([h EXCEPT !.negotiated =
                          <<config[n].max_version, m.formats[1]>>], m))

OnSelect(n, h, m) ==
    IF m.type # "Select"
    THEN Abort(SendProtocolError(h), "UnexpectedMessage")
    ELSE IF /\ SupportsVersion(n, m.version)
            /\ Len(m.formats) = 1
            /\ m.formats[1] \in Elements(config[n].formats)
    THEN EnterPin(Send([h EXCEPT !.negotiated = <<m.version, m.formats[1]>>], m))
    ELSE Mismatch(h)

OnProtocolHandshake(n, h, m) ==
    IF h.phase # "ProtocolHandshake" THEN Abort(h, "UnexpectedMessage")
    ELSE LET g == Served(h, "wait")
         IN  IF n = "Client" THEN OnSelect(n, g, m)
             ELSE IF g.proposed = <<>> THEN OnAnnounceMax(n, g, m)
             ELSE OnConfirmation(g, m)

(***************************************************************************)
(* Hello: both users have to approve the other's key.                      *)
(***************************************************************************)
\* Mutant: the peer's approval is taken for both.
TryFinishHelloOneSided(n, h) ==
    IF h.remote_ready
    THEN EnterProtocolHandshake(n,
           [h EXCEPT !.timers.wait_for_ready = None,
                     !.timers.send_prolongation = None,
                     !.timers.prolongation_reply = None])
    ELSE h

TryFinishHello(n, h) ==
    IF h.local_ready /\ h.remote_ready
    THEN EnterProtocolHandshake(n,
           [h EXCEPT !.timers.wait_for_ready = None,
                     !.timers.send_prolongation = None,
                     !.timers.prolongation_reply = None])
    ELSE h

\* Mutant: a pending node does not ask a peer that is already ready.
ArmProlongationUnlessReady(n, h) ==
    LET patience == IF h.peer_deadline = None THEN config[n].hello_init
                    ELSE h.peer_deadline
        at == patience - ProlongWaitingGap
    IN  [h EXCEPT !.timers.send_prolongation =
           IF h.local_ready \/ h.remote_ready THEN None
           ELSE IF at < ProlongMin THEN 0 ELSE at]

\* arm_prolongation: a pending node asks ProlongWaitingGap before the instant
\* at which the peer said its patience ends.
ArmProlongation(n, h) ==
    LET announced == IF h.peer_waiting = None THEN config[n].hello_init
                     ELSE h.peer_waiting
        patience == IF h.peer_deadline = None THEN config[n].hello_init
                    ELSE h.peer_deadline
        at == patience - ProlongWaitingGap
    IN  [h EXCEPT !.timers.send_prolongation =
           IF h.local_ready \/ announced < ProlongThrInc THEN None
           ELSE IF at < ProlongMin THEN 0 ELSE at]

HelloPhase(h) == IF h.local_ready THEN "Ready" ELSE "Pending"

SendProlongationRequest(n, h) ==
    LET window == IF h.peer_waiting = None THEN config[n].hello_init
                  ELSE IF h.peer_waiting < ProlongMin THEN ProlongMin
                  ELSE h.peer_waiting
    IN  [Send(h, ConnectionHello(HelloPhase(h), config[n].hello_init, TRUE))
           EXCEPT !.timers.prolongation_reply = window]

\* Mutant: the request is answered, but the timer it is about is not extended.
AcceptProlongationInWordOnly(n, h) ==
    Send(h, ConnectionHello(HelloPhase(h), config[n].hello_init, FALSE))

AcceptProlongation(n, h) ==
    [Send(h, ConnectionHello(HelloPhase(h), config[n].hello_init, FALSE))
       EXCEPT !.timers.wait_for_ready = config[n].hello_init]

\* announce_hello: ready, pending, or (below the floor, or refused) aborted.
AnnounceHello(n, h) ==
    IF h.trust = Pending \/ h.trust >= MIN_USER_TRUST
    THEN LET ready == h.trust # Pending
             wait == config[n].hello_init
             hello == ConnectionHello(IF ready THEN "Ready" ELSE "Pending",
                                      wait, FALSE)
         IN  ArmProlongation(n,
               [Send(h, hello) EXCEPT !.local_ready = @ \/ ready,
                                      !.timers.wait_for_ready = wait])
    ELSE Abort(Send(h, ConnectionHello("Aborted", None, FALSE)),
               "TrustRejected")

\* Mutant: a pending node keeps its own patience running against a ready peer.
HearReadyImpatiently(n, h) ==
    TryFinishHello(n, [h EXCEPT !.remote_ready = TRUE,
                                !.timers.prolongation_reply = None])

\* What a ready or pending hello does to this node before any answer.
HearReady(n, h) ==
    TryFinishHello(n,
      [h EXCEPT !.remote_ready = TRUE,
                !.timers.prolongation_reply = None,
                !.timers.wait_for_ready = IF h.local_ready THEN @ ELSE None])

HearPending(h) ==
    [h EXCEPT !.remote_ready = FALSE, !.timers.prolongation_reply = None]

OnHello(n, h, m) ==
    LET noted == IF m.waiting = None THEN h
                 ELSE [h EXCEPT !.peer_waiting = m.waiting,
                                !.peer_deadline = m.waiting]
        heard == IF m.phase = "Aborted" THEN Abort(noted, "PeerAborted")
                 ELSE IF m.phase = "Pending" THEN HearPending(noted)
                 ELSE IF ~h.local_ready /\ m.waiting = None
                 THEN Abort(noted, "UnexpectedMessage")
                 ELSE HearReady(n, noted)
    IN  IF h.phase # "Hello" THEN h
        ELSE IF heard.phase # "Hello" THEN heard
        ELSE ArmProlongation(n, IF m.prolongation
                                THEN AcceptProlongation(n, heard) ELSE heard)

OnCmi(n, h) ==
    IF h.phase # "Cmi" THEN Abort(h, "UnexpectedMessage")
    ELSE AnnounceHello(n, [h EXCEPT !.phase = "Hello", !.timers.cmi = None])

(***************************************************************************)
(* Key material, close and the timers.                                     *)
(***************************************************************************)
SendKeyMaterial(n, h) ==
    IF config[n].key_material /\ IsReadyForData(h)
    THEN [Send(h, KeyMaterialState) EXCEPT
            !.key_material_resent = FALSE,
            !.timers.key_material = StateResponseTimeout]
    ELSE h

\* The answer to a request goes only where what the peer knows is stale.
OnKeyMaterialStateRequest(n, h, m) ==
    IF m.stale THEN SendKeyMaterial(n, h) ELSE h

OnKeyMaterialStateResponse(h) ==
    [h EXCEPT !.key_material_resent = FALSE, !.timers.key_material = None]

\* The second silence ends the connection, the first resends.
KeyMaterialUnanswered(h) ==
    IF h.key_material_resent
    THEN Abort([h EXCEPT !.key_material_resent = FALSE], "Timeout")
    ELSE [Send(h, KeyMaterialState) EXCEPT
            !.key_material_resent = TRUE,
            !.timers.key_material = StateResponseTimeout]

OnClose(h, m) ==
    IF m.phase = "Announce" THEN Finish(Send(h, ConnectionClose("Confirm")))
    ELSE Finish(h)

Close(h) ==
    IF h.phase \in {"Closed", "Aborted", "Closing"} THEN h
    ELSE Send([h EXCEPT !.phase = "Closing", !.timers.close = CloseMaxTime],
              ConnectionClose("Announce"))

\* handle_timeout, timer by timer in the order the code looks at them.
HandleTimeout(n, h) ==
    LET asked == IF Due(h, "send_prolongation")
                 THEN SendProlongationRequest(n, Served(h, "send_prolongation"))
                 ELSE h
        resent == IF Due(asked, "key_material")
                  THEN KeyMaterialUnanswered(Served(asked, "key_material"))
                  ELSE asked
        freed == IF Due(resent, "pin_penalty")
                 THEN SendPinState(Served(resent, "pin_penalty"))
                 ELSE resent
    IN  IF Due(h, "cmi") THEN Abort(h, "Timeout")
        ELSE IF Due(h, "wait") THEN Abort(SendProtocolError(h), "Timeout")
        ELSE IF Due(asked, "prolongation_reply") THEN Abort(asked, "Timeout")
        ELSE IF Due(asked, "close") THEN Finish(asked)
        ELSE IF Due(freed, "wait_for_ready") THEN Abort(freed, "Timeout")
        ELSE freed

\* Mutant: the answer to the trust question is given and not announced.
SetTrustInSilence(n, h, trust) ==
    LET g == [h EXCEPT !.trust = trust, !.local_ready = trust >= MIN_USER_TRUST]
    IN  IF h.phase = "Hello" THEN TryFinishHello(n, g) ELSE g

SetTrust(n, h, trust) ==
    LET g == [h EXCEPT !.trust = trust]
    IN  IF h.phase = "Hello" THEN TryFinishHello(n, AnnounceHello(n, g)) ELSE g

-----------------------------------------------------------------------------
(***************************************************************************)
(* The two nodes and the stream between them.  A node's outbox is its half *)
(* of the stream: what it has sent and the peer has not yet read.          *)
(***************************************************************************)
Init ==
    /\ config \in Configs
    /\ hs = [n \in Node |-> New(n, config[n])]
    /\ lost = FALSE
    /\ decided = [n \in Node |-> 0]

Incoming(n, kind) ==
    /\ ~lost
    /\ hs[Peer(n)].outbox # <<>>
    /\ Head(hs[Peer(n)].outbox).msg.kind = kind

Received(n) == Head(hs[Peer(n)].outbox).msg

\* n reads one message and is left as h; a finished handshake refuses it.
Read(n, h) ==
    /\ hs' = [hs EXCEPT ![n] = IF Ended(hs[n]) THEN hs[n] ELSE h,
                        ![Peer(n)].outbox = Tail(@)]
    /\ UNCHANGED <<config, lost, decided>>

ReceiveCmi(n) == Incoming(n, "Cmi") /\ Read(n, OnCmi(n, hs[n]))

ReceiveHello(n) ==
    Incoming(n, "Hello") /\ Read(n, OnHello(n, hs[n], Received(n)))

ReceiveProtocol(n) ==
    /\ Incoming(n, "Protocol")
    /\ Read(n, OnProtocolHandshake(n, hs[n], Received(n)))

ReceiveProtocolError(n) ==
    Incoming(n, "ProtocolError") /\ Read(n, Abort(hs[n], "SelectionMismatch"))

ReceivePinState(n) ==
    Incoming(n, "PinState") /\ Read(n, OnPinState(hs[n], Received(n)))

ReceivePinInput(n) ==
    Incoming(n, "PinInput") /\ Read(n, OnPinInput(n, hs[n], Received(n)))

ReceivePinError(n) == Incoming(n, "PinError") /\ Read(n, hs[n])

ReceiveClose(n) == Incoming(n, "Close") /\ Read(n, OnClose(hs[n], Received(n)))

\* Data is the handshake's business only until it is over.
ReceiveData(n) ==
    /\ Incoming(n, "Data")
    /\ Read(n, IF IsReadyForData(hs[n]) THEN hs[n]
               ELSE Abort(hs[n], "UnexpectedMessage"))

ReceiveKeyMaterial(n) ==
    \/ /\ Incoming(n, "KeyMaterialState")
       /\ Read(n, Send(hs[n], KeyMaterialStateResponse))
    \/ /\ Incoming(n, "KeyMaterialStateResponse")
       /\ Read(n, OnKeyMaterialStateResponse(hs[n]))
    \/ /\ Incoming(n, "KeyMaterialStateRequest")
       /\ Read(n, OnKeyMaterialStateRequest(n, hs[n], Received(n)))

ReceiveAccessMethods(n) ==
    \/ /\ Incoming(n, "AccessMethodsRequest")
       /\ Read(n, Send(hs[n], AccessMethods))
    \/ /\ Incoming(n, "AccessMethods")
       /\ Read(n, hs[n])

Receive(n) ==
    \/ ReceiveCmi(n) \/ ReceiveHello(n) \/ ReceiveProtocol(n)
    \/ ReceiveProtocolError(n) \/ ReceivePinState(n) \/ ReceivePinInput(n)
    \/ ReceivePinError(n) \/ ReceiveClose(n) \/ ReceiveData(n)
    \/ ReceiveKeyMaterial(n) \/ ReceiveAccessMethods(n)

Driven(n, h) ==
    /\ hs' = [hs EXCEPT ![n] = h]
    /\ UNCHANGED <<config, lost>>

\* run_handshake's select on the trust store, while the handshake runs.
Decide(n) ==
    /\ hs[n].phase \in {"Cmi", "Hello", "ProtocolHandshake", "Pin"}
    /\ decided[n] < config[n].around.decisions
    /\ \E trust \in Decisions : Driven(n, SetTrust(n, hs[n], trust))
    /\ decided' = [decided EXCEPT ![n] = @ + 1]

Timeout(n) ==
    /\ ~Ended(hs[n])
    /\ \E t \in TimerNames : Due(hs[n], t)
    /\ Driven(n, HandleTimeout(n, hs[n]))
    /\ UNCHANGED decided

\* Bound: applications hold back while the stream is full.
Uncrowded(n) ==
    Len(hs["Client"].outbox) + Len(hs["Server"].outbox) < config[n].around.queue

\* send_pin: a user types what the peer's label says, or something else.
EnterPinByHand(n) ==
    /\ PinWanted(hs[n])
    /\ hs[Peer(n)].pin_attempts < MaxPinAttempts
    /\ Uncrowded(n)
    /\ \E pin \in PinEntries :
         Driven(n, SendPinIfPermitted([hs[n] EXCEPT !.peer_pin = pin]))
    /\ UNCHANGED decided

CloseConnection(n) ==
    /\ hs[n].phase \in config[n].around.closes
    /\ Driven(n, Close(hs[n]))
    /\ UNCHANGED decided

\* The requests an opened connection may make: key material, its peer's key
\* material, its peer's addresses.
AnnounceKeyMaterial(n) ==
    /\ config[n].key_material /\ IsReadyForData(hs[n])
    /\ Uncrowded(n)
    /\ Driven(n, SendKeyMaterial(n, hs[n]))
    /\ UNCHANGED decided

RequestKeyMaterial(n) ==
    /\ config[n].key_material /\ IsReadyForData(hs[n])
    /\ Uncrowded(n)
    /\ \E stale \in BOOLEAN :
         Driven(n, Send(hs[n], KeyMaterialStateRequest(stale)))
    /\ UNCHANGED decided

RequestAccessMethods(n) ==
    /\ IsReadyForData(hs[n])
    /\ Uncrowded(n)
    /\ Driven(n, Send(hs[n], AccessMethodsRequest))
    /\ UNCHANGED decided

SendData(n) ==
    /\ n \in DataSenders
    /\ hs[n].phase = "DataExchange"
    /\ Uncrowded(n)
    /\ Driven(n, Send(hs[n], Data))
    /\ UNCHANGED decided

\* The socket of a peer that has ended and been read to its last message.
HungUp(n) ==
    /\ ~lost /\ ~Ended(hs[n])
    /\ Ended(hs[Peer(n)]) /\ hs[Peer(n)].outbox = <<>>

\* The driver drops its handshake with ConnectionError::Closed.
Hangup(n) ==
    /\ HungUp(n)
    /\ Driven(n, Finish(hs[n]))
    /\ UNCHANGED decided

Lose ==
    /\ CanLose /\ ~lost
    /\ lost' = TRUE
    /\ UNCHANGED <<config, hs, decided>>

Less(d) == IF d > 0 THEN d - 1 ELSE d

Elapsed(h) ==
    LET older(i) == [h.outbox[i] EXCEPT !.age = @ + 1]
    IN  [h EXCEPT !.timers = [t \in TimerNames |-> Less(h.timers[t])],
                  !.peer_deadline = Less(@),
                  !.outbox = IF lost THEN <<>>
                             ELSE [i \in DOMAIN @ |-> older(i)]]

Tick ==
    /\ \A n \in Node :
         /\ \A t \in TimerNames : ~Due(hs[n], t)
         /\ ~HungUp(n)
         /\ lost \/ \A i \in DOMAIN hs[n].outbox : hs[n].outbox[i].age < config[n].around.latency
    /\ \E n \in Node : Armed(hs[n])
    /\ hs' = [n \in Node |-> Elapsed(hs[n])]
    /\ UNCHANGED <<config, lost, decided>>

Next ==
    \/ \E n \in Node :
         \/ Receive(n) \/ Decide(n) \/ Timeout(n) \/ EnterPinByHand(n)
         \/ CloseConnection(n) \/ AnnounceKeyMaterial(n)
         \/ RequestKeyMaterial(n) \/ RequestAccessMethods(n) \/ SendData(n)
         \/ Hangup(n)
    \/ Lose
    \/ Tick

Spec == Init /\ [][Next]_vars

\* The runtime polls the socket and the timers for ever, and time passes.
\* Users and applications owe nothing.
Fairness ==
    /\ \A n \in Node : /\ WF_vars(Receive(n))
                     /\ WF_vars(Timeout(n))
                     /\ WF_vars(Hangup(n))
    /\ WF_vars(Tick)

FairSpec == Spec /\ Fairness

-----------------------------------------------------------------------------
(***************************************************************************)
(* Properties.                                                             *)
(***************************************************************************)
\* The state has the types of the Handshake struct; timers run down to zero
\* and are cleared when the handshake ends (Timers::default in abort/finish).
TypeOK ==
    /\ config \in Configs
    /\ lost \in BOOLEAN
    /\ \A n \in Node : decided[n] \in 0 .. config[n].around.decisions
    /\ \A n \in Node :
         LET h == hs[n]
         IN  /\ h.phase \in Phases
             /\ h.trust \in Trusts
             /\ h.local_pin_state \in PinStates
             /\ h.peer_pin_state \in PinStates \cup {"Unknown"}
             /\ h.pin_attempts \in Nat
             /\ {h.local_ready, h.remote_ready, h.key_material_resent}
                  \subseteq BOOLEAN
             /\ h.reason \in AbortReasons \cup {"None"}
             /\ \A t \in TimerNames : h.timers[t] \in Nat \cup {None}
             /\ Ended(h) => h.timers = NoTimers

\* Trust is mutual before anything is negotiated: a node that has left the
\* hello phase for the protocol handshake did so with both users' approval,
\* however the announcements and prolongations crossed (try_finish_hello).
TrustIsMutual ==
    \A n \in Node :
        hs[n].phase \in {"ProtocolHandshake", "Pin", "DataExchange"} =>
            hs["Client"].local_ready /\ hs["Server"].local_ready

\* A node that has got past the protocol handshake and its peer have settled
\* on the same version and format, and both support it (on_protocol_handshake).
NegotiationAgrees ==
    \A n \in Node :
        hs[n].phase \in {"Pin", "DataExchange"} =>
            /\ hs["Client"].negotiated = hs["Server"].negotiated
            /\ hs[n].negotiated # <<>>
            /\ \A k \in Node :
                 /\ SupportsVersion(k, hs[n].negotiated[1])
                 /\ hs[n].negotiated[2] \in Elements(config[k].formats)

\* On a connection that delivers in time no timer ever ends a handshake in
\* which one user has approved beforehand: not while the other user takes for
\* ever to decide (the prolongations of on_hello and arm_prolongation keep the
\* ready node's patience up), not in the wait-timer phases, not waiting for a
\* key-material response.
OneSlowUserIsWaitedFor ==
    \A n \in Node :
        hs[n].reason = "Timeout" =>
            lost \/ \A k \in Node : config[k].trust = Pending

\* Two nodes running this code never send each other a message the other's
\* phase does not allow, with the one exception that a node which still
\* demands a PIN may be sent data (abort(UnexpectedMessage) in every handler).
MessagesAreExpected ==
    \A n \in Node :
        hs[n].reason = "UnexpectedMessage" => hs[n].local_pin_state = "Required"

\* A node with a required PIN exchanges data only with a peer that has sent
\* the right one, and that peer sent it while it was in a phase to know it was
\* asked (on_pin_input, try_finish_pin, send_pin_if_permitted).
RequiredPinIsProved ==
    \A n \in Node :
        (config[n].pin = "Required" /\ hs[n].phase = "DataExchange") =>
            /\ hs[n].local_pin_state = "PinOk"
            /\ hs[Peer(n)].peer_pin_state \in {"Required", "PinOk"}

\* A connection that goes silent is noticed: no node stays for ever in the
\* CMI, hello or protocol phase of the handshake or in an unconfirmed close
\* (handle_timeout). The PIN phase is left out: the code has no timer there, and
\* a node may stay in it, as it may in data exchange.
SilenceIsNoticed ==
    lost ~> \A n \in Node :
              hs[n].phase \in {"DataExchange", "Pin", "Closed", "Aborted"}

\* Once both users have approved, both nodes get to exchange PIN requirements
\* or data, unless the connection is lost, a user turns the peer down or the
\* nodes have no version or format in common.
ApprovalOpens ==
    (\A n \in Node : hs[n].trust >= MIN_USER_TRUST /\ hs[n].phase \in {"Cmi", "Hello"}) ~>
        \/ lost
        \/ \A n \in Node : hs[n].phase \in {"Pin", "DataExchange", "Closing"}
        \/ \E n \in Node : hs[n].reason \in {"TrustRejected",
                                             "SelectionMismatch"}
=============================================================================
