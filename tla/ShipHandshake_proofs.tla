------------------------ MODULE ShipHandshake_proofs ------------------------
(***************************************************************************)
(* Theorems of ShipHandshake, for every pair of configurations, every      *)
(* length of the timers, every latency and every number of decisions.      *)
(*                                                                         *)
(* The inductive invariant says of each node what its own fields owe each  *)
(* other (NodeOK), of each message on its way what its sender still stands *)
(* by (Fits), and of the two nodes what one may conclude from what it has  *)
(* heard of the other (Agree).  What makes it hold is that a node never    *)
(* takes back what it has said: approval, the knowledge of the peer's PIN  *)
(* state and the negotiated protocol only ever grow (Mono).                *)
(*                                                                         *)
(* That no message is unexpected is a matter of order and has an invariant *)
(* of its own, further down (XInv).                                        *)
(***************************************************************************)
EXTENDS ShipHandshake, WellFoundedInduction, TLAPS

Time == Nat \cup {None}

HelloMsg == [kind : {"Hello"}, phase : {"Ready", "Pending", "Aborted"},
             waiting : Time, prolongation : BOOLEAN]
ProtocolMsg == [kind : {"Protocol"}, type : {"AnnounceMax", "Select"},
                version : Nat, formats : Seq(STRING)]
PinStateMsg == [kind : {"PinState"}, state : PinStates, busy : BOOLEAN]
PinInputMsg == [kind : {"PinInput"}, pin : {"right", "wrong"}]
OtherMsg ==
    [kind : {"Cmi", "ProtocolError", "PinError", "Data", "KeyMaterialState",
             "KeyMaterialStateResponse", "AccessMethodsRequest", "AccessMethods"}]
    \cup [kind : {"Close"}, phase : {"Announce", "Confirm"}]
    \cup [kind : {"KeyMaterialStateRequest"}, stale : BOOLEAN]
Message == HelloMsg \cup ProtocolMsg \cup PinStateMsg \cup PinInputMsg \cup OtherMsg
Envelope == [msg : Message, age : Nat]

Timers == [TimerNames -> Time]

\* The Handshake struct.
Handshake ==
    [phase : Phases, trust : Trusts, local_ready : BOOLEAN, remote_ready : BOOLEAN,
     peer_waiting : Time, peer_deadline : Time,
     proposed : Seq(ProtocolMsg),
     negotiated : {<<>>} \cup (Nat \X STRING),
     key_material_resent : BOOLEAN, local_pin_state : PinStates,
     peer_pin_state : PinStates \cup {"Unknown"},
     peer_pin : {"none", "right", "wrong"}, pin_attempts : Nat,
     timers : Timers, outbox : Seq(Envelope), reason : AbortReasons \cup {"None"}]

Past == {"ProtocolHandshake", "Pin", "DataExchange"}
Opened == {"Pin", "DataExchange"}

Supported(n, x) ==
    /\ x \in Nat \X STRING
    /\ SupportsVersion(n, x[1]) /\ x[2] \in Elements(config[n].formats)

\* A node's own approval and what it has heard, by phase.
HelloPart(h) ==
    /\ h.phase = "Cmi" => ~h.remote_ready
    /\ h.phase = "Hello" => ~(h.local_ready /\ h.remote_ready)
    /\ h.phase \in Past => h.local_ready /\ h.remote_ready

TimerPart(h) == Ended(h) => h.timers = NoTimers

PinPart(n, h) ==
    config[n].pin = "Required" =>
        /\ h.local_pin_state \in {"Required", "PinOk"}
        /\ h.phase = "DataExchange" => h.local_pin_state = "PinOk"

\* The server proposes once and means it; the client settles once.
ServerPart(h) ==
    /\ \/ h.proposed = <<>> /\ h.negotiated = <<>>
       \/ /\ h.proposed = <<Protocol("Select", h.negotiated[1], <<h.negotiated[2]>>)>>
          /\ Supported("Server", h.negotiated)
    /\ h.phase \in Opened => h.proposed # <<>>

ClientPart(h) ==
    /\ h.negotiated = <<>> \/ Supported("Client", h.negotiated)
    /\ h.phase \in Opened => h.negotiated # <<>>
    /\ h.phase \in {"Cmi", "Hello", "ProtocolHandshake"} => h.negotiated = <<>>

\* What the sender of a message still stands by while it is on its way.
Fits(n, h, m) ==
    /\ m.kind = "Hello" /\ m.phase = "Ready" => h.local_ready
    /\ m.kind = "PinState" /\ config[n].pin = "Required" =>
         m.state \in {"Required", "PinOk"}
    /\ m.kind = "PinInput" => h.peer_pin_state # "Unknown"
    /\ m.kind = "Protocol" /\ m.type = "Select" =>
         IF n = "Server" THEN h.proposed = <<m>>
         ELSE h.negotiated # <<>> /\ h.negotiated = <<m.version, m.formats[1]>>

NodeOK(n, h) ==
    /\ h \in Handshake
    /\ HelloPart(h) /\ TimerPart(h) /\ PinPart(n, h)
    /\ IF n = "Server" THEN ServerPart(h) ELSE ClientPart(h)
    /\ \A i \in 1 .. Len(h.outbox) : Fits(n, h, h.outbox[i].msg)

\* What a node (g) may conclude of its peer (h).
Agree(n, g, h) ==
    /\ g.remote_ready => h.local_ready
    /\ config[Peer(n)].pin = "Required" =>
         g.peer_pin_state \in {"Unknown", "Required", "PinOk"}
    /\ config[n].pin = "Required" /\ g.local_pin_state = "PinOk" =>
         h.peer_pin_state # "Unknown"
    /\ n = "Client" /\ g.negotiated # <<>> => h.negotiated = g.negotiated
    /\ n = "Server" /\ g.phase \in Opened => h.negotiated # <<>>

Frame ==
    /\ config \in Configs /\ lost \in BOOLEAN
    /\ decided \in [Node -> Nat]
    /\ \A n \in Node : decided[n] <= config[n].around.decisions

IInv ==
    /\ Frame
    /\ DOMAIN hs = Node /\ hs = [n \in Node |-> hs[n]]
    /\ \A n \in Node : NodeOK(n, hs[n]) /\ Agree(n, hs[n], hs[Peer(n)])

\* What a step of node n that has read m makes of h: nothing said is taken
\* back, and nothing is learnt but from m.
Mono(h, g) ==
    /\ h.local_ready => g.local_ready
    /\ h.peer_pin_state # "Unknown" => g.peer_pin_state # "Unknown"
    /\ h.negotiated # <<>> => g.negotiated = h.negotiated
    /\ h.proposed # <<>> => g.proposed = h.proposed

Learns(n, h, g, m) ==
    /\ g.remote_ready => h.remote_ready \/ (m.kind = "Hello" /\ m.phase = "Ready")
    /\ \/ g.peer_pin_state = h.peer_pin_state
       \/ m.kind = "PinState" /\ g.peer_pin_state = m.state
    /\ g.local_pin_state = h.local_pin_state \/ m.kind = "PinInput"
    /\ n = "Client" =>
         \/ g.negotiated = h.negotiated
         \/ /\ m.kind = "Protocol" /\ m.type = "Select"
            /\ g.negotiated = <<m.version, m.formats[1]>>
    /\ n = "Server" /\ g.phase \in Opened =>
         h.phase \in Opened \/ (m.kind = "Protocol" /\ g.proposed = <<m>>)

Good(n, h, g, m) == NodeOK(n, g) /\ Mono(h, g) /\ Learns(n, h, g, m)

\* A step that only sends what fits, and sets timers and counters.
Outs(n, h) == \A i \in 1 .. Len(h.outbox) : Fits(n, h, h.outbox[i].msg)
Core(h, g) ==
    /\ g \in Handshake
    /\ g.phase = h.phase
    /\ g.local_ready = h.local_ready /\ g.remote_ready = h.remote_ready
    /\ g.local_pin_state = h.local_pin_state /\ g.peer_pin_state = h.peer_pin_state
    /\ g.proposed = h.proposed /\ g.negotiated = h.negotiated
Calm(n, h, g) == Core(h, g) /\ Outs(n, g)

-----------------------------------------------------------------------------
(***************************************************************************)
(* Types.                                                                  *)
(***************************************************************************)
LEMMA Constants ==
    /\ CmiTimeout \in Nat /\ WaitTimer \in Nat /\ CloseMaxTime \in Nat
    /\ StateResponseTimeout \in Nat /\ PinPenaltyShort \in Nat
    /\ PinPenaltyLong \in Nat /\ ProlongMin \in Nat /\ ProlongMin > 0
    /\ ProlongThrInc \in Nat /\ ProlongWaitingGap \in Nat
    /\ \A pin \in PinEntries : pin \in {"right", "wrong"}
BY TimesAssumption

LEMMA TimerNamesAre ==
    TimerNames = {"cmi", "wait_for_ready", "send_prolongation",
                  "prolongation_reply", "wait", "pin_penalty", "close",
                  "key_material"}
BY DEF TimerNames, NoTimers

LEMMA NoTimersType == NoTimers \in Timers
BY TimerNamesAre DEF NoTimers, Timers, Time, None

LEMMA ConfigType ==
    ASSUME config \in Configs, NEW n \in Node
    PROVE  /\ config[n].trust \in Trusts /\ config[n].hello_init \in Nat
           /\ config[n].max_version \in Nat /\ config[n].formats \in Seq(STRING)
           /\ config[n].pin \in {"None", "Required", "Optional"}
           /\ config[n].peer_pin \in {"none", "right", "wrong"}
           /\ config[n].around.decisions \in Nat
BY ConfigsAssumption DEF Surroundings

LEMMA PeerType ==
    \A n \in Node : Peer(n) \in Node /\ Peer(n) # n /\ Peer(Peer(n)) = n
BY DEF Node, Peer

\* A field at a time.
LEMMA SetTimers ==
    ASSUME NEW h \in Handshake, NEW t \in Timers
    PROVE  /\ Core(h, [h EXCEPT !.timers = t])
           /\ [h EXCEPT !.timers = t].outbox = h.outbox
           /\ [h EXCEPT !.timers = t].timers = t
           /\ [h EXCEPT !.timers = t].peer_pin = h.peer_pin
BY DEF Handshake, Core

LEMMA SetTimer ==
    ASSUME NEW h \in Handshake, NEW t \in TimerNames, NEW d \in Time
    PROVE  /\ Core(h, [h EXCEPT !.timers[t] = d])
           /\ [h EXCEPT !.timers[t] = d].outbox = h.outbox
           /\ [h EXCEPT !.timers[t] = d].peer_pin = h.peer_pin
<1>1. [h.timers EXCEPT ![t] = d] \in Timers
  BY DEF Handshake, Timers
<1>2. [h EXCEPT !.timers[t] = d] = [h EXCEPT !.timers = [h.timers EXCEPT ![t] = d]]
  OBVIOUS
<1> QED
  BY <1>1, <1>2, SetTimers

\* Fields neither phase, trust, PIN nor protocol depend on.
LEMMA SetMinor ==
    ASSUME NEW h \in Handshake, NEW trust \in Trusts, NEW w \in Time, NEW d \in Time,
           NEW b \in BOOLEAN, NEW pin \in {"none", "right", "wrong"}, NEW k \in Nat
    PROVE  /\ Core(h, [h EXCEPT !.trust = trust]) /\ [h EXCEPT !.trust = trust].outbox = h.outbox
           /\ Core(h, [h EXCEPT !.peer_waiting = w, !.peer_deadline = d])
           /\ [h EXCEPT !.peer_waiting = w, !.peer_deadline = d].outbox = h.outbox
           /\ Core(h, [h EXCEPT !.key_material_resent = b])
           /\ [h EXCEPT !.key_material_resent = b].outbox = h.outbox
           /\ Core(h, [h EXCEPT !.peer_pin = pin])
           /\ [h EXCEPT !.peer_pin = pin].outbox = h.outbox
           /\ Core(h, [h EXCEPT !.pin_attempts = k])
           /\ [h EXCEPT !.pin_attempts = k].outbox = h.outbox
           /\ [h EXCEPT !.pin_attempts = k].pin_attempts = k
BY ZenonT(30) DEF Handshake, Core

\* Fits looks at four fields only.
LEMMA FitsByCore ==
    ASSUME NEW n \in Node, NEW h, NEW g, Core(h, g), NEW m
    PROVE  Fits(n, h, m) <=> Fits(n, g, m)
BY DEF Fits, Core

LEMMA CoreTrans ==
    ASSUME NEW h, NEW g, NEW k, Core(h, g), Core(g, k)
    PROVE  Core(h, k)
BY DEF Core

LEMMA CalmRefl ==
    ASSUME NEW n \in Node, NEW h, NodeOK(n, h)
    PROVE  Calm(n, h, h) /\ h \in Handshake
BY DEF NodeOK, Calm, Core, Outs

\* A calm step may be followed by one that sends nothing, ...
LEMMA CalmSilent ==
    ASSUME NEW n \in Node, NEW h, NEW g, NEW k, Calm(n, h, g), Core(g, k), k.outbox = g.outbox
    PROVE  Calm(n, h, k)
<1>1. Core(h, k)
  BY CoreTrans DEF Calm
<1>2. Outs(n, k)
  BY FitsByCore DEF Outs, Calm
<1> QED
  BY <1>1, <1>2 DEF Calm

LEMMA SendType ==
    ASSUME NEW h \in Handshake, NEW x \in Message
    PROVE  /\ Core(h, Send(h, x))
           /\ Send(h, x).outbox = Append(h.outbox, [msg |-> x, age |-> 0])
           /\ Send(h, x).timers = h.timers /\ Send(h, x).peer_pin = h.peer_pin
           /\ Send(h, x).pin_attempts = h.pin_attempts
<1>1. [msg |-> x, age |-> 0] \in Envelope
  BY DEF Envelope
<1>2. Append(h.outbox, [msg |-> x, age |-> 0]) \in Seq(Envelope)
  BY <1>1 DEF Handshake
<1> QED
  BY <1>2 DEF Send, Core, Handshake

\* ... or by one that sends what fits.
LEMMA CalmSend ==
    ASSUME NEW n \in Node, NEW h, NEW g, Calm(n, h, g), NEW x \in Message, Fits(n, h, x)
    PROVE  Calm(n, h, Send(g, x))
<1>1. g \in Handshake /\ Core(h, g) /\ Outs(n, g)
  BY DEF Calm, Core
<1>2. Core(g, Send(g, x)) /\ Send(g, x).outbox = Append(g.outbox, [msg |-> x, age |-> 0])
  BY <1>1, SendType
<1>3. Core(h, Send(g, x))
  BY <1>1, <1>2, CoreTrans
<1> DEFINE k == Send(g, x)
<1>4. k.outbox = Append(g.outbox, [msg |-> x, age |-> 0])
  BY <1>2
<1>5. Core(h, k)
  BY <1>3
<1> HIDE DEF k
<1>6. Len(g.outbox) \in Nat /\ g.outbox \in Seq(Envelope)
  BY <1>1 DEF Handshake
<1>7. ASSUME NEW i \in 1 .. Len(k.outbox)
      PROVE  Fits(n, k, k.outbox[i].msg)
  <2>1. CASE i = Len(g.outbox) + 1
    <3>1. k.outbox[i].msg = x
      BY <1>4, <1>6, <2>1
    <3> QED
      BY <3>1, <1>5, FitsByCore
  <2>2. CASE i \in 1 .. Len(g.outbox)
    <3>1. k.outbox[i] = g.outbox[i]
      BY <1>4, <1>6, <2>2
    <3> QED
      BY <3>1, <2>2, <1>1, <1>5, FitsByCore DEF Outs
  <2> QED
    BY <2>1, <2>2, <1>4, <1>6
<1> QED
  BY <1>5, <1>7 DEF Calm, Outs, k

\* A calm step of a node that has not ended keeps what it owes.
LEMMA CalmGood ==
    ASSUME NEW n \in Node, NEW h, NEW g, NodeOK(n, h), Calm(n, h, g), ~Ended(h), NEW m
    PROVE  Good(n, h, g, m) /\ ~Ended(g)
<1>1. NodeOK(n, g) /\ ~Ended(g)
  <2>1. g \in Handshake /\ Outs(n, g) /\ ~Ended(g)
    BY DEF Calm, Core, Ended
  <2>2. HelloPart(g) /\ TimerPart(g) /\ PinPart(n, g)
    BY <2>1 DEF Calm, Core, NodeOK, HelloPart, TimerPart, PinPart
  <2>3. IF n = "Server" THEN ServerPart(g) ELSE ClientPart(g)
    BY DEF Calm, Core, NodeOK, ServerPart, ClientPart
  <2> QED
    BY <2>1, <2>2, <2>3 DEF NodeOK, Outs
<1>2. Mono(h, g) /\ Learns(n, h, g, m)
  BY DEF Calm, Core, Mono, Learns
<1> QED
  BY <1>1, <1>2 DEF Good

LEMMA GoodTrans ==
    ASSUME NEW n \in Node, NEW h, NEW g, NEW k, NEW m, Good(n, h, g, m), Good(n, g, k, m)
    PROVE  Good(n, h, k, m)
<1>1. NodeOK(n, k)
  BY DEF Good
<1>2. Mono(h, k)
  BY DEF Good, Mono
<1>3. Learns(n, h, k, m)
  BY DEF Good, Mono, Learns
<1> QED
  BY <1>1, <1>2, <1>3 DEF Good

LEMMA GoodRefl ==
    ASSUME NEW n \in Node, NEW h, NodeOK(n, h), NEW m
    PROVE  Good(n, h, h, m)
BY DEF Good, Mono, Learns

-----------------------------------------------------------------------------
(***************************************************************************)
(* The end.                                                                *)
(***************************************************************************)
LEMMA EndGood ==
    ASSUME NEW n \in Node, NEW h, NodeOK(n, h), NEW m,
           NEW phase \in {"Aborted", "Closed"}, NEW reason \in AbortReasons
    PROVE  Good(n, h, [h EXCEPT !.phase = phase, !.timers = NoTimers, !.reason = reason], m)
<1> DEFINE g == [h EXCEPT !.phase = phase, !.timers = NoTimers, !.reason = reason]
<1>1. h \in Handshake
  BY DEF NodeOK
<1>2. /\ g \in Handshake
      /\ g.phase = phase /\ g.timers = NoTimers /\ g.outbox = h.outbox
      /\ g.local_ready = h.local_ready /\ g.remote_ready = h.remote_ready
      /\ g.local_pin_state = h.local_pin_state /\ g.peer_pin_state = h.peer_pin_state
      /\ g.proposed = h.proposed /\ g.negotiated = h.negotiated
  BY <1>1, NoTimersType DEF Handshake, Phases
<1> HIDE DEF g
<1>3. HelloPart(g) /\ TimerPart(g) /\ PinPart(n, g)
  BY <1>2 DEF NodeOK, HelloPart, TimerPart, PinPart, Past
<1>4. IF n = "Server" THEN ServerPart(g) ELSE ClientPart(g)
  BY <1>2 DEF NodeOK, ServerPart, ClientPart, Opened
<1>5. \A i \in 1 .. Len(g.outbox) : Fits(n, g, g.outbox[i].msg)
  BY <1>2 DEF NodeOK, Fits
<1>6. NodeOK(n, g)
  BY <1>2, <1>3, <1>4, <1>5 DEF NodeOK
<1>7. Mono(h, g) /\ Learns(n, h, g, m)
  BY <1>2 DEF Mono, Learns, Opened
<1> QED
  BY <1>6, <1>7 DEF Good, g

LEMMA AbortGood ==
    ASSUME NEW n \in Node, NEW h, NodeOK(n, h), NEW m, NEW reason \in AbortReasons
    PROVE  Good(n, h, Abort(h, reason), m)
BY EndGood, GoodRefl DEF Abort

LEMMA FinishGood ==
    ASSUME NEW n \in Node, NEW h, NodeOK(n, h), NEW m
    PROVE  Good(n, h, Finish(h), m)
<1>1. "Closed" \in AbortReasons
  BY DEF AbortReasons
<1> QED
  BY <1>1, EndGood, GoodRefl DEF Finish

\* What follows a calm step and then ends.
LEMMA CalmAbort ==
    ASSUME NEW n \in Node, NEW h, NEW g, NodeOK(n, h), ~Ended(h), Calm(n, h, g), NEW m,
           NEW reason \in AbortReasons
    PROVE  Good(n, h, Abort(g, reason), m)
BY CalmGood, AbortGood, GoodTrans DEF Good

LEMMA CalmFinish ==
    ASSUME NEW n \in Node, NEW h, NEW g, NodeOK(n, h), ~Ended(h), Calm(n, h, g), NEW m
    PROVE  Good(n, h, Finish(g), m)
BY CalmGood, FinishGood, GoodTrans DEF Good

-----------------------------------------------------------------------------
(***************************************************************************)
(* PIN.                                                                    *)
(***************************************************************************)
\* PinOK, as the handshake's start and every calm step leave it.
LEMMA SendPinStateCalm ==
    ASSUME NEW n \in Node, NEW h, NEW g, Calm(n, h, g), PinPart(n, h)
    PROVE  Calm(n, h, SendPinState(g))
<1> DEFINE b == /\ g.local_pin_state \in {"Required", "Optional"}
                /\ g.timers.pin_penalty # None
           x == PinState(g.local_pin_state, b)
<1>1. g.local_pin_state \in PinStates /\ g.local_pin_state = h.local_pin_state
  BY DEF Calm, Core, Handshake
<1>2. b \in BOOLEAN
  OBVIOUS
<1>3. x \in PinStateMsg
  BY <1>1, <1>2 DEF PinState, PinStateMsg
<1>4. x \in Message
  BY <1>3 DEF Message
<1>5. Fits(n, h, x)
  BY <1>1 DEF Fits, PinState, PinPart
<1> QED
  BY <1>4, <1>5, CalmSend DEF SendPinState

LEMMA SendPinIfPermittedCalm ==
    ASSUME NEW n \in Node, NEW h, NEW g, Calm(n, h, g)
    PROVE  Calm(n, h, SendPinIfPermitted(g))
<1>1. CASE PinWanted(g) /\ g.trust >= COMMISSIONING_TRUST /\ g.peer_pin # "none"
  <2> DEFINE x == PinInput(g.peer_pin)
             k == Send(g, x)
  <2>1. g \in Handshake /\ g.peer_pin \in {"right", "wrong"}
    BY <1>1 DEF Calm, Core, Handshake
  <2>2. x \in Message
    BY <2>1 DEF PinInput, PinInputMsg, Message
  <2>3. Fits(n, h, x)
    BY <1>1 DEF Fits, PinInput, PinWanted, Calm, Core
  <2>4. Calm(n, h, k)
    BY <2>2, <2>3, CalmSend
  <2>5. k \in Handshake
    BY <2>4 DEF Calm, Core
  <2> HIDE DEF k
  <2>6. Core(k, [k EXCEPT !.peer_pin = "none"]) /\ [k EXCEPT !.peer_pin = "none"].outbox = k.outbox
    BY <2>5 DEF Handshake, Core
  <2>7. Calm(n, h, [k EXCEPT !.peer_pin = "none"])
    BY <2>4, <2>6, CalmSilent
  <2> QED
    BY <1>1, <2>7 DEF SendPinIfPermitted, k
<1>2. CASE ~(PinWanted(g) /\ g.trust >= COMMISSIONING_TRUST /\ g.peer_pin # "none")
  BY <1>2 DEF SendPinIfPermitted
<1> QED
  BY <1>1, <1>2

LEMMA TryFinishPinGood ==
    ASSUME NEW n \in Node, NEW h, NodeOK(n, h), NEW m
    PROVE  Good(n, h, TryFinishPin(h), m)
<1> DEFINE g == [h EXCEPT !.phase = "DataExchange", !.timers.wait = None]
<1>1. CASE /\ h.phase = "Pin" /\ h.local_pin_state \in {"None", "PinOk", "Optional"}
           /\ h.peer_pin_state # "Unknown"
  <2>1. h \in Handshake /\ h.timers \in Timers
    BY DEF NodeOK, Handshake
  <2>2. [h.timers EXCEPT !["wait"] = None] \in Timers
    BY <2>1 DEF Timers, Time
  <2>3. g = [h EXCEPT !.phase = "DataExchange", !.timers = [h.timers EXCEPT !["wait"] = None]]
    BY <2>1 DEF Handshake
  <2>4. /\ g \in Handshake
        /\ g.phase = "DataExchange" /\ g.outbox = h.outbox
        /\ g.local_ready = h.local_ready /\ g.remote_ready = h.remote_ready
        /\ g.local_pin_state = h.local_pin_state /\ g.peer_pin_state = h.peer_pin_state
        /\ g.proposed = h.proposed /\ g.negotiated = h.negotiated
    BY <2>1, <2>2, <2>3 DEF Handshake, Phases
  <2> HIDE DEF g
  <2>5. HelloPart(g) /\ TimerPart(g) /\ PinPart(n, g)
    BY <1>1, <2>4 DEF NodeOK, HelloPart, TimerPart, PinPart, Past, Ended
  <2>6. IF n = "Server" THEN ServerPart(g) ELSE ClientPart(g)
    BY <1>1, <2>4 DEF NodeOK, ServerPart, ClientPart, Opened
  <2>7. \A i \in 1 .. Len(g.outbox) : Fits(n, g, g.outbox[i].msg)
    BY <2>4 DEF NodeOK, Fits
  <2>8. NodeOK(n, g)
    BY <2>4, <2>5, <2>6, <2>7 DEF NodeOK
  <2>9. Mono(h, g) /\ Learns(n, h, g, m)
    BY <1>1, <2>4 DEF Mono, Learns, Opened
  <2> QED
    BY <1>1, <2>8, <2>9 DEF Good, g, TryFinishPin
<1>2. CASE ~ /\ h.phase = "Pin" /\ h.local_pin_state \in {"None", "PinOk", "Optional"}
             /\ h.peer_pin_state # "Unknown"
  BY <1>2, GoodRefl DEF TryFinishPin
<1> QED
  BY <1>1, <1>2

LEMMA OnPinStateGood ==
    ASSUME NEW n \in Node, NEW h, NodeOK(n, h), ~Ended(h), NEW m \in PinStateMsg
    PROVE  Good(n, h, OnPinState(h, m), m)
<1> DEFINE seen == [h EXCEPT !.timers.wait = None, !.peer_pin_state = m.state]
           asked == m.state \in {"Required", "Optional"} /\ ~m.busy
           sent == IF asked /\ h.peer_pin # "none" THEN SendPinIfPermitted(seen) ELSE seen
<1>1. h \in Handshake /\ h.timers \in Timers /\ m.state \in PinStates /\ m.kind = "PinState"
  BY DEF NodeOK, Handshake, PinStateMsg
<1>2. [h.timers EXCEPT !["wait"] = None] \in Timers
  BY <1>1 DEF Timers, Time
<1>3. seen = [h EXCEPT !.timers = [h.timers EXCEPT !["wait"] = None], !.peer_pin_state = m.state]
  BY <1>1 DEF Handshake
<1>4. /\ seen \in Handshake
      /\ seen.phase = h.phase /\ seen.outbox = h.outbox
      /\ seen.local_ready = h.local_ready /\ seen.remote_ready = h.remote_ready
      /\ seen.local_pin_state = h.local_pin_state /\ seen.peer_pin_state = m.state
      /\ seen.proposed = h.proposed /\ seen.negotiated = h.negotiated
  BY <1>1, <1>2, <1>3 DEF Handshake
<1> HIDE DEF seen
<1>5. m.state # "Unknown"
  BY <1>1 DEF PinStates
<1>6. HelloPart(seen) /\ TimerPart(seen) /\ PinPart(n, seen) /\ ~Ended(seen)
  BY <1>4 DEF NodeOK, HelloPart, TimerPart, PinPart, Ended
<1>7. IF n = "Server" THEN ServerPart(seen) ELSE ClientPart(seen)
  BY <1>4 DEF NodeOK, ServerPart, ClientPart
<1>8. \A i \in 1 .. Len(seen.outbox) : Fits(n, seen, seen.outbox[i].msg)
  BY <1>4, <1>5 DEF NodeOK, Fits
<1>9. NodeOK(n, seen)
  BY <1>4, <1>6, <1>7, <1>8 DEF NodeOK
<1>10. Good(n, h, seen, m)
  BY <1>1, <1>4, <1>5, <1>9 DEF Good, Mono, Learns
<1>11. Calm(n, seen, sent)
  BY <1>9, CalmRefl, SendPinIfPermittedCalm
<1>12. Good(n, seen, sent, m)
  BY <1>6, <1>9, <1>11, CalmGood
<1>13. Good(n, sent, TryFinishPin(sent), m)
  BY <1>12, TryFinishPinGood DEF Good
<1>14. OnPinState(h, m) = TryFinishPin(sent)
  BY DEF OnPinState, seen
<1> QED
  BY <1>10, <1>12, <1>13, <1>14, GoodTrans

LEMMA OnPinInputGood ==
    ASSUME config \in Configs, NEW n \in Node, NEW h, NodeOK(n, h), ~Ended(h), NEW m \in PinInputMsg
    PROVE  Good(n, h, OnPinInput(n, h, m), m)
<1>1. h \in Handshake /\ Calm(n, h, h) /\ PinPart(n, h) /\ m.kind = "PinInput"
  BY CalmRefl DEF NodeOK, PinInputMsg
<1>2. CASE h.timers.pin_penalty # None
  BY <1>1, <1>2, SendPinStateCalm, CalmGood DEF OnPinInput
<1>3. CASE h.timers.pin_penalty = None /\ config[n].pin # "None" /\ m.pin = "right"
  <2> DEFINE g == [h EXCEPT !.local_pin_state = "PinOk"]
             x == PinState("PinOk", FALSE)
             k == Send(g, x)
  <2>1. /\ g \in Handshake
        /\ g.phase = h.phase /\ g.outbox = h.outbox /\ g.timers = h.timers
        /\ g.local_ready = h.local_ready /\ g.remote_ready = h.remote_ready
        /\ g.local_pin_state = "PinOk" /\ g.peer_pin_state = h.peer_pin_state
        /\ g.proposed = h.proposed /\ g.negotiated = h.negotiated
    BY <1>1 DEF Handshake, PinStates
  <2> HIDE DEF g
  <2>2. HelloPart(g) /\ TimerPart(g) /\ PinPart(n, g) /\ ~Ended(g)
    BY <2>1 DEF NodeOK, HelloPart, TimerPart, PinPart, Ended
  <2>3. IF n = "Server" THEN ServerPart(g) ELSE ClientPart(g)
    BY <2>1 DEF NodeOK, ServerPart, ClientPart
  <2>4. \A i \in 1 .. Len(g.outbox) : Fits(n, g, g.outbox[i].msg)
    BY <2>1 DEF NodeOK, Fits
  <2>5. NodeOK(n, g)
    BY <2>1, <2>2, <2>3, <2>4 DEF NodeOK
  <2>6. Good(n, h, g, m)
    BY <1>1, <2>1, <2>5 DEF Good, Mono, Learns
  <2>7. x \in Message /\ Fits(n, g, x)
    BY DEF PinState, PinStateMsg, PinStates, Message, Fits
  <2>8. Good(n, g, k, m)
    BY <2>2, <2>5, <2>7, CalmRefl, CalmSend, CalmGood
  <2>9. Good(n, k, TryFinishPin(k), m)
    BY <2>8, TryFinishPinGood DEF Good
  <2>10. OnPinInput(n, h, m) = TryFinishPin(k)
    BY <1>3 DEF OnPinInput, g
  <2> QED
    BY <2>6, <2>8, <2>9, <2>10, GoodTrans
<1>4. CASE h.timers.pin_penalty = None /\ ~(config[n].pin # "None" /\ m.pin = "right")
  <2> DEFINE g == [h EXCEPT !.pin_attempts = @ + 1]
             refused == Send(g, PinError)
             penalty == PinPenalty(refused.pin_attempts)
             held == [refused EXCEPT !.timers.pin_penalty = penalty]
  <2>1. g = [h EXCEPT !.pin_attempts = h.pin_attempts + 1] /\ h.pin_attempts + 1 \in Nat
    BY <1>1 DEF Handshake
  <2>2. Core(h, g) /\ g.outbox = h.outbox
    BY <1>1, <2>1 DEF Handshake, Core
  <2>3. Calm(n, h, g)
    BY <1>1, <2>2, CalmSilent
  <2> HIDE DEF g
  <2>4. PinError \in Message /\ Fits(n, h, PinError)
    BY DEF PinError, OtherMsg, Message, Fits
  <2>5. Calm(n, h, refused)
    BY <2>3, <2>4, CalmSend
  <2>6. refused \in Handshake
    BY <2>5 DEF Calm, Core
  <2> HIDE DEF refused
  <2>7. penalty \in Time
    BY Constants DEF PinPenalty, Time
  <2> HIDE DEF penalty
  <2>8. held = [refused EXCEPT !.timers["pin_penalty"] = penalty]
    BY <2>6 DEF Handshake
  <2>9. Core(refused, held) /\ held.outbox = refused.outbox
    BY <2>6, <2>7, <2>8, SetTimer, TimerNamesAre
  <2>10. Calm(n, h, held)
    BY <2>5, <2>9, CalmSilent
  <2>11. Calm(n, h, SendPinState(held))
    BY <1>1, <2>10, SendPinStateCalm
  <2>12. OnPinInput(n, h, m) = IF penalty = None THEN refused ELSE SendPinState(held)
    BY <1>4 DEF OnPinInput, g, refused, penalty
  <2>13. Calm(n, h, OnPinInput(n, h, m))
    BY <2>5, <2>11, <2>12
  <2> QED
    BY <2>13, CalmGood
<1> QED
  BY <1>2, <1>3, <1>4

-----------------------------------------------------------------------------
(***************************************************************************)
(* Protocol handshake.                                                     *)
(***************************************************************************)
\* The fields EnterPin leaves alone.
Same(h, g) ==
    /\ g.local_ready = h.local_ready /\ g.remote_ready = h.remote_ready
    /\ g.local_pin_state = h.local_pin_state /\ g.peer_pin_state = h.peer_pin_state
    /\ g.proposed = h.proposed /\ g.negotiated = h.negotiated

LEMMA EnterPinOK ==
    ASSUME NEW n \in Node, NEW h \in Handshake, h.phase = "ProtocolHandshake",
           HelloPart(h), PinPart(n, h), Outs(n, h),
           IF n = "Server" THEN ServerPart(h) /\ h.proposed # <<>>
           ELSE h.negotiated # <<>> /\ Supported("Client", h.negotiated)
    PROVE  NodeOK(n, EnterPin(h)) /\ EnterPin(h).phase = "Pin" /\ Same(h, EnterPin(h))
<1> DEFINE g == [h EXCEPT !.phase = "Pin", !.timers.wait = WaitTimer]
<1>1. [h.timers EXCEPT !["wait"] = WaitTimer] \in Timers
  BY Constants DEF Timers, Time, Handshake
<1>2. g = [h EXCEPT !.phase = "Pin", !.timers = [h.timers EXCEPT !["wait"] = WaitTimer]]
  BY DEF Handshake
<1>3. /\ g \in Handshake /\ g.phase = "Pin" /\ g.outbox = h.outbox
      /\ Same(h, g)
  BY <1>1, <1>2 DEF Handshake, Phases, Same
<1> HIDE DEF g
<1>4. HelloPart(g) /\ TimerPart(g) /\ PinPart(n, g) /\ ~Ended(g)
  BY <1>3 DEF HelloPart, TimerPart, PinPart, Ended, Past, Same
<1>5. IF n = "Server" THEN ServerPart(g) ELSE ClientPart(g)
  BY <1>3 DEF ServerPart, ClientPart, Same
<1>6. Outs(n, g)
  BY <1>3 DEF Outs, Fits, Same
<1>7. NodeOK(n, g)
  BY <1>3, <1>4, <1>5, <1>6 DEF NodeOK, Outs
<1>8. Calm(n, g, SendPinState(g))
  BY <1>4, <1>7, CalmRefl, SendPinStateCalm
<1>9. NodeOK(n, SendPinState(g))
  BY <1>4, <1>7, <1>8, CalmGood DEF Good
<1> QED
  BY <1>3, <1>8, <1>9 DEF Calm, Core, Same, EnterPin, g

LEMMA SendProtocolErrorCalm ==
    ASSUME NEW n \in Node, NEW h, NodeOK(n, h)
    PROVE  Calm(n, h, SendProtocolError(h))
<1>1. ProtocolError \in Message /\ Fits(n, h, ProtocolError)
  BY DEF ProtocolError, OtherMsg, Message, Fits
<1> QED
  BY <1>1, CalmRefl, CalmSend DEF SendProtocolError

LEMMA RefusedGood ==
    ASSUME NEW n \in Node, NEW h, NodeOK(n, h), ~Ended(h), NEW m, NEW reason \in AbortReasons
    PROVE  Good(n, h, Abort(SendProtocolError(h), reason), m) /\ Good(n, h, Mismatch(h), m)
<1>1. "SelectionMismatch" \in AbortReasons
  BY DEF AbortReasons
<1> QED
  BY <1>1, SendProtocolErrorCalm, CalmAbort DEF Mismatch

\* The format the server selects is one of its own.
LEMMA SelectFormatIs ==
    ASSUME config \in Configs, NEW n \in Node, NEW m, CommonFormats(n, m) # {}
    PROVE  SelectFormat(n, m) \in STRING /\ SelectFormat(n, m) \in Elements(config[n].formats)
<1>1. config[n].formats \in Seq(STRING)
  BY ConfigType
<1>2. CommonFormats(n, m) \subseteq DOMAIN config[n].formats /\ CommonFormats(n, m) \subseteq Nat
  BY <1>1 DEF CommonFormats
<1>3. \E i \in CommonFormats(n, m) : \A j \in CommonFormats(n, m) : i <= j
  <2>1. IsWellFoundedOn({ss \in Nat \X Nat : ss[1] < ss[2]}, Nat)
    BY NatLessThanWellFounded, Zenon DEF OpToRel
  <2>2. PICK i \in CommonFormats(n, m) : \A j \in CommonFormats(n, m) :
               <<j, i>> \notin {ss \in Nat \X Nat : ss[1] < ss[2]}
    BY <1>2, <2>1, WFMin, Zenon
  <2>3. ASSUME NEW j \in CommonFormats(n, m) PROVE i <= j
    <3>1. i \in Nat /\ j \in Nat
      BY <1>2
    <3>2. <<j, i>> \notin {ss \in Nat \X Nat : ss[1] < ss[2]}
      BY <2>2
    <3>3. <<j, i>> \in Nat \X Nat /\ <<j, i>>[1] = j /\ <<j, i>>[2] = i
      BY <3>1
    <3>4. ~(<<j, i>>[1] < <<j, i>>[2])
      BY <3>2, <3>3, Zenon
    <3> QED
      BY <3>1, <3>3, <3>4
  <2> QED
    BY <2>3
<1> DEFINE c == CHOOSE i \in CommonFormats(n, m) : \A j \in CommonFormats(n, m) : i <= j
<1>4. c \in CommonFormats(n, m)
  BY <1>3
<1>5. SelectFormat(n, m) = config[n].formats[c]
  BY DEF SelectFormat
<1> HIDE DEF c
<1> QED
  BY <1>1, <1>2, <1>4, <1>5 DEF Elements

LEMMA OnAnnounceMaxGood ==
    ASSUME config \in Configs, NEW h, NodeOK("Server", h), h.phase = "ProtocolHandshake",
           h.proposed = <<>>, NEW m \in ProtocolMsg
    PROVE  Good("Server", h, OnAnnounceMax("Server", h, m), m)
<1> DEFINE n == "Server"
           version == SelectVersion(n, m)
           format == SelectFormat(n, m)
           select == Protocol("Select", version, <<format>>)
           g == [h EXCEPT !.proposed = <<select>>, !.negotiated = <<version, format>>,
                          !.timers.wait = WaitTimer]
<1>0. n \in Node /\ ~Ended(h) /\ "UnexpectedMessage" \in AbortReasons
  BY DEF Node, Ended, AbortReasons
<1>1. CASE m.type # "AnnounceMax" \/ version < 100 \/ CommonFormats(n, m) = {}
  BY <1>0, <1>1, RefusedGood DEF OnAnnounceMax
<1>2. CASE m.type = "AnnounceMax" /\ ~(version < 100) /\ CommonFormats(n, m) # {}
  <2>1. version \in Nat /\ SupportsVersion(n, version)
    BY <1>0, <1>2, ConfigType DEF SelectVersion, SupportsVersion, ProtocolMsg
  <2>2. format \in STRING /\ format \in Elements(config[n].formats)
    BY <1>0, <1>2, SelectFormatIs
  <2>3. h \in Handshake /\ h.timers \in Timers
    BY DEF NodeOK, Handshake
  <2> HIDE DEF version, format
  <2>4. <<format>> \in Seq(STRING)
    BY <2>2
  <2>5. select \in ProtocolMsg /\ select.kind = "Protocol" /\ select.type = "Select"
        /\ select.version = version /\ select.formats = <<format>>
    BY <2>1, <2>4 DEF Protocol, ProtocolMsg
  <2>6. <<select>> \in Seq(ProtocolMsg) /\ <<version, format>> \in Nat \X STRING
    BY <2>1, <2>2, <2>5
  <2>7. Supported(n, <<version, format>>)
    BY <2>1, <2>2, <2>6 DEF Supported
  <2>8. /\ <<select>> = <<Protocol("Select", <<version, format>>[1], <<<<version, format>>[2]>>)>>
        /\ <<select>> # <<>> /\ <<version, format>> # <<>>
    OBVIOUS
  <2> DEFINE neg == <<version, format>>
             prop == <<select>>
  <2>9. prop = <<Protocol("Select", neg[1], <<neg[2]>>)>> /\ prop # <<>> /\ neg # <<>>
        /\ neg \in Nat \X STRING /\ Supported(n, neg) /\ prop \in Seq(ProtocolMsg)
    BY <2>6, <2>7, <2>8
  <2>10. [h.timers EXCEPT !["wait"] = WaitTimer] \in Timers
    BY <2>3, Constants DEF Timers, Time
  <2>11. g = [h EXCEPT !.proposed = prop, !.negotiated = neg,
                       !.timers = [h.timers EXCEPT !["wait"] = WaitTimer]]
    BY <2>3 DEF Handshake
  <2>13. prop = <<select>>
    OBVIOUS
  <2> HIDE DEF neg, prop
  <2>14. /\ g \in Handshake /\ g.phase = h.phase /\ g.outbox = h.outbox
         /\ g.local_ready = h.local_ready /\ g.remote_ready = h.remote_ready
         /\ g.local_pin_state = h.local_pin_state /\ g.peer_pin_state = h.peer_pin_state
         /\ g.proposed = prop /\ g.negotiated = neg
    BY <2>3, <2>9, <2>10, <2>11 DEF Handshake
  <2> HIDE DEF g
  <2>15. HelloPart(g) /\ TimerPart(g) /\ PinPart(n, g) /\ ~Ended(g)
    BY <1>0, <2>14 DEF NodeOK, HelloPart, TimerPart, PinPart, Ended
  <2>16. ServerPart(g)
    BY <2>9, <2>14 DEF ServerPart
  <2>17. Outs(n, g)
    <3>1. \A x : <<x>> # <<>>
      OBVIOUS
    <3> SUFFICES ASSUME NEW i \in 1 .. Len(h.outbox) PROVE Fits(n, g, h.outbox[i].msg)
      BY <2>14 DEF Outs
    <3>2. Fits(n, h, h.outbox[i].msg)
      BY DEF NodeOK
    <3> QED
      BY <3>1, <3>2, <2>14 DEF Fits
  <2>18. NodeOK(n, g)
    BY <2>14, <2>15, <2>16, <2>17 DEF NodeOK, Outs
  <2>19. Mono(h, g) /\ Learns(n, h, g, m)
    <3>1. h.negotiated = <<>>
      BY <2>3 DEF NodeOK, ServerPart
    <3> QED
      BY <3>1, <2>14 DEF Mono, Learns, Opened
  <2>20. Fits(n, g, select) /\ select \in Message
    BY <2>5, <2>13, <2>14 DEF Fits, Message
  <2>21. Good(n, g, Send(g, select), m)
    BY <1>0, <2>15, <2>18, <2>20, CalmRefl, CalmSend, CalmGood
  <2>22. OnAnnounceMax(n, h, m) = Send(g, select)
    BY <1>2 DEF OnAnnounceMax, g, version, format
  <2> QED
    BY <1>0, <2>18, <2>19, <2>21, <2>22, GoodTrans DEF Good
<1> QED
  BY <1>1, <1>2

LEMMA OnConfirmationGood ==
    ASSUME NEW h, NodeOK("Server", h), h.phase = "ProtocolHandshake",
           h.proposed # <<>>, NEW m \in ProtocolMsg
    PROVE  Good("Server", h, OnConfirmation(h, m), m)
<1>0. "Server" \in Node /\ ~Ended(h) /\ "UnexpectedMessage" \in AbortReasons
  BY DEF Node, Ended, AbortReasons
<1>1. CASE h.proposed = <<m>>
  <2>1. h \in Handshake /\ HelloPart(h) /\ PinPart("Server", h) /\ Outs("Server", h) /\ ServerPart(h)
    BY DEF NodeOK, Outs
  <2> DEFINE g == EnterPin(h)
  <2>2. NodeOK("Server", g) /\ g.phase = "Pin" /\ Same(h, g)
    BY <1>0, <2>1, EnterPinOK
  <2> HIDE DEF g
  <2>3. Mono(h, g) /\ Learns("Server", h, g, m)
    BY <1>1, <2>2 DEF Mono, Learns, Same, ProtocolMsg
  <2>4. OnConfirmation(h, m) = g
    BY <1>1 DEF OnConfirmation, g
  <2> QED
    BY <2>2, <2>3, <2>4 DEF Good
<1>2. CASE h.proposed # <<m>>
  BY <1>0, <1>2, RefusedGood DEF OnConfirmation
<1> QED
  BY <1>1, <1>2

LEMMA OnSelectGood ==
    ASSUME config \in Configs, NEW h, NodeOK("Client", h), h.phase = "ProtocolHandshake",
           NEW m \in ProtocolMsg
    PROVE  Good("Client", h, OnSelect("Client", h, m), m)
<1> DEFINE n == "Client"
           neg == <<m.version, m.formats[1]>>
           g == [h EXCEPT !.negotiated = neg]
           k == Send(g, m)
<1>0. n \in Node /\ ~Ended(h) /\ "UnexpectedMessage" \in AbortReasons
  BY DEF Node, Ended, AbortReasons
<1>1. CASE ~(m.type = "Select" /\ SupportsVersion(n, m.version) /\ Len(m.formats) = 1
             /\ m.formats[1] \in Elements(config[n].formats))
  BY <1>0, <1>1, RefusedGood DEF OnSelect
<1>2. CASE m.type = "Select" /\ SupportsVersion(n, m.version) /\ Len(m.formats) = 1
           /\ m.formats[1] \in Elements(config[n].formats)
  <2>1. m.kind = "Protocol" /\ m.version \in Nat /\ m.formats \in Seq(STRING) /\ m \in Message
    BY DEF ProtocolMsg, Message
  <2>2. m.formats[1] \in STRING
    BY <1>2, <2>1
  <2>3. neg \in Nat \X STRING /\ neg # <<>> /\ neg[1] = m.version /\ neg[2] = m.formats[1]
    BY <2>1, <2>2
  <2>4. Supported(n, neg)
    BY <1>2, <2>3 DEF Supported
  <2>5. neg = <<m.version, m.formats[1]>>
    OBVIOUS
  <2> HIDE DEF neg
  <2>6. h \in Handshake /\ h.negotiated = <<>> /\ HelloPart(h) /\ PinPart(n, h)
    BY <1>0 DEF NodeOK, ClientPart
  <2>7. /\ g \in Handshake /\ g.phase = h.phase /\ g.outbox = h.outbox
        /\ g.local_ready = h.local_ready /\ g.remote_ready = h.remote_ready
        /\ g.local_pin_state = h.local_pin_state /\ g.peer_pin_state = h.peer_pin_state
        /\ g.proposed = h.proposed /\ g.negotiated = neg
    BY <2>3, <2>6 DEF Handshake
  <2> HIDE DEF g
  <2>8. HelloPart(g) /\ PinPart(n, g)
    BY <2>6, <2>7 DEF HelloPart, PinPart
  <2>9. Outs(n, g)
    BY <2>6, <2>7 DEF NodeOK, Outs, Fits
  <2>10. Fits(n, g, m)
    BY <2>1, <2>3, <2>5, <2>7, <1>2 DEF Fits
  <2>11. Calm(n, g, k)
    BY <1>0, <2>1, <2>7, <2>9, <2>10, CalmSend DEF Calm, Core
  <2> HIDE DEF k
  <2>12. /\ k \in Handshake /\ k.phase = "ProtocolHandshake" /\ HelloPart(k) /\ PinPart(n, k)
         /\ Outs(n, k) /\ k.negotiated # <<>> /\ Supported("Client", k.negotiated)
    BY <2>3, <2>4, <2>7, <2>8, <2>11 DEF Calm, Core, HelloPart, PinPart
  <2>13. NodeOK(n, EnterPin(k)) /\ EnterPin(k).phase = "Pin" /\ Same(k, EnterPin(k))
    BY <1>0, <2>12, EnterPinOK
  <2>14. OnSelect(n, h, m) = EnterPin(k)
    BY <1>2 DEF OnSelect, k, g, neg
  <2> DEFINE e == EnterPin(k)
  <2>15. NodeOK(n, e) /\ e.phase = "Pin" /\ Same(k, e)
    BY <2>13
  <2> HIDE DEF e
  <2>16. Mono(h, e) /\ Learns(n, h, e, m)
    BY <1>2, <2>1, <2>5, <2>6, <2>7, <2>11, <2>15 DEF Mono, Learns, Same, Calm, Core
  <2> QED
    BY <2>14, <2>15, <2>16 DEF Good, e
<1> QED
  BY <1>1, <1>2

LEMMA OnProtocolHandshakeGood ==
    ASSUME config \in Configs, NEW n \in Node, NEW h, NodeOK(n, h), ~Ended(h), NEW m \in ProtocolMsg
    PROVE  Good(n, h, OnProtocolHandshake(n, h, m), m)
<1> DEFINE g == Served(h, "wait")
<1>0. "UnexpectedMessage" \in AbortReasons
  BY DEF AbortReasons
<1>1. CASE h.phase # "ProtocolHandshake"
  BY <1>0, <1>1, AbortGood DEF OnProtocolHandshake
<1>2. CASE h.phase = "ProtocolHandshake"
  <2>1. Calm(n, h, h) /\ h \in Handshake
    BY CalmRefl
  <2>2. Core(h, g) /\ g.outbox = h.outbox
    BY <2>1, SetTimer, TimerNamesAre DEF Served, Time
  <2>3. Good(n, h, g, m) /\ g.phase = "ProtocolHandshake"
    BY <1>2, <2>1, <2>2, CalmSilent, CalmGood DEF Core
  <2>4. NodeOK(n, g)
    BY <2>3 DEF Good
  <2>5. OnProtocolHandshake(n, h, m) =
          IF n = "Client" THEN OnSelect(n, g, m)
          ELSE IF g.proposed = <<>> THEN OnAnnounceMax(n, g, m)
          ELSE OnConfirmation(g, m)
    BY <1>2 DEF OnProtocolHandshake
  <2> HIDE DEF g
  <2>6. Good(n, g, OnProtocolHandshake(n, h, m), m)
    <3>1. CASE n = "Client"
      BY <3>1, <2>3, <2>4, <2>5, OnSelectGood
    <3>2. CASE n = "Server" /\ g.proposed = <<>>
      BY <3>2, <2>3, <2>4, <2>5, OnAnnounceMaxGood
    <3>3. CASE n = "Server" /\ g.proposed # <<>>
      BY <3>3, <2>3, <2>4, <2>5, OnConfirmationGood
    <3> QED
      BY <3>1, <3>2, <3>3 DEF Node
  <2> QED
    BY <2>3, <2>6, GoodTrans
<1> QED
  BY <1>1, <1>2

-----------------------------------------------------------------------------
(***************************************************************************)
(* Hello.                                                                  *)
(***************************************************************************)
LEMMA ArmProlongationSilent ==
    ASSUME config \in Configs, NEW n \in Node, NEW h \in Handshake
    PROVE  /\ Core(h, ArmProlongation(n, h)) /\ ArmProlongation(n, h).outbox = h.outbox
           /\ \E d \in Time : ArmProlongation(n, h) = [h EXCEPT !.timers["send_prolongation"] = d]
<1> DEFINE announced == IF h.peer_waiting = None THEN config[n].hello_init ELSE h.peer_waiting
           patience == IF h.peer_deadline = None THEN config[n].hello_init ELSE h.peer_deadline
           at == patience - ProlongWaitingGap
           d == IF h.local_ready \/ announced < ProlongThrInc THEN None
                ELSE IF at < ProlongMin THEN 0 ELSE at
<1>1. patience \in Nat
  BY ConfigType DEF Handshake, Time, None
<1> HIDE DEF patience
<1>2. at \in Int /\ (~(at < ProlongMin) => at \in Nat)
  BY <1>1, Constants
<1> HIDE DEF at
<1>3. d \in Time
  BY <1>2 DEF Time
<1>4. ArmProlongation(n, h) = [h EXCEPT !.timers["send_prolongation"] = d]
  BY DEF ArmProlongation, Handshake, at, patience
<1> QED
  BY <1>3, <1>4, SetTimer, TimerNamesAre

LEMMA SendHelloCalm ==
    ASSUME NEW n \in Node, NEW h, NEW g, Calm(n, h, g),
           NEW phase \in {"Ready", "Pending", "Aborted"}, NEW w \in Time, NEW b \in BOOLEAN,
           phase = "Ready" => h.local_ready
    PROVE  Calm(n, h, Send(g, ConnectionHello(phase, w, b)))
<1>1. ConnectionHello(phase, w, b) \in Message
  BY DEF ConnectionHello, HelloMsg, Message
<1>2. Fits(n, h, ConnectionHello(phase, w, b))
  BY DEF ConnectionHello, Fits
<1> QED
  BY <1>1, <1>2, CalmSend

LEMMA SetTimerCalm ==
    ASSUME NEW n \in Node, NEW h, NEW g, Calm(n, h, g), NEW t \in TimerNames, NEW d \in Time
    PROVE  Calm(n, h, [g EXCEPT !.timers[t] = d])
<1>1. g \in Handshake
  BY DEF Calm, Core
<1>2. Core(g, [g EXCEPT !.timers[t] = d]) /\ [g EXCEPT !.timers[t] = d].outbox = g.outbox
  BY <1>1, SetTimer
<1> QED
  BY <1>2, CalmSilent

LEMMA SendProlongationRequestCalm ==
    ASSUME config \in Configs, NEW n \in Node, NEW h, NEW g, Calm(n, h, g)
    PROVE  Calm(n, h, SendProlongationRequest(n, g))
<1> DEFINE window == IF g.peer_waiting = None THEN config[n].hello_init
                     ELSE IF g.peer_waiting < ProlongMin THEN ProlongMin
                     ELSE g.peer_waiting
           k == Send(g, ConnectionHello(HelloPhase(g), config[n].hello_init, TRUE))
<1>1. g.local_ready = h.local_ready /\ g \in Handshake
  BY DEF Calm, Core
<1>2. window \in Time /\ config[n].hello_init \in Time
  BY <1>1, Constants, ConfigType DEF Handshake, Time
<1>3. Calm(n, h, k)
  BY <1>1, <1>2, SendHelloCalm DEF HelloPhase
<1>4. k \in Handshake
  BY <1>3 DEF Calm, Core
<1>5. SendProlongationRequest(n, g) = [k EXCEPT !.timers.prolongation_reply = window]
  BY DEF SendProlongationRequest
<1> HIDE DEF window, k
<1>6. [k EXCEPT !.timers.prolongation_reply = window]
        = [k EXCEPT !.timers["prolongation_reply"] = window]
  BY <1>4 DEF Handshake
<1> QED
  BY <1>2, <1>3, <1>5, <1>6, SetTimerCalm, TimerNamesAre

LEMMA AcceptProlongationCalm ==
    ASSUME config \in Configs, NEW n \in Node, NEW h, NEW g, Calm(n, h, g)
    PROVE  Calm(n, h, AcceptProlongation(n, g))
<1> DEFINE k == Send(g, ConnectionHello(HelloPhase(g), config[n].hello_init, FALSE))
<1>1. g.local_ready = h.local_ready
  BY DEF Calm, Core
<1>2. config[n].hello_init \in Time
  BY ConfigType DEF Time
<1>3. Calm(n, h, k)
  BY <1>1, <1>2, SendHelloCalm DEF HelloPhase
<1>4. k \in Handshake
  BY <1>3 DEF Calm, Core
<1>5. AcceptProlongation(n, g) = [k EXCEPT !.timers.wait_for_ready = config[n].hello_init]
  BY DEF AcceptProlongation
<1> HIDE DEF k
<1>6. [k EXCEPT !.timers.wait_for_ready = config[n].hello_init]
        = [k EXCEPT !.timers["wait_for_ready"] = config[n].hello_init]
  BY <1>4 DEF Handshake
<1> QED
  BY <1>2, <1>3, <1>5, <1>6, SetTimerCalm, TimerNamesAre

\* A node in the hello phase that has announced or heard something, and has
\* not yet looked whether that was the last approval missing.
Met(n, h, g, m) ==
    /\ g \in Handshake /\ g.phase = "Hello" /\ Outs(n, g)
    /\ h.local_ready => g.local_ready
    /\ g.remote_ready => h.remote_ready \/ (m.kind = "Hello" /\ m.phase = "Ready")
    /\ g.local_pin_state = h.local_pin_state /\ g.peer_pin_state = h.peer_pin_state
    /\ g.proposed = h.proposed /\ g.negotiated = h.negotiated

LEMMA MetGood ==
    ASSUME NEW n \in Node, NEW h, NodeOK(n, h), h.phase = "Hello", NEW g, NEW m, Met(n, h, g, m),
           ~(g.local_ready /\ g.remote_ready)
    PROVE  Good(n, h, g, m)
<1>1. HelloPart(g) /\ TimerPart(g) /\ PinPart(n, g)
  BY DEF Met, NodeOK, HelloPart, TimerPart, PinPart, Past, Ended
<1>2. IF n = "Server" THEN ServerPart(g) ELSE ClientPart(g)
  BY DEF Met, NodeOK, ServerPart, ClientPart
<1>3. NodeOK(n, g)
  BY <1>1, <1>2 DEF NodeOK, Met, Outs
<1>4. Mono(h, g) /\ Learns(n, h, g, m)
  BY DEF Met, Mono, Learns, Opened
<1> QED
  BY <1>3, <1>4 DEF Good

LEMMA EnterProtocolHandshakeGood ==
    ASSUME config \in Configs, NEW n \in Node, NEW h, NodeOK(n, h), h.phase = "Hello",
           NEW g, NEW m, Met(n, h, g, m), g.local_ready, g.remote_ready
    PROVE  /\ Good(n, h, EnterProtocolHandshake(n, g), m)
           /\ EnterProtocolHandshake(n, g).phase = "ProtocolHandshake"
<1> DEFINE k == [g EXCEPT !.phase = "ProtocolHandshake", !.timers.wait = WaitTimer]
           x == Protocol("AnnounceMax", config[n].max_version, config[n].formats)
<1>1. g \in Handshake /\ g.timers \in Timers
  BY DEF Met, Handshake
<1>2. [g.timers EXCEPT !["wait"] = WaitTimer] \in Timers
  BY <1>1, Constants DEF Timers, Time
<1>3. k = [g EXCEPT !.phase = "ProtocolHandshake", !.timers = [g.timers EXCEPT !["wait"] = WaitTimer]]
  BY <1>1 DEF Handshake
<1>4. k \in Handshake /\ k.phase = "ProtocolHandshake" /\ k.outbox = g.outbox /\ Same(g, k)
  BY <1>1, <1>2, <1>3 DEF Handshake, Phases, Same
<1>5. EnterProtocolHandshake(n, g) = IF n = "Client" THEN Send(k, x) ELSE k
  BY DEF EnterProtocolHandshake
<1> HIDE DEF k
<1>6. HelloPart(k) /\ TimerPart(k) /\ PinPart(n, k) /\ ~Ended(k)
  BY <1>4 DEF Met, NodeOK, HelloPart, TimerPart, PinPart, Past, Ended, Same
<1>7. IF n = "Server" THEN ServerPart(k) ELSE ClientPart(k)
  BY <1>4 DEF Met, NodeOK, ServerPart, ClientPart, Same, Opened
<1>8. Outs(n, k)
  BY <1>4 DEF Met, Outs, Fits, Same
<1>9. NodeOK(n, k)
  BY <1>4, <1>6, <1>7, <1>8 DEF NodeOK, Outs
<1>10. Mono(h, k) /\ Learns(n, h, k, m)
  BY <1>4 DEF Met, Mono, Learns, Opened, Same
<1>11. x \in Message /\ Fits(n, k, x)
  <2>1. x \in ProtocolMsg
    BY ConfigType DEF Protocol, ProtocolMsg
  <2> QED
    BY <2>1 DEF Message, Fits, Protocol
<1>12. Calm(n, k, Send(k, x))
  BY <1>9, <1>11, CalmRefl, CalmSend
<1>13. Good(n, k, Send(k, x), m) /\ Send(k, x).phase = "ProtocolHandshake"
  BY <1>4, <1>6, <1>9, <1>12, CalmGood DEF Calm, Core
<1> QED
  BY <1>4, <1>5, <1>9, <1>10, <1>13, GoodTrans DEF Good

LEMMA TryFinishHelloGood ==
    ASSUME config \in Configs, NEW n \in Node, NEW h, NodeOK(n, h), h.phase = "Hello",
           NEW g, NEW m, Met(n, h, g, m)
    PROVE  /\ Good(n, h, TryFinishHello(n, g), m)
           /\ TryFinishHello(n, g).phase \in {"Hello", "ProtocolHandshake"}
<1>1. CASE g.local_ready /\ g.remote_ready
  <2> DEFINE t == [[[g.timers EXCEPT !["wait_for_ready"] = None]
                       EXCEPT !["send_prolongation"] = None]
                       EXCEPT !["prolongation_reply"] = None]
             k == [g EXCEPT !.timers.wait_for_ready = None,
                            !.timers.send_prolongation = None,
                            !.timers.prolongation_reply = None]
  <2>1. g \in Handshake /\ g.timers \in Timers
    BY DEF Met, Handshake
  <2>2. t \in Timers
    BY <2>1 DEF Timers, Time
  <2>3. k = [g EXCEPT !.timers = t]
    BY <2>1 DEF Handshake
  <2>4. TryFinishHello(n, g) = EnterProtocolHandshake(n, k)
    BY <1>1 DEF TryFinishHello
  <2> HIDE DEF t
  <2>5. Core(g, k) /\ k.outbox = g.outbox
    BY <2>1, <2>2, <2>3, SetTimers
  <2> HIDE DEF k
  <2>6. Outs(n, k)
    BY <2>5, FitsByCore DEF Met, Outs
  <2>7. Met(n, h, k, m) /\ k.local_ready /\ k.remote_ready
    BY <1>1, <2>5, <2>6 DEF Met, Core
  <2> QED
    BY <2>4, <2>7, EnterProtocolHandshakeGood
<1>2. CASE ~(g.local_ready /\ g.remote_ready)
  BY <1>2, MetGood DEF TryFinishHello, Met
<1> QED
  BY <1>1, <1>2

LEMMA AnnounceHelloMet ==
    ASSUME config \in Configs, NEW n \in Node, NEW h, NodeOK(n, h), h.phase = "Hello", NEW m,
           h.trust = Pending \/ h.trust >= MIN_USER_TRUST
    PROVE  /\ Met(n, h, AnnounceHello(n, h), m)
           /\ AnnounceHello(n, h).remote_ready = h.remote_ready
<1> DEFINE ready == h.trust # Pending
           wait == config[n].hello_init
           hello == ConnectionHello(IF ready THEN "Ready" ELSE "Pending", wait, FALSE)
           s == [h EXCEPT !.local_ready = h.local_ready \/ ready]
           t == Send(s, hello)
           k == [t EXCEPT !.timers["wait_for_ready"] = wait]
<1>1. h \in Handshake /\ h.local_ready \in BOOLEAN
  BY DEF NodeOK, Handshake
<1>2. wait \in Time
  BY ConfigType DEF Time
<1>3. [Send(h, hello) EXCEPT !.local_ready = @ \/ ready, !.timers.wait_for_ready = wait] = k
  BY <1>1 DEF Send, Handshake
<1>4. AnnounceHello(n, h) = ArmProlongation(n, k)
  BY <1>3 DEF AnnounceHello
<1>5. /\ s \in Handshake /\ s.phase = "Hello" /\ s.outbox = h.outbox
      /\ s.local_ready = (h.local_ready \/ ready) /\ s.remote_ready = h.remote_ready
      /\ s.local_pin_state = h.local_pin_state /\ s.peer_pin_state = h.peer_pin_state
      /\ s.proposed = h.proposed /\ s.negotiated = h.negotiated
  BY <1>1 DEF Handshake
<1> HIDE DEF s, wait
<1>6. Outs(n, s)
  <2>1. h.local_ready => s.local_ready
    BY <1>5, Zenon
  <2> SUFFICES ASSUME NEW i \in 1 .. Len(h.outbox) PROVE Fits(n, s, h.outbox[i].msg)
    BY <1>5 DEF Outs
  <2>2. Fits(n, h, h.outbox[i].msg)
    BY DEF NodeOK
  <2> HIDE DEF ready
  <2> QED
    BY <2>1, <2>2, <1>5 DEF Fits
<1>7. Calm(n, s, s)
  BY <1>5, <1>6 DEF Calm, Core
<1>8. Calm(n, s, t)
  BY <1>2, <1>5, <1>7, SendHelloCalm
<1> HIDE DEF t
<1>9. Calm(n, s, k)
  BY <1>2, <1>8, SetTimerCalm, TimerNamesAre
<1> HIDE DEF k
<1>10. Calm(n, s, ArmProlongation(n, k))
  BY <1>9, ArmProlongationSilent, CalmSilent DEF Calm, Core
<1> QED
  BY <1>4, <1>5, <1>10 DEF Met, Calm, Core

LEMMA AnnounceHelloRefused ==
    ASSUME NEW n \in Node, NEW h, NodeOK(n, h), h.phase = "Hello", NEW m,
           ~(h.trust = Pending \/ h.trust >= MIN_USER_TRUST)
    PROVE  /\ Good(n, h, AnnounceHello(n, h), m)
           /\ TryFinishHello(n, AnnounceHello(n, h)) = AnnounceHello(n, h)
<1> DEFINE k == Send(h, ConnectionHello("Aborted", None, FALSE))
           a == Abort(k, "TrustRejected")
<1>1. Calm(n, h, k)
  BY CalmRefl, SendHelloCalm DEF Time
<1>2. ~Ended(h) /\ "TrustRejected" \in AbortReasons
  BY DEF Ended, AbortReasons
<1>3. Good(n, h, a, m)
  BY <1>1, <1>2, CalmAbort
<1>4. AnnounceHello(n, h) = a
  BY DEF AnnounceHello
<1>5. k \in Handshake /\ k.local_ready = h.local_ready /\ k.remote_ready = h.remote_ready
  BY <1>1 DEF Calm, Core
<1> HIDE DEF k
<1>6. a.local_ready = h.local_ready /\ a.remote_ready = h.remote_ready
  BY <1>5 DEF Abort, Handshake
<1>7. ~(a.local_ready /\ a.remote_ready)
  BY <1>6 DEF NodeOK, HelloPart
<1> QED
  BY <1>3, <1>4, <1>7 DEF TryFinishHello

LEMMA HearReadyGood ==
    ASSUME config \in Configs, NEW n \in Node, NEW h, NodeOK(n, h), h.phase = "Hello",
           NEW m, m.kind = "Hello", m.phase = "Ready"
    PROVE  Good(n, h, HearReady(n, h), m)
<1> DEFINE w == IF h.local_ready THEN h.timers["wait_for_ready"] ELSE None
           t == [[h.timers EXCEPT !["prolongation_reply"] = None] EXCEPT !["wait_for_ready"] = w]
           g == [h EXCEPT !.remote_ready = TRUE, !.timers = t]
<1>1. h \in Handshake /\ h.timers \in Timers
  BY DEF NodeOK, Handshake
<1>2. w \in Time /\ t \in Timers
  BY <1>1, TimerNamesAre DEF Timers, Time
<1>3. [h EXCEPT !.remote_ready = TRUE, !.timers.prolongation_reply = None,
                !.timers.wait_for_ready = IF h.local_ready THEN @ ELSE None] = g
  BY <1>1 DEF Handshake, Timers
<1>4. HearReady(n, h) = TryFinishHello(n, g)
  BY <1>3 DEF HearReady
<1> HIDE DEF t
<1>5. /\ g \in Handshake /\ g.phase = "Hello" /\ g.outbox = h.outbox
      /\ g.local_ready = h.local_ready
      /\ g.local_pin_state = h.local_pin_state /\ g.peer_pin_state = h.peer_pin_state
      /\ g.proposed = h.proposed /\ g.negotiated = h.negotiated
  BY <1>1, <1>2 DEF Handshake
<1> HIDE DEF g
<1>6. Outs(n, g)
  BY <1>5 DEF NodeOK, Outs, Fits
<1>7. Met(n, h, g, m)
  BY <1>5, <1>6 DEF Met
<1> QED
  BY <1>4, <1>7, TryFinishHelloGood

LEMMA HearPendingGood ==
    ASSUME NEW n \in Node, NEW h, NodeOK(n, h), h.phase = "Hello", NEW m
    PROVE  Good(n, h, HearPending(h), m)
<1> DEFINE t == [h.timers EXCEPT !["prolongation_reply"] = None]
           g == [h EXCEPT !.remote_ready = FALSE, !.timers = t]
<1>1. h \in Handshake /\ h.timers \in Timers
  BY DEF NodeOK, Handshake
<1>2. t \in Timers
  BY <1>1 DEF Timers, Time
<1>3. HearPending(h) = g
  BY <1>1 DEF Handshake, HearPending
<1> HIDE DEF t
<1>5. /\ g \in Handshake /\ g.phase = "Hello" /\ g.outbox = h.outbox
      /\ g.local_ready = h.local_ready /\ ~g.remote_ready
      /\ g.local_pin_state = h.local_pin_state /\ g.peer_pin_state = h.peer_pin_state
      /\ g.proposed = h.proposed /\ g.negotiated = h.negotiated
  BY <1>1, <1>2 DEF Handshake
<1> HIDE DEF g
<1>6. Outs(n, g)
  BY <1>5 DEF NodeOK, Outs, Fits
<1>7. Met(n, h, g, m)
  BY <1>5, <1>6 DEF Met
<1> QED
  BY <1>3, <1>5, <1>7, MetGood

LEMMA OnHelloGood ==
    ASSUME config \in Configs, NEW n \in Node, NEW h, NodeOK(n, h), ~Ended(h), NEW m \in HelloMsg
    PROVE  Good(n, h, OnHello(n, h, m), m)
<1> DEFINE noted == IF m.waiting = None THEN h
                    ELSE [h EXCEPT !.peer_waiting = m.waiting, !.peer_deadline = m.waiting]
           heard == IF m.phase = "Aborted" THEN Abort(noted, "PeerAborted")
                    ELSE IF m.phase = "Pending" THEN HearPending(noted)
                    ELSE IF ~h.local_ready /\ m.waiting = None
                    THEN Abort(noted, "UnexpectedMessage")
                    ELSE HearReady(n, noted)
           answered == IF m.prolongation THEN AcceptProlongation(n, heard) ELSE heard
<1>1. CASE h.phase # "Hello"
  BY <1>1, GoodRefl DEF OnHello
<1>2. CASE h.phase = "Hello"
  <2>1. m.kind = "Hello" /\ m.phase \in {"Ready", "Pending", "Aborted"} /\ m.waiting \in Time
    BY DEF HelloMsg
  <2>2. "PeerAborted" \in AbortReasons /\ "UnexpectedMessage" \in AbortReasons
    BY DEF AbortReasons
  <2>3. Calm(n, h, h) /\ h \in Handshake
    BY CalmRefl
  <2>4. Calm(n, h, noted)
    <3>1. CASE m.waiting = None
      BY <2>3, <3>1
    <3>2. CASE m.waiting # None
      <4> DEFINE k == [h EXCEPT !.peer_waiting = m.waiting, !.peer_deadline = m.waiting]
      <4>1. Core(h, k) /\ k.outbox = h.outbox
        BY <2>1, <2>3 DEF Core, Handshake
      <4>2. noted = k
        BY <3>2
      <4> HIDE DEF k
      <4> QED
        BY <2>3, <4>1, <4>2, CalmSilent
    <3> QED
      BY <3>1, <3>2
  <2>5. Good(n, h, noted, m) /\ noted.phase = "Hello"
    BY <1>2, <2>4, CalmGood DEF Calm, Core
  <2>6. OnHello(n, h, m) = IF heard.phase # "Hello" THEN heard ELSE ArmProlongation(n, answered)
    BY <1>2 DEF OnHello
  <2> HIDE DEF noted
  <2>7. NodeOK(n, noted)
    BY <2>5 DEF Good
  <2>8. Good(n, noted, heard, m)
    BY <2>1, <2>2, <2>5, <2>7, AbortGood, HearPendingGood, HearReadyGood
  <2> HIDE DEF heard
  <2>9. Good(n, h, heard, m)
    BY <2>5, <2>8, GoodTrans
  <2>10. CASE heard.phase # "Hello"
    BY <2>6, <2>9, <2>10
  <2>11. CASE heard.phase = "Hello"
    <3>1. NodeOK(n, heard) /\ ~Ended(heard)
      BY <2>9, <2>11 DEF Good, Ended
    <3>2. Calm(n, heard, answered)
      BY <3>1, CalmRefl, AcceptProlongationCalm
    <3> HIDE DEF answered
    <3>3. Calm(n, heard, ArmProlongation(n, answered))
      BY <3>2, ArmProlongationSilent, CalmSilent DEF Calm, Core
    <3>4. Good(n, heard, ArmProlongation(n, answered), m)
      BY <3>1, <3>3, CalmGood
    <3> QED
      BY <2>6, <2>9, <2>11, <3>4, GoodTrans
  <2> QED
    BY <2>10, <2>11
<1> QED
  BY <1>1, <1>2

LEMMA OnCmiGood ==
    ASSUME config \in Configs, NEW n \in Node, NEW h, NodeOK(n, h), ~Ended(h), NEW m
    PROVE  Good(n, h, OnCmi(n, h), m)
<1>0. "UnexpectedMessage" \in AbortReasons
  BY DEF AbortReasons
<1>1. CASE h.phase # "Cmi"
  BY <1>0, <1>1, AbortGood DEF OnCmi
<1>2. CASE h.phase = "Cmi"
  <2> DEFINE t == [h.timers EXCEPT !["cmi"] = None]
             g == [h EXCEPT !.phase = "Hello", !.timers = t]
  <2>1. h \in Handshake /\ h.timers \in Timers
    BY DEF NodeOK, Handshake
  <2>2. t \in Timers
    BY <2>1 DEF Timers, Time
  <2>3. OnCmi(n, h) = AnnounceHello(n, g)
    BY <1>2, <2>1 DEF Handshake, OnCmi
  <2> HIDE DEF t
  <2>4. /\ g \in Handshake /\ g.phase = "Hello" /\ g.outbox = h.outbox /\ Same(h, g)
    BY <2>1, <2>2 DEF Handshake, Phases, Same
  <2> HIDE DEF g
  <2>5. HelloPart(g) /\ TimerPart(g) /\ PinPart(n, g) /\ ~g.remote_ready
    BY <1>2, <2>4 DEF NodeOK, HelloPart, TimerPart, PinPart, Ended, Past, Same
  <2>6. IF n = "Server" THEN ServerPart(g) ELSE ClientPart(g)
    BY <1>2, <2>4 DEF NodeOK, ServerPart, ClientPart, Opened, Same
  <2>7. Outs(n, g)
    BY <2>4 DEF NodeOK, Outs, Fits, Same
  <2>8. NodeOK(n, g)
    BY <2>4, <2>5, <2>6, <2>7 DEF NodeOK, Outs
  <2>9. Good(n, h, g, m)
    BY <2>4, <2>8 DEF Good, Mono, Learns, Same, Opened
  <2>10. Good(n, g, AnnounceHello(n, g), m)
    <3>1. CASE g.trust = Pending \/ g.trust >= MIN_USER_TRUST
      BY <3>1, <2>4, <2>5, <2>8, AnnounceHelloMet, MetGood
    <3>2. CASE ~(g.trust = Pending \/ g.trust >= MIN_USER_TRUST)
      BY <3>2, <2>4, <2>8, AnnounceHelloRefused
    <3> QED
      BY <3>1, <3>2
  <2> QED
    BY <2>3, <2>9, <2>10, GoodTrans
<1> QED
  BY <1>1, <1>2

LEMMA SetTrustGood ==
    ASSUME config \in Configs, NEW n \in Node, NEW h, NodeOK(n, h), ~Ended(h), NEW m, NEW trust \in Trusts
    PROVE  Good(n, h, SetTrust(n, h, trust), m)
<1> DEFINE g == [h EXCEPT !.trust = trust]
<1>1. Calm(n, h, h) /\ h \in Handshake
  BY CalmRefl
<1>2. Core(h, g) /\ g.outbox = h.outbox
  BY <1>1 DEF Core, Handshake
<1>3. SetTrust(n, h, trust) = IF h.phase = "Hello" THEN TryFinishHello(n, AnnounceHello(n, g)) ELSE g
  BY DEF SetTrust
<1> HIDE DEF g
<1>4. Good(n, h, g, m) /\ g.phase = h.phase
  BY <1>1, <1>2, CalmSilent, CalmGood DEF Core
<1>5. NodeOK(n, g)
  BY <1>4 DEF Good
<1>6. ASSUME h.phase = "Hello"
      PROVE  Good(n, g, TryFinishHello(n, AnnounceHello(n, g)), m)
  <2>1. CASE g.trust = Pending \/ g.trust >= MIN_USER_TRUST
    BY <1>4, <1>5, <1>6, <2>1, AnnounceHelloMet, TryFinishHelloGood
  <2>2. CASE ~(g.trust = Pending \/ g.trust >= MIN_USER_TRUST)
    BY <1>4, <1>5, <1>6, <2>2, AnnounceHelloRefused
  <2> QED
    BY <2>1, <2>2
<1> QED
  BY <1>3, <1>4, <1>6, GoodTrans

-----------------------------------------------------------------------------
(***************************************************************************)
(* Key material, close and the timers.                                     *)
(***************************************************************************)
\* The messages that promise nothing.
LEMMA SendOtherCalm ==
    ASSUME NEW n \in Node, NEW h, NEW g, Calm(n, h, g), NEW x \in OtherMsg
    PROVE  Calm(n, h, Send(g, x))
<1>1. x \in Message /\ x.kind \notin {"Hello", "PinState", "PinInput", "Protocol"}
  BY DEF Message, OtherMsg
<1>2. Fits(n, h, x)
  BY <1>1 DEF Fits
<1> QED
  BY <1>1, <1>2, CalmSend

LEMMA OtherMessages ==
    /\ KeyMaterialState \in OtherMsg /\ KeyMaterialStateResponse \in OtherMsg
    /\ \A stale \in BOOLEAN : KeyMaterialStateRequest(stale) \in OtherMsg
    /\ AccessMethodsRequest \in OtherMsg /\ AccessMethods \in OtherMsg
    /\ Data \in OtherMsg /\ Cmi \in OtherMsg
    /\ ConnectionClose("Announce") \in OtherMsg /\ ConnectionClose("Confirm") \in OtherMsg
BY DEF KeyMaterialState, KeyMaterialStateResponse, KeyMaterialStateRequest, AccessMethodsRequest,
       AccessMethods, Data, Cmi, ConnectionClose, OtherMsg

LEMMA KeyMaterialTimerCalm ==
    ASSUME NEW n \in Node, NEW h, NEW g, Calm(n, h, g), NEW b \in BOOLEAN, NEW d \in Time
    PROVE  Calm(n, h, [g EXCEPT !.key_material_resent = b, !.timers.key_material = d])
<1> DEFINE k == [g EXCEPT !.key_material_resent = b]
<1>1. g \in Handshake
  BY DEF Calm, Core
<1>2. Core(g, k) /\ k.outbox = g.outbox
  BY <1>1 DEF Core, Handshake
<1>3. [g EXCEPT !.key_material_resent = b, !.timers.key_material = d]
        = [k EXCEPT !.timers["key_material"] = d]
  BY <1>1 DEF Handshake
<1> HIDE DEF k
<1>4. Calm(n, h, k)
  BY <1>2, CalmSilent
<1> QED
  BY <1>3, <1>4, SetTimerCalm, TimerNamesAre

LEMMA KeyMaterialCalm ==
    ASSUME NEW n \in Node, NEW h, NodeOK(n, h), NEW m
    PROVE  /\ Calm(n, h, SendKeyMaterial(n, h))
           /\ Calm(n, h, OnKeyMaterialStateRequest(n, h, m))
           /\ Calm(n, h, OnKeyMaterialStateResponse(h))
<1>1. Calm(n, h, h) /\ StateResponseTimeout \in Time /\ None \in Time
  BY CalmRefl, Constants DEF Time
<1>2. Calm(n, h, Send(h, KeyMaterialState))
  BY <1>1, SendOtherCalm, OtherMessages
<1>3. Calm(n, h, SendKeyMaterial(n, h))
  BY <1>1, <1>2, KeyMaterialTimerCalm DEF SendKeyMaterial
<1>4. Calm(n, h, OnKeyMaterialStateResponse(h))
  BY <1>1, KeyMaterialTimerCalm DEF OnKeyMaterialStateResponse
<1> QED
  BY <1>1, <1>3, <1>4 DEF OnKeyMaterialStateRequest

LEMMA KeyMaterialUnansweredGood ==
    ASSUME NEW n \in Node, NEW h, NodeOK(n, h), ~Ended(h), NEW m
    PROVE  Good(n, h, KeyMaterialUnanswered(h), m)
<1>1. Calm(n, h, h) /\ h \in Handshake /\ StateResponseTimeout \in Time
  BY CalmRefl, Constants DEF Time
<1>2. "Timeout" \in AbortReasons
  BY DEF AbortReasons
<1>3. CASE h.key_material_resent
  <2> DEFINE k == [h EXCEPT !.key_material_resent = FALSE]
  <2>1. Core(h, k) /\ k.outbox = h.outbox
    BY <1>1 DEF Core, Handshake
  <2>2. KeyMaterialUnanswered(h) = Abort(k, "Timeout")
    BY <1>3 DEF KeyMaterialUnanswered
  <2> HIDE DEF k
  <2> QED
    BY <1>1, <1>2, <2>1, <2>2, CalmSilent, CalmAbort
<1>4. CASE ~h.key_material_resent
  <2>1. Calm(n, h, Send(h, KeyMaterialState))
    BY <1>1, SendOtherCalm, OtherMessages
  <2>2. Calm(n, h, KeyMaterialUnanswered(h))
    BY <1>1, <1>4, <2>1, KeyMaterialTimerCalm DEF KeyMaterialUnanswered
  <2> QED
    BY <2>2, CalmGood
<1> QED
  BY <1>3, <1>4

LEMMA OnCloseGood ==
    ASSUME NEW n \in Node, NEW h, NodeOK(n, h), ~Ended(h), NEW m
    PROVE  Good(n, h, OnClose(h, m), m)
<1>1. Calm(n, h, h) /\ Calm(n, h, Send(h, ConnectionClose("Confirm")))
  BY CalmRefl, SendOtherCalm, OtherMessages
<1> QED
  BY <1>1, CalmFinish DEF OnClose

LEMMA CloseGood ==
    ASSUME NEW n \in Node, NEW h, NodeOK(n, h), NEW m
    PROVE  Good(n, h, Close(h), m)
<1>1. CASE h.phase \in {"Closed", "Aborted", "Closing"}
  BY <1>1, GoodRefl DEF Close
<1>2. CASE h.phase \notin {"Closed", "Aborted", "Closing"}
  <2> DEFINE t == [h.timers EXCEPT !["close"] = CloseMaxTime]
             g == [h EXCEPT !.phase = "Closing", !.timers = t]
  <2>1. h \in Handshake /\ h.timers \in Timers
    BY DEF NodeOK, Handshake
  <2>2. t \in Timers
    BY <2>1, Constants DEF Timers, Time
  <2>3. Close(h) = Send(g, ConnectionClose("Announce"))
    BY <1>2, <2>1 DEF Handshake, Close
  <2> HIDE DEF t
  <2>4. /\ g \in Handshake /\ g.phase = "Closing" /\ g.outbox = h.outbox /\ Same(h, g)
    BY <2>1, <2>2 DEF Handshake, Phases, Same
  <2> HIDE DEF g
  <2>5. HelloPart(g) /\ TimerPart(g) /\ PinPart(n, g) /\ ~Ended(g)
    BY <2>4 DEF NodeOK, HelloPart, TimerPart, PinPart, Ended, Past, Same
  <2>6. IF n = "Server" THEN ServerPart(g) ELSE ClientPart(g)
    BY <2>4 DEF NodeOK, ServerPart, ClientPart, Opened, Same
  <2>7. Outs(n, g)
    BY <2>4 DEF NodeOK, Outs, Fits, Same
  <2>8. NodeOK(n, g)
    BY <2>4, <2>5, <2>6, <2>7 DEF NodeOK, Outs
  <2>9. Good(n, h, g, m)
    BY <2>4, <2>8 DEF Good, Mono, Learns, Same, Opened
  <2>10. Good(n, g, Send(g, ConnectionClose("Announce")), m)
    BY <2>5, <2>8, CalmRefl, SendOtherCalm, OtherMessages, CalmGood
  <2> QED
    BY <2>3, <2>9, <2>10, GoodTrans
<1> QED
  BY <1>1, <1>2

LEMMA EndedIsNotDue ==
    ASSUME NEW n \in Node, NEW h, NodeOK(n, h), NEW t \in TimerNames, Due(h, t)
    PROVE  ~Ended(h)
<1>1. NoTimers[t] = None
  BY TimerNamesAre DEF NoTimers
<1> QED
  BY <1>1 DEF NodeOK, TimerPart, Due, None

LEMMA HandleTimeoutGood ==
    ASSUME config \in Configs, NEW n \in Node, NEW h, NodeOK(n, h), ~Ended(h), NEW m
    PROVE  Good(n, h, HandleTimeout(n, h), m)
<1> DEFINE asked == IF Due(h, "send_prolongation")
                    THEN SendProlongationRequest(n, Served(h, "send_prolongation"))
                    ELSE h
           resent == IF Due(asked, "key_material")
                     THEN KeyMaterialUnanswered(Served(asked, "key_material"))
                     ELSE asked
           freed == IF Due(resent, "pin_penalty")
                    THEN SendPinState(Served(resent, "pin_penalty"))
                    ELSE resent
<1>1. HandleTimeout(n, h) =
        IF Due(h, "cmi") THEN Abort(h, "Timeout")
        ELSE IF Due(h, "wait") THEN Abort(SendProtocolError(h), "Timeout")
        ELSE IF Due(asked, "prolongation_reply") THEN Abort(asked, "Timeout")
        ELSE IF Due(asked, "close") THEN Finish(asked)
        ELSE IF Due(freed, "wait_for_ready") THEN Abort(freed, "Timeout")
        ELSE freed
  BY DEF HandleTimeout
<1>2. "Timeout" \in AbortReasons /\ None \in Time
  BY DEF AbortReasons, Time
<1>3. ASSUME NEW k, NodeOK(n, k), NEW t \in TimerNames
      PROVE  Calm(n, k, Served(k, t))
  BY <1>2, <1>3, CalmRefl, SetTimerCalm DEF Served
<1>4. Calm(n, h, asked)
  BY <1>3, TimerNamesAre, CalmRefl, SendProlongationRequestCalm
<1> HIDE DEF asked
<1>5. Good(n, h, asked, m) /\ NodeOK(n, asked) /\ ~Ended(asked)
  BY <1>4, CalmGood DEF Good
<1>6. Good(n, asked, resent, m)
  <2> DEFINE s == Served(asked, "key_material")
  <2>1. Calm(n, asked, s)
    BY <1>3, <1>5, TimerNamesAre
  <2> HIDE DEF s
  <2>2. Good(n, asked, s, m) /\ NodeOK(n, s) /\ ~Ended(s)
    BY <1>5, <2>1, CalmGood DEF Good
  <2>3. Good(n, s, KeyMaterialUnanswered(s), m)
    BY <2>2, KeyMaterialUnansweredGood
  <2>4. Good(n, asked, KeyMaterialUnanswered(s), m)
    BY <2>2, <2>3, GoodTrans
  <2> QED
    BY <1>5, <2>4, GoodRefl DEF s
<1> HIDE DEF resent
<1>7. NodeOK(n, resent)
  BY <1>6 DEF Good
<1>8. Good(n, resent, freed, m)
  <2>1. CASE Due(resent, "pin_penalty")
    <3>1. ~Ended(resent)
      BY <1>7, <2>1, EndedIsNotDue, TimerNamesAre
    <3>2. Calm(n, resent, Served(resent, "pin_penalty")) /\ PinPart(n, resent)
      BY <1>3, <1>7, TimerNamesAre DEF NodeOK
    <3>3. Calm(n, resent, SendPinState(Served(resent, "pin_penalty")))
      BY <3>2, SendPinStateCalm
    <3> QED
      BY <1>7, <2>1, <3>1, <3>3, CalmGood
  <2>2. CASE ~Due(resent, "pin_penalty")
    BY <1>7, <2>2, GoodRefl
  <2> QED
    BY <2>1, <2>2
<1> HIDE DEF freed
<1>9. NodeOK(n, freed) /\ Good(n, h, freed, m)
  BY <1>5, <1>6, <1>8, GoodTrans DEF Good
<1>10. /\ Good(n, h, Abort(h, "Timeout"), m)
       /\ Good(n, h, Abort(SendProtocolError(h), "Timeout"), m)
  BY <1>2, AbortGood, RefusedGood
<1>11. Good(n, h, Abort(asked, "Timeout"), m) /\ Good(n, h, Finish(asked), m)
  BY <1>2, <1>4, CalmAbort, CalmFinish
<1>12. Good(n, h, Abort(freed, "Timeout"), m)
  BY <1>2, <1>9, AbortGood, GoodTrans
<1> QED
  BY <1>1, <1>9, <1>10, <1>11, <1>12

LEMMA ElapsedGood ==
    ASSUME NEW n \in Node, NEW h, NodeOK(n, h), NEW m
    PROVE  Good(n, h, Elapsed(h), m)
<1> DEFINE t == [u \in TimerNames |-> Less(h.timers[u])]
           d == Less(h.peer_deadline)
           older(i) == [h.outbox[i] EXCEPT !.age = @ + 1]
           aged == [i \in DOMAIN h.outbox |-> older(i)]
           o == IF lost THEN <<>> ELSE aged
           g == [h EXCEPT !.timers = t, !.peer_deadline = d, !.outbox = o]
<1>1. h \in Handshake /\ h.timers \in Timers /\ h.outbox \in Seq(Envelope) /\ h.peer_deadline \in Time
  BY DEF NodeOK, Handshake
<1>2. \A x \in Time : Less(x) \in Time
  BY DEF Less, Time, None
<1>3. t \in Timers /\ d \in Time
  BY <1>1, <1>2 DEF Timers
<1>4. /\ aged \in Seq(Envelope) /\ Len(aged) = Len(h.outbox)
      /\ \A i \in 1 .. Len(h.outbox) : aged[i].msg = h.outbox[i].msg
  <2>1. DOMAIN h.outbox = 1 .. Len(h.outbox) /\ Len(h.outbox) \in Nat
    BY <1>1
  <2>2. \A i \in 1 .. Len(h.outbox) : [h.outbox[i] EXCEPT !.age = @ + 1] \in Envelope
          /\ [h.outbox[i] EXCEPT !.age = @ + 1].msg = h.outbox[i].msg
    <3>1. \A e \in Envelope : [e EXCEPT !.age = e.age + 1] \in Envelope
                             /\ [e EXCEPT !.age = e.age + 1].msg = e.msg
      BY DEF Envelope
    <3>2. \A i \in 1 .. Len(h.outbox) : h.outbox[i] \in Envelope
      BY <1>1
    <3>3. \A i \in 1 .. Len(h.outbox) :
            [h.outbox[i] EXCEPT !.age = @ + 1] = [h.outbox[i] EXCEPT !.age = h.outbox[i].age + 1]
      OBVIOUS
    <3> QED
      BY <3>1, <3>2, <3>3, Zenon
  <2> QED
    BY <2>1, <2>2
<1>5. o \in Seq(Envelope) /\ \A i \in 1 .. Len(o) : i \in 1 .. Len(h.outbox) /\ o[i].msg = h.outbox[i].msg
  <2> HIDE DEF aged
  <2>1. CASE lost
    BY <2>1
  <2>2. CASE ~lost
    BY <2>2, <1>4
  <2> QED
    BY <2>1, <2>2
<1>6. Elapsed(h) = g
  BY DEF Elapsed
<1>7. h.timers = NoTimers => t = NoTimers
  <2>1. NoTimers = [u \in TimerNames |-> None]
    BY TimerNamesAre DEF NoTimers
  <2>2. Less(None) = None
    BY DEF Less, None
  <2> QED
    BY <2>1, <2>2
<1> HIDE DEF t, d, o
<1>8. /\ g \in Handshake /\ g.phase = h.phase /\ g.outbox = o /\ g.timers = t /\ Same(h, g)
  BY <1>1, <1>3, <1>5 DEF Handshake, Same
<1> HIDE DEF g
<1>9. HelloPart(g) /\ TimerPart(g) /\ PinPart(n, g)
  BY <1>7, <1>8 DEF NodeOK, HelloPart, TimerPart, PinPart, Ended, Past, Same
<1>10. IF n = "Server" THEN ServerPart(g) ELSE ClientPart(g)
  BY <1>8 DEF NodeOK, ServerPart, ClientPart, Opened, Same
<1>11. Outs(n, g)
  BY <1>5, <1>8 DEF NodeOK, Outs, Fits, Same
<1>12. NodeOK(n, g)
  BY <1>8, <1>9, <1>10, <1>11 DEF NodeOK, Outs
<1> QED
  BY <1>6, <1>8, <1>12 DEF Good, Mono, Learns, Same, Opened

-----------------------------------------------------------------------------
(***************************************************************************)
(* Both nodes.                                                             *)
(***************************************************************************)
\* A message on its way from n's peer h, or one that says nothing.
Heard(n, h, m) == m = Data \/ Fits(Peer(n), h, m)

LEMMA KeepAgree ==
    ASSUME NEW n \in Node, NEW g, NEW h, NEW k, NEW m,
           Agree(n, g, h), Agree(Peer(n), h, g), NodeOK(Peer(n), h),
           Good(n, g, k, m), Heard(n, h, m)
    PROVE  Agree(n, k, h) /\ Agree(Peer(n), h, k)
<1>1. Peer(n) \in Node /\ Peer(Peer(n)) = n
  BY PeerType
<1>2. m = Data => m.kind = "Data"
  BY DEF Data
<1>3. k.remote_ready => h.local_ready
  BY <1>2 DEF Agree, Good, Learns, Heard, Fits
<1>4. config[Peer(n)].pin = "Required" => k.peer_pin_state \in {"Unknown", "Required", "PinOk"}
  BY <1>2 DEF Agree, Good, Learns, Heard, Fits
<1>5. config[n].pin = "Required" /\ k.local_pin_state = "PinOk" => h.peer_pin_state # "Unknown"
  BY <1>2 DEF Agree, Good, Learns, Heard, Fits
<1>6. n = "Client" /\ k.negotiated # <<>> => h.negotiated = k.negotiated
  <2> SUFFICES ASSUME n = "Client", k.negotiated # <<>>, k.negotiated # g.negotiated
               PROVE  h.negotiated = k.negotiated
    BY DEF Agree
  <2>1. m.kind = "Protocol" /\ m.type = "Select" /\ k.negotiated = <<m.version, m.formats[1]>>
    BY DEF Good, Learns
  <2>2. h.proposed = <<m>> /\ Peer(n) = "Server"
    BY <1>2, <2>1 DEF Heard, Fits, Peer
  <2>3. /\ h.proposed = <<Protocol("Select", h.negotiated[1], <<h.negotiated[2]>>)>>
        /\ h.negotiated \in Nat \X STRING
    BY <2>2 DEF NodeOK, ServerPart, Supported
  <2>4. m = Protocol("Select", h.negotiated[1], <<h.negotiated[2]>>)
    BY <2>2, <2>3
  <2>5. m.version = h.negotiated[1] /\ m.formats = <<h.negotiated[2]>>
    BY <2>4 DEF Protocol
  <2>6. m.formats[1] = h.negotiated[2]
    BY <2>5
  <2>7. h.negotiated = <<h.negotiated[1], h.negotiated[2]>>
    BY <2>3
  <2> QED
    BY <2>1, <2>5, <2>6, <2>7
<1>7. n = "Server" /\ k.phase \in Opened => h.negotiated # <<>>
  <2> SUFFICES ASSUME n = "Server", k.phase \in Opened, g.phase \notin Opened
               PROVE  h.negotiated # <<>>
    BY DEF Agree
  <2>1. m.kind = "Protocol" /\ k.proposed = <<m>> /\ Peer(n) = "Client"
    BY DEF Good, Learns, Peer
  <2>2. k.proposed = <<Protocol("Select", k.negotiated[1], <<k.negotiated[2]>>)>>
    BY <2>1 DEF Good, NodeOK, ServerPart
  <2>3. m = Protocol("Select", k.negotiated[1], <<k.negotiated[2]>>)
    BY <2>1, <2>2
  <2>4. m.type = "Select"
    BY <2>3 DEF Protocol
  <2> QED
    BY <1>2, <2>1, <2>4 DEF Heard, Fits
<1>8. Agree(n, k, h)
  BY <1>3, <1>4, <1>5, <1>6, <1>7 DEF Agree
<1>9. Agree(Peer(n), h, k)
  BY <1>1 DEF Agree, Good, Mono
<1> QED
  BY <1>8, <1>9

\* The configurations do not change, so what is said of the next state in
\* terms of them is the invariant's next state.
LEMMA Assemble ==
    ASSUME config \in Configs, config' = config, lost' \in BOOLEAN, decided' \in [Node -> Nat],
           \A n \in Node : decided'[n] <= config[n].around.decisions,
           DOMAIN hs' = Node, hs' = [n \in Node |-> hs'[n]],
           \A n \in Node : NodeOK(n, hs'[n]) /\ Agree(n, hs'[n], hs'[Peer(n)])
    PROVE  IInv'
<1>1. Frame'
  BY DEF Frame
<1>2. ASSUME NEW n \in Node PROVE NodeOK(n, hs[n])'
  <2>1. NodeOK(n, hs'[n])
    OBVIOUS
  <2>2. (hs[n] \in Handshake)'
    BY <2>1 DEF NodeOK
  <2>3. HelloPart(hs[n])' /\ TimerPart(hs[n])'
    BY <2>1 DEF NodeOK, HelloPart, TimerPart
  <2>4. PinPart(n, hs[n])'
    BY <2>1 DEF NodeOK, PinPart
  <2>5. (IF n = "Server" THEN ServerPart(hs[n]) ELSE ClientPart(hs[n]))'
    BY <2>1 DEF NodeOK, ServerPart, ClientPart, Supported, SupportsVersion
  <2>6. (\A i \in 1 .. Len(hs[n].outbox) : Fits(n, hs[n], hs[n].outbox[i].msg))'
    BY <2>1 DEF NodeOK, Fits
  <2> QED
    BY <2>2, <2>3, <2>4, <2>5, <2>6 DEF NodeOK
<1>3. ASSUME NEW n \in Node PROVE Agree(n, hs[n], hs[Peer(n)])'
  BY DEF Agree
<1> QED
  BY <1>1, <1>2, <1>3 DEF IInv

\* A step of one node that reads nothing.
LEMMA DrivenKeeps ==
    ASSUME IInv, NEW n \in Node, NEW g, Good(n, hs[n], g, Data), hs' = [hs EXCEPT ![n] = g],
           config' = config, lost' = lost, decided' \in [Node -> Nat],
           \A k \in Node : decided'[k] <= config[k].around.decisions
    PROVE  IInv'
<1>1. /\ config \in Configs /\ lost \in BOOLEAN /\ DOMAIN hs = Node
      /\ \A k \in Node : NodeOK(k, hs[k]) /\ Agree(k, hs[k], hs[Peer(k)])
  BY DEF IInv, Frame
<1>2. Peer(n) \in Node /\ Peer(n) # n /\ Peer(Peer(n)) = n
  BY PeerType
<1>3. hs'[n] = g /\ hs'[Peer(n)] = hs[Peer(n)] /\ DOMAIN hs' = Node /\ hs' = [k \in Node |-> hs'[k]]
  BY <1>1, <1>2
<1>4. Agree(n, g, hs[Peer(n)]) /\ Agree(Peer(n), hs[Peer(n)], g)
  BY <1>1, <1>2, KeepAgree DEF Heard
<1>5. \A k \in Node : k = n \/ k = Peer(n)
  BY DEF Node, Peer
<1>6. \A k \in Node : NodeOK(k, hs'[k]) /\ Agree(k, hs'[k], hs'[Peer(k)])
  BY <1>1, <1>2, <1>3, <1>4, <1>5 DEF Good
<1> QED
  BY <1>1, <1>3, <1>6, Assemble

LEMMA ReadOK ==
    ASSUME NEW n \in Node, NEW h, NodeOK(n, h), h.outbox # <<>>
    PROVE  /\ NodeOK(n, [h EXCEPT !.outbox = Tail(@)])
           /\ Same(h, [h EXCEPT !.outbox = Tail(@)])
           /\ [h EXCEPT !.outbox = Tail(@)].phase = h.phase
<1> DEFINE o == Tail(h.outbox)
           g == [h EXCEPT !.outbox = o]
<1>1. h \in Handshake /\ h.outbox \in Seq(Envelope)
  BY DEF NodeOK, Handshake
<1>2. o \in Seq(Envelope) /\ \A i \in 1 .. Len(o) : i + 1 \in 1 .. Len(h.outbox) /\ o[i] = h.outbox[i + 1]
  BY <1>1
<1>3. [h EXCEPT !.outbox = Tail(@)] = g
  OBVIOUS
<1> HIDE DEF o
<1>4. g \in Handshake /\ g.phase = h.phase /\ g.outbox = o /\ g.timers = h.timers /\ Same(h, g)
  BY <1>1, <1>2 DEF Handshake, Same
<1> HIDE DEF g
<1>5. HelloPart(g) /\ TimerPart(g) /\ PinPart(n, g)
  BY <1>4 DEF NodeOK, HelloPart, TimerPart, PinPart, Ended, Past, Same
<1>6. IF n = "Server" THEN ServerPart(g) ELSE ClientPart(g)
  BY <1>4 DEF NodeOK, ServerPart, ClientPart, Opened, Same
<1>7. Outs(n, g)
  BY <1>2, <1>4 DEF NodeOK, Outs, Fits, Same
<1> QED
  BY <1>3, <1>4, <1>5, <1>6, <1>7 DEF NodeOK, Outs

\* A step of one node that reads the oldest message of its peer.
LEMMA ReadKeeps ==
    ASSUME IInv, NEW n \in Node, NEW g, hs[Peer(n)].outbox # <<>>, Read(n, g),
           ~Ended(hs[n]) => Good(n, hs[n], g, Received(n))
    PROVE  IInv'
<1> DEFINE m == Received(n)
           h == hs[Peer(n)]
           p == [h EXCEPT !.outbox = Tail(@)]
           k == IF Ended(hs[n]) THEN hs[n] ELSE g
<1>1. /\ config \in Configs /\ lost \in BOOLEAN /\ DOMAIN hs = Node
      /\ \A j \in Node : NodeOK(j, hs[j]) /\ Agree(j, hs[j], hs[Peer(j)])
  BY DEF IInv, Frame
<1>2. Peer(n) \in Node /\ Peer(n) # n /\ Peer(Peer(n)) = n
  BY PeerType
<1>3. Good(n, hs[n], k, m)
  BY <1>1, GoodRefl
<1>4. Fits(Peer(n), h, m)
  <2>1. h.outbox \in Seq(Envelope) /\ 1 \in 1 .. Len(h.outbox)
    BY <1>1, <1>2 DEF NodeOK, Handshake
  <2>2. m = h.outbox[1].msg
    BY <2>1 DEF Received
  <2> QED
    BY <1>1, <1>2, <2>1, <2>2 DEF NodeOK
<1>5. NodeOK(Peer(n), p) /\ Same(h, p) /\ p.phase = h.phase
  BY <1>1, <1>2, ReadOK
<1>6. Agree(n, k, h) /\ Agree(Peer(n), h, k)
  <2> HIDE DEF k, h, m
  <2>1. Agree(n, hs[n], h) /\ Agree(Peer(n), h, hs[n]) /\ NodeOK(Peer(n), h)
    BY <1>1, <1>2 DEF h
  <2> QED
    BY <1>2, <1>3, <1>4, <2>1, KeepAgree DEF Heard
<1>7. hs' = [hs EXCEPT ![n] = k, ![Peer(n)].outbox = Tail(@)]
      /\ config' = config /\ lost' = lost /\ decided' = decided
  BY DEF Read
<1>8. hs'[n] = k /\ hs'[Peer(n)] = p /\ DOMAIN hs' = Node /\ hs' = [j \in Node |-> hs'[j]]
  <2> HIDE DEF k
  <2> QED
    BY <1>1, <1>2, <1>7
<1> HIDE DEF p, k
<1>9. Agree(n, k, p) /\ Agree(Peer(n), p, k)
  BY <1>5, <1>6 DEF Agree, Same
<1>10. \A j \in Node : j = n \/ j = Peer(n)
  BY DEF Node, Peer
<1>11. NodeOK(n, k) /\ NodeOK(Peer(n), p)
  BY <1>3, <1>5 DEF Good
<1>12. \A j \in Node : NodeOK(j, hs'[j]) /\ Agree(j, hs'[j], hs'[Peer(j)])
  BY <1>2, <1>8, <1>9, <1>10, <1>11
<1>13. decided' \in [Node -> Nat] /\ \A j \in Node : decided'[j] <= config[j].around.decisions
  BY <1>7 DEF IInv, Frame
<1> QED
  BY <1>1, <1>7, <1>8, <1>12, <1>13, Assemble

LEMMA MessageByKind ==
    ASSUME NEW x \in Message
    PROVE  /\ x.kind = "Hello" => x \in HelloMsg
           /\ x.kind = "Protocol" => x \in ProtocolMsg
           /\ x.kind = "PinState" => x \in PinStateMsg
           /\ x.kind = "PinInput" => x \in PinInputMsg
BY DEF Message, HelloMsg, ProtocolMsg, PinStateMsg, PinInputMsg, OtherMsg

LEMMA ReceivedIs ==
    ASSUME IInv, NEW n \in Node, NEW kind, Incoming(n, kind)
    PROVE  /\ hs[Peer(n)].outbox # <<>> /\ Received(n) \in Message /\ Received(n).kind = kind
           /\ config \in Configs /\ NodeOK(n, hs[n])
<1>1. Peer(n) \in Node /\ config \in Configs /\ NodeOK(Peer(n), hs[Peer(n)]) /\ NodeOK(n, hs[n])
  BY PeerType DEF IInv, Frame
<1>2. hs[Peer(n)].outbox \in Seq(Envelope)
  BY <1>1 DEF NodeOK, Handshake
<1>3. Head(hs[Peer(n)].outbox) \in Envelope
  BY <1>2 DEF Incoming
<1> QED
  BY <1>1, <1>3 DEF Incoming, Received, Envelope

LEMMA NewOK ==
    ASSUME config \in Configs, NEW n \in Node
    PROVE  /\ NodeOK(n, New(n, config[n]))
           /\ ~New(n, config[n]).remote_ready /\ New(n, config[n]).peer_pin_state = "Unknown"
           /\ New(n, config[n]).local_pin_state = config[n].pin
           /\ New(n, config[n]).negotiated = <<>> /\ New(n, config[n]).phase = "Cmi"
<1> DEFINE c == config[n]
           t == [NoTimers EXCEPT !["cmi"] = CmiTimeout]
           h == [phase |-> "Cmi", trust |-> c.trust,
                 local_ready |-> FALSE, remote_ready |-> FALSE,
                 peer_waiting |-> None, peer_deadline |-> None,
                 proposed |-> <<>>, negotiated |-> <<>>,
                 key_material_resent |-> FALSE,
                 local_pin_state |-> c.pin, peer_pin_state |-> "Unknown",
                 peer_pin |-> c.peer_pin, pin_attempts |-> 0,
                 timers |-> t,
                 outbox |-> <<>>, reason |-> "None"]
<1>1. t \in Timers
  BY NoTimersType, Constants DEF Timers, Time
<1>2. t = [NoTimers EXCEPT !.cmi = CmiTimeout]
  OBVIOUS
<1>3. New(n, c) = Send(h, Cmi)
  BY <1>2 DEF New
<1> HIDE DEF t
<1>4. h \in Handshake
  BY <1>1, ConfigType DEF Handshake, Phases, Time, PinStates
<1>5. /\ h.phase = "Cmi" /\ h.outbox = <<>> /\ ~h.remote_ready /\ h.proposed = <<>>
      /\ h.negotiated = <<>> /\ h.local_pin_state = c.pin /\ h.peer_pin_state = "Unknown"
  OBVIOUS
<1> HIDE DEF h
<1>6. HelloPart(h) /\ TimerPart(h) /\ PinPart(n, h) /\ ~Ended(h)
  BY <1>5 DEF HelloPart, TimerPart, PinPart, Ended, Past
<1>7. IF n = "Server" THEN ServerPart(h) ELSE ClientPart(h)
  BY <1>5 DEF ServerPart, ClientPart, Opened
<1>8. NodeOK(n, h)
  BY <1>4, <1>5, <1>6, <1>7 DEF NodeOK
<1>9. Calm(n, h, Send(h, Cmi))
  BY <1>8, CalmRefl, SendOtherCalm, OtherMessages
<1>10. NodeOK(n, Send(h, Cmi))
  BY <1>6, <1>8, <1>9, CalmGood DEF Good
<1> QED
  BY <1>3, <1>5, <1>9, <1>10 DEF Calm, Core

LEMMA InitIInv == Init => IInv
<1> SUFFICES ASSUME Init PROVE IInv
  OBVIOUS
<1>1. config \in Configs /\ hs = [n \in Node |-> New(n, config[n])]
      /\ lost = FALSE /\ decided = [n \in Node |-> 0]
  BY DEF Init
<1>2. Frame
  <2>1. \A n \in Node : config[n].around.decisions \in Nat
    BY <1>1, ConfigType
  <2>2. decided \in [Node -> Nat] /\ \A n \in Node : decided[n] <= config[n].around.decisions
    BY <1>1, <2>1
  <2> QED
    BY <1>1, <2>2, Zenon DEF Frame
<1>3. ASSUME NEW n \in Node
      PROVE  NodeOK(n, hs[n]) /\ Agree(n, hs[n], hs[Peer(n)])
  <2>1. Peer(n) \in Node /\ hs[n] = New(n, config[n])
    BY <1>1, PeerType
  <2>2. /\ NodeOK(n, hs[n]) /\ ~hs[n].remote_ready /\ hs[n].peer_pin_state = "Unknown"
        /\ hs[n].local_pin_state = config[n].pin /\ hs[n].negotiated = <<>> /\ hs[n].phase = "Cmi"
    BY <1>1, <2>1, NewOK
  <2>3. Agree(n, hs[n], hs[Peer(n)])
    BY <2>2 DEF Agree, Opened
  <2> QED
    BY <2>2, <2>3
<1>4. DOMAIN hs = Node /\ hs = [n \in Node |-> hs[n]]
  BY <1>1
<1> QED
  BY <1>2, <1>3, <1>4 DEF IInv

LEMMA ReceiveKeeps ==
    ASSUME IInv, NEW n \in Node, Receive(n)
    PROVE  IInv'
<1> DEFINE m == Received(n)
           h == hs[n]
<1>0. "SelectionMismatch" \in AbortReasons /\ "UnexpectedMessage" \in AbortReasons
  BY DEF AbortReasons
<1>1. CASE ReceiveCmi(n)
  BY <1>1, ReceivedIs, OnCmiGood, ReadKeeps DEF ReceiveCmi
<1>2. CASE ReceiveHello(n)
  BY <1>2, ReceivedIs, MessageByKind, OnHelloGood, ReadKeeps DEF ReceiveHello
<1>3. CASE ReceiveProtocol(n)
  BY <1>3, ReceivedIs, MessageByKind, OnProtocolHandshakeGood, ReadKeeps DEF ReceiveProtocol
<1>4. CASE ReceiveProtocolError(n)
  BY <1>0, <1>4, ReceivedIs, AbortGood, ReadKeeps DEF ReceiveProtocolError
<1>5. CASE ReceivePinState(n)
  BY <1>5, ReceivedIs, MessageByKind, OnPinStateGood, ReadKeeps DEF ReceivePinState
<1>6. CASE ReceivePinInput(n)
  BY <1>6, ReceivedIs, MessageByKind, OnPinInputGood, ReadKeeps DEF ReceivePinInput
<1>7. CASE ReceivePinError(n)
  BY <1>7, ReceivedIs, GoodRefl, ReadKeeps DEF ReceivePinError
<1>8. CASE ReceiveClose(n)
  BY <1>8, ReceivedIs, OnCloseGood, ReadKeeps DEF ReceiveClose
<1>9. CASE ReceiveData(n)
  BY <1>0, <1>9, ReceivedIs, GoodRefl, AbortGood, ReadKeeps DEF ReceiveData
<1>10. CASE ReceiveKeyMaterial(n)
  <2>1. CASE Incoming(n, "KeyMaterialState") /\ Read(n, Send(h, KeyMaterialStateResponse))
    BY <2>1, ReceivedIs, CalmRefl, SendOtherCalm, OtherMessages, CalmGood, ReadKeeps
  <2>2. CASE Incoming(n, "KeyMaterialStateResponse") /\ Read(n, OnKeyMaterialStateResponse(h))
    BY <2>2, ReceivedIs, KeyMaterialCalm, CalmGood, ReadKeeps
  <2>3. CASE Incoming(n, "KeyMaterialStateRequest") /\ Read(n, OnKeyMaterialStateRequest(n, h, m))
    BY <2>3, ReceivedIs, KeyMaterialCalm, CalmGood, ReadKeeps
  <2> QED
    BY <1>10, <2>1, <2>2, <2>3, Zenon DEF ReceiveKeyMaterial
<1>11. CASE ReceiveAccessMethods(n)
  <2>1. CASE Incoming(n, "AccessMethodsRequest") /\ Read(n, Send(h, AccessMethods))
    BY <2>1, ReceivedIs, CalmRefl, SendOtherCalm, OtherMessages, CalmGood, ReadKeeps
  <2>2. CASE Incoming(n, "AccessMethods") /\ Read(n, h)
    BY <2>2, ReceivedIs, GoodRefl, ReadKeeps
  <2> QED
    BY <1>11, <2>1, <2>2 DEF ReceiveAccessMethods
<1> QED
  BY <1>1, <1>2, <1>3, <1>4, <1>5, <1>6, <1>7, <1>8, <1>9, <1>10, <1>11 DEF Receive

\* The steps of one node's driver, its user and its applications.
LEMMA DriveKeeps ==
    ASSUME IInv, NEW n \in Node,
           \/ Timeout(n) \/ EnterPinByHand(n) \/ CloseConnection(n) \/ AnnounceKeyMaterial(n)
           \/ RequestKeyMaterial(n) \/ RequestAccessMethods(n) \/ SendData(n) \/ Hangup(n)
    PROVE  IInv'
<1> DEFINE h == hs[n]
<1>1. NodeOK(n, h) /\ config \in Configs /\ Calm(n, h, h) /\ h \in Handshake
  <2>1. NodeOK(n, h) /\ config \in Configs
    BY DEF IInv, Frame
  <2> QED
    BY <2>1, CalmRefl
<1>2. decided \in [Node -> Nat] /\ \A j \in Node : decided[j] <= config[j].around.decisions
  BY DEF IInv, Frame
<1>3. ASSUME NEW g, Good(n, h, g, Data), Driven(n, g), decided' = decided
      PROVE  IInv'
  BY <1>2, <1>3, DrivenKeeps DEF Driven
<1>4. ASSUME IsReadyForData(h) \/ h.phase = "DataExchange"
      PROVE  ~Ended(h)
  BY <1>4 DEF IsReadyForData, Ended
<1>5. CASE Timeout(n)
  BY <1>1, <1>3, <1>5, HandleTimeoutGood DEF Timeout
<1>6. CASE EnterPinByHand(n)
  <2>1. PICK pin \in PinEntries : Driven(n, SendPinIfPermitted([h EXCEPT !.peer_pin = pin]))
    BY <1>6 DEF EnterPinByHand
  <2>2. ~Ended(h) /\ decided' = decided
    BY <1>6 DEF EnterPinByHand, PinWanted, Ended
  <2> DEFINE k == [h EXCEPT !.peer_pin = pin]
  <2>3. pin \in {"none", "right", "wrong"}
    BY Constants
  <2>4. Core(h, k) /\ k.outbox = h.outbox
    BY <1>1, <2>3 DEF Core, Handshake
  <2> HIDE DEF k
  <2>5. Calm(n, h, SendPinIfPermitted(k))
    BY <1>1, <2>4, CalmSilent, SendPinIfPermittedCalm
  <2>6. Good(n, h, SendPinIfPermitted(k), Data)
    BY <1>1, <2>2, <2>5, CalmGood
  <2> QED
    BY <1>3, <2>1, <2>2, <2>6 DEF k
<1>7. CASE CloseConnection(n)
  BY <1>1, <1>3, <1>7, CloseGood DEF CloseConnection
<1>8. CASE AnnounceKeyMaterial(n)
  BY <1>1, <1>3, <1>4, <1>8, KeyMaterialCalm, CalmGood DEF AnnounceKeyMaterial
<1>9. CASE RequestKeyMaterial(n)
  BY <1>1, <1>3, <1>4, <1>9, SendOtherCalm, OtherMessages, CalmGood DEF RequestKeyMaterial
<1>10. CASE RequestAccessMethods(n)
  BY <1>1, <1>3, <1>4, <1>10, SendOtherCalm, OtherMessages, CalmGood DEF RequestAccessMethods
<1>11. CASE SendData(n)
  BY <1>1, <1>3, <1>4, <1>11, SendOtherCalm, OtherMessages, CalmGood DEF SendData
<1>12. CASE Hangup(n)
  BY <1>1, <1>3, <1>12, FinishGood DEF Hangup
<1> QED
  BY <1>5, <1>6, <1>7, <1>8, <1>9, <1>10, <1>11, <1>12

LEMMA DecideKeeps ==
    ASSUME IInv, NEW n \in Node, Decide(n)
    PROVE  IInv'
<1>1. NodeOK(n, hs[n]) /\ config \in Configs /\ ~Ended(hs[n])
  BY DEF IInv, Frame, Decide, Ended
<1>2. PICK trust \in Decisions : Driven(n, SetTrust(n, hs[n], trust))
  BY DEF Decide
<1>3. trust \in Trusts
  BY TimesAssumption
<1>4. Good(n, hs[n], SetTrust(n, hs[n], trust), Data)
  BY <1>1, <1>3, SetTrustGood
<1>5. decided' \in [Node -> Nat] /\ \A k \in Node : decided'[k] <= config[k].around.decisions
  <2>1. decided \in [Node -> Nat] /\ \A k \in Node : decided[k] <= config[k].around.decisions
    BY DEF IInv, Frame
  <2>2. \A k \in Node : config[k].around.decisions \in Nat
    BY <1>1, ConfigType
  <2>3. decided' = [decided EXCEPT ![n] = @ + 1] /\ decided[n] < config[n].around.decisions
    BY DEF Decide
  <2> QED
    BY <2>1, <2>2, <2>3
<1> QED
  BY <1>2, <1>4, <1>5, DrivenKeeps DEF Driven

LEMMA TickKeeps ==
    ASSUME IInv, Tick
    PROVE  IInv'
<1>1. /\ config \in Configs /\ lost \in BOOLEAN /\ DOMAIN hs = Node
      /\ \A n \in Node : NodeOK(n, hs[n]) /\ Agree(n, hs[n], hs[Peer(n)])
  BY DEF IInv, Frame
<1>2. hs' = [n \in Node |-> Elapsed(hs[n])] /\ config' = config /\ lost' = lost /\ decided' = decided
  BY DEF Tick
<1>3. ASSUME NEW n \in Node
      PROVE  NodeOK(n, hs'[n]) /\ Agree(n, hs'[n], hs'[Peer(n)])
  <2> DEFINE p == Peer(n)
             a == Elapsed(hs[n])
             b == Elapsed(hs[p])
  <2>1. p \in Node /\ Peer(p) = n
    BY PeerType
  <2>2. hs'[n] = a /\ hs'[p] = b
    BY <1>2, <2>1
  <2>3. Good(n, hs[n], a, Data) /\ Good(p, hs[p], b, Data)
    BY <1>1, <2>1, ElapsedGood
  <2> HIDE DEF a, b
  <2>4. NodeOK(n, a)
    BY <2>3 DEF Good
  <2>5. Agree(n, a, hs[p]) /\ Agree(p, hs[p], a)
    BY <1>1, <2>1, <2>3, KeepAgree DEF Heard
  <2>6. Agree(Peer(p), a, hs[p]) /\ NodeOK(Peer(p), a) /\ Heard(p, a, Data)
    BY <2>1, <2>4, <2>5 DEF Heard
  <2>7. Agree(Peer(p), a, b)
    BY <2>1, <2>3, <2>5, <2>6, KeepAgree
  <2> QED
    BY <2>1, <2>2, <2>4, <2>7
<1>4. DOMAIN hs' = Node /\ hs' = [n \in Node |-> hs'[n]]
  BY <1>2
<1>5. decided' \in [Node -> Nat] /\ \A j \in Node : decided'[j] <= config[j].around.decisions
  BY <1>2 DEF IInv, Frame
<1> QED
  BY <1>1, <1>2, <1>3, <1>4, <1>5, Assemble

LEMMA StutterKeeps ==
    ASSUME IInv, config' = config, hs' = hs, decided' = decided, lost' \in BOOLEAN
    PROVE  IInv'
<1>1. /\ config \in Configs /\ DOMAIN hs = Node /\ hs = [n \in Node |-> hs[n]]
      /\ \A n \in Node : NodeOK(n, hs[n]) /\ Agree(n, hs[n], hs[Peer(n)])
      /\ decided \in [Node -> Nat] /\ \A j \in Node : decided[j] <= config[j].around.decisions
  BY DEF IInv, Frame
<1>2. \A n \in Node : NodeOK(n, hs'[n]) /\ Agree(n, hs'[n], hs'[Peer(n)])
  BY <1>1
<1> QED
  BY <1>1, <1>2, Assemble

LEMMA NextIInv == IInv /\ [Next]_vars => IInv'
<1> SUFFICES ASSUME IInv, [Next]_vars PROVE IInv'
  OBVIOUS
<1>1. CASE UNCHANGED vars
  BY <1>1, StutterKeeps DEF vars, IInv, Frame
<1>2. CASE Lose
  BY <1>2, StutterKeeps DEF Lose
<1>3. CASE Tick
  BY <1>3, TickKeeps
<1>4. ASSUME NEW n \in Node,
             \/ Receive(n) \/ Decide(n) \/ Timeout(n) \/ EnterPinByHand(n)
             \/ CloseConnection(n) \/ AnnounceKeyMaterial(n)
             \/ RequestKeyMaterial(n) \/ RequestAccessMethods(n) \/ SendData(n)
             \/ Hangup(n)
      PROVE  IInv'
  BY <1>4, ReceiveKeeps, DecideKeeps, DriveKeeps
<1> QED
  BY <1>1, <1>2, <1>3, <1>4 DEF Next

LEMMA AlwaysIInv == Spec => []IInv
BY InitIInv, NextIInv, PTL DEF Spec

-----------------------------------------------------------------------------
(***************************************************************************)
(* Theorems.                                                               *)
(***************************************************************************)
LEMMA IInvIsTyped == IInv => TypeOK
<1> SUFFICES ASSUME IInv PROVE TypeOK
  OBVIOUS
<1>1. config \in Configs /\ lost \in BOOLEAN
  BY DEF IInv, Frame
<1>2. ASSUME NEW n \in Node PROVE decided[n] \in 0 .. config[n].around.decisions
  BY <1>1, ConfigType DEF IInv, Frame
<1>3. ASSUME NEW n \in Node
      PROVE  /\ hs[n] \in Handshake
             /\ \A t \in TimerNames : hs[n].timers[t] \in Nat \cup {None}
             /\ Ended(hs[n]) => hs[n].timers = NoTimers
  <2>1. hs[n] \in Handshake /\ TimerPart(hs[n])
    BY DEF IInv, NodeOK
  <2>2. hs[n].timers \in Timers
    BY <2>1 DEF Handshake
  <2> QED
    BY <2>1, <2>2 DEF TimerPart, Timers, Time
<1>4. ASSUME NEW h \in Handshake
      PROVE  /\ h.phase \in Phases
             /\ h.trust \in Trusts
             /\ h.local_pin_state \in PinStates
             /\ h.peer_pin_state \in PinStates \cup {"Unknown"}
             /\ h.pin_attempts \in Nat
             /\ {h.local_ready, h.remote_ready, h.key_material_resent} \subseteq BOOLEAN
             /\ h.reason \in AbortReasons \cup {"None"}
  BY DEF Handshake
<1> QED
  BY <1>1, <1>2, <1>3, <1>4, Zenon DEF TypeOK

LEMMA IInvIsMutual == IInv => TrustIsMutual
<1> SUFFICES ASSUME IInv, NEW n \in Node, hs[n].phase \in Past
             PROVE  hs["Client"].local_ready /\ hs["Server"].local_ready
  BY DEF TrustIsMutual, Past
<1>1. hs[n].local_ready /\ hs[n].remote_ready
  BY DEF IInv, NodeOK, HelloPart
<1>2. hs[Peer(n)].local_ready
  BY <1>1 DEF IInv, Agree
<1> QED
  BY <1>1, <1>2 DEF Node, Peer

LEMMA IInvIsProved == IInv => RequiredPinIsProved
<1> SUFFICES ASSUME IInv, NEW n \in Node, config[n].pin = "Required", hs[n].phase = "DataExchange"
             PROVE  /\ hs[n].local_pin_state = "PinOk"
                    /\ hs[Peer(n)].peer_pin_state \in {"Required", "PinOk"}
  BY DEF RequiredPinIsProved
<1>1. Peer(n) \in Node /\ Peer(Peer(n)) = n
  BY PeerType
<1>2. hs[n].local_pin_state = "PinOk"
  BY DEF IInv, NodeOK, PinPart
<1>3. hs[Peer(n)].peer_pin_state # "Unknown"
  BY <1>2 DEF IInv, Agree
<1>4. hs[Peer(n)].peer_pin_state \in {"Unknown", "Required", "PinOk"}
  BY <1>1 DEF IInv, Agree
<1> QED
  BY <1>2, <1>3, <1>4

LEMMA IInvAgrees == IInv => NegotiationAgrees
<1> SUFFICES ASSUME IInv, NEW n \in Node, hs[n].phase \in Opened
             PROVE  /\ hs["Client"].negotiated = hs["Server"].negotiated
                    /\ hs[n].negotiated # <<>>
                    /\ \A k \in Node :
                         /\ SupportsVersion(k, hs[n].negotiated[1])
                         /\ hs[n].negotiated[2] \in Elements(config[k].formats)
  BY DEF NegotiationAgrees, Opened
<1> DEFINE c == hs["Client"]
           s == hs["Server"]
<1>1. /\ NodeOK("Client", c) /\ NodeOK("Server", s)
      /\ Agree("Client", c, s) /\ Agree("Server", s, c)
  BY DEF IInv, Node, Peer
<1>2. n = "Client" \/ n = "Server"
  BY DEF Node
<1> HIDE DEF c, s
<1>3. c.negotiated # <<>>
  <2>1. CASE n = "Client"
    BY <1>1, <2>1 DEF NodeOK, ClientPart, c
  <2>2. CASE n = "Server"
    BY <1>1, <2>2 DEF Agree, s
  <2> QED
    BY <1>2, <2>1, <2>2
<1>4. s.negotiated = c.negotiated
  BY <1>1, <1>3 DEF Agree
<1>5. Supported("Client", c.negotiated)
  BY <1>1, <1>3 DEF NodeOK, ClientPart
<1>6. Supported("Server", c.negotiated)
  BY <1>1, <1>3, <1>4 DEF NodeOK, ServerPart
<1>7. hs[n].negotiated = c.negotiated
  BY <1>2, <1>4 DEF c, s
<1> QED
  BY <1>3, <1>4, <1>5, <1>6, <1>7 DEF Supported, Node, c, s

\* Every state of a connection has the types of the Handshake struct, timers
\* never run below zero, and a handshake that has ended has no timer left to
\* wake it: Timers::default in abort and finish of handshake.rs.
THEOREM ShipTypeCorrect == Spec => []TypeOK
BY AlwaysIInv, IInvIsTyped, PTL

\* However hellos, prolongations and decisions cross, a node past the hello
\* phase has both users' approval: a ready hello is sent only after the
\* sender's local_ready is set, and that is never taken back
\* (announce_hello, on_hello and try_finish_hello of handshake.rs).
THEOREM TrustIsAlwaysMutual == Spec => []TrustIsMutual
BY AlwaysIInv, IInvIsMutual, PTL

\* Data is exchanged with a required PIN only after the peer has been asked
\* for it and has proved it, through refusals, penalties and announcements in
\* any order (on_pin_state, on_pin_input, try_finish_pin of handshake.rs).
THEOREM RequiredPinIsAlwaysProved == Spec => []RequiredPinIsProved
BY AlwaysIInv, IInvIsProved, PTL

\* Two nodes of which one has left the protocol handshake have settled on the
\* same version and format, supported by both: the server proposes once, the
\* client settles only on a proposal and the server opens only on its echo
\* (on_protocol_handshake of handshake.rs).
THEOREM NegotiationAlwaysAgrees == Spec => []NegotiationAgrees
BY AlwaysIInv, IInvAgrees, PTL

-----------------------------------------------------------------------------
(***************************************************************************)
(* Expected messages.  The invariant is about the order of what is under   *)
(* way: of each node, what its own phase and timers allow it to have sent  *)
(* (Own, Posted); of each stream, what its reader must still find in it    *)
(* (Stream); and how far the two nodes have got with the one exchange in   *)
(* which a message answers another (Stage).                                *)
(***************************************************************************)
Early == {"Cmi", "Hello", "ProtocolHandshake"}
Open == {"Pin", "DataExchange", "Closing"}
Over == Open \cup {"Aborted", "Closed"}
Late == {"PinState", "PinInput", "Data"}

IsReady(m) == m.kind = "Hello" /\ m.phase = "Ready"
IsPending(m) == m.kind = "Hello" /\ m.phase = "Pending"

TimersOK(h) ==
    /\ h.timers["send_prolongation"] # None => h.phase = "Hello"
    /\ h.timers["pin_penalty"] # None => h.phase \in Open

\* A node that has heard the peer's PIN state and stays in the PIN phase is
\* one that demands a PIN; one that has approved is not undecided any more.
Own(h) ==
    /\ TimersOK(h)
    /\ h.phase \in Early => h.peer_pin_state = "Unknown"
    /\ h.phase = "DataExchange" => h.peer_pin_state # "Unknown"
    /\ h.phase = "Pin" /\ h.peer_pin_state # "Unknown" => h.local_pin_state = "Required"
    /\ h.phase = "Cmi" => ~h.local_ready
    /\ h.phase = "Hello" /\ h.local_ready => h.trust # Pending
    /\ ~Ended(h) => h.reason = "None"
    /\ h.reason = "UnexpectedMessage" => h.local_pin_state = "Required"

\* What a node's phase says of a message it has sent, and what may follow it.
Sent(h, m) ==
    /\ IsReady(m) => h.local_ready /\ m.waiting # None
    /\ m.kind = "Protocol" => h.phase \notin {"Cmi", "Hello"}
    /\ m.kind \in Late => h.phase \in Over

Follows(a, b) ==
    /\ b.kind # "Cmi"
    /\ a.kind = "Protocol" => b.kind # "Hello"
    /\ a.kind \in Late => b.kind # "Protocol"
    /\ IsReady(a) => ~IsPending(b)

Posted(h) ==
    /\ \A i \in 1 .. Len(h.outbox) : Sent(h, h.outbox[i].msg)
    /\ \A i, j \in 1 .. Len(h.outbox) : i < j => Follows(h.outbox[i].msg, h.outbox[j].msg)

\* The reader (h) knows the sender's PIN state, or will before it has read k
\* messages of the stream.
Told(h, o, k) ==
    Ended(h) \/ h.peer_pin_state # "Unknown" \/ \E j \in 1 .. k : o[j].msg.kind = "PinState"

\* The stream from node n (g) to its peer (h).
Stream(n, g, h) ==
    /\ h.phase = "Cmi" => 1 <= Len(g.outbox) /\ g.outbox[1].msg.kind = "Cmi"
    /\ \A i \in 1 .. Len(g.outbox) : g.outbox[i].msg.kind = "Cmi" => h.phase = "Cmi" \/ Ended(h)
    /\ n = "Client" /\ h.phase \in {"Cmi", "Hello"} /\ g.local_ready =>
         \/ \E i \in 1 .. Len(g.outbox) : IsReady(g.outbox[i].msg)
         \/ h.remote_ready /\ \A i \in 1 .. Len(g.outbox) : ~IsPending(g.outbox[i].msg)
    /\ \A i \in 1 .. Len(g.outbox) :
         g.outbox[i].msg.kind = "Data" => h.phase \in Over /\ Told(h, g.outbox, i)
    /\ g.phase \in Open => Told(h, g.outbox, Len(g.outbox))
    /\ h.peer_pin_state # "Unknown" => g.phase \in Over

NoProtocol(o) == \A i \in 1 .. Len(o) : o[i].msg.kind # "Protocol"
OneProtocol(o, type) ==
    \E i \in 1 .. Len(o) : /\ o[i].msg.kind = "Protocol" /\ o[i].msg.type = type
                           /\ \A j \in 1 .. Len(o) : o[j].msg.kind = "Protocol" => j = i
NoLate(o) == \A i \in 1 .. Len(o) : o[i].msg.kind \notin Late

In(h, S) == h.phase \in S \/ Ended(h)

\* Nothing yet, announced, selected, echoed, settled or given up.
Unannounced(c, s) ==
    /\ In(c, {"Cmi", "Hello"}) /\ In(s, Early) /\ s.proposed = <<>>
    /\ NoProtocol(c.outbox) /\ NoProtocol(s.outbox) /\ NoLate(c.outbox) /\ NoLate(s.outbox)
Announced(c, s) ==
    /\ In(c, {"ProtocolHandshake"}) /\ In(s, Early) /\ s.proposed = <<>>
    /\ c.local_ready /\ s.local_ready
    /\ OneProtocol(c.outbox, "AnnounceMax") /\ NoProtocol(s.outbox)
    /\ NoLate(c.outbox) /\ NoLate(s.outbox)
Selected(c, s) ==
    /\ In(c, {"ProtocolHandshake"}) /\ In(s, {"ProtocolHandshake"}) /\ s.proposed # <<>>
    /\ NoProtocol(c.outbox) /\ OneProtocol(s.outbox, "Select")
    /\ NoLate(c.outbox) /\ NoLate(s.outbox)
Echoed(c, s) ==
    /\ In(c, Open) /\ In(s, {"ProtocolHandshake"}) /\ s.proposed # <<>>
    /\ OneProtocol(c.outbox, "Select") /\ NoProtocol(s.outbox)
Settled(c, s) ==
    /\ NoProtocol(c.outbox) /\ NoProtocol(s.outbox)
    /\ \/ In(c, Open) /\ In(s, Open)
       \/ c.phase = "ProtocolHandshake" /\ Ended(s) /\ NoLate(s.outbox)
       \/ Ended(c) /\ s.phase = "ProtocolHandshake" /\ NoLate(c.outbox)

Stage(c, s) ==
    \/ Unannounced(c, s) \/ Announced(c, s) \/ Selected(c, s) \/ Echoed(c, s) \/ Settled(c, s)

XInv ==
    /\ \A n \in Node : Own(hs[n]) /\ Posted(hs[n])
    /\ ~lost => /\ \A n \in Node : Stream(n, hs[n], hs[Peer(n)])
                /\ Stage(hs["Client"], hs["Server"])

\* What a step that leaves a node as k has put on the stream.
Grows(h, k) ==
    /\ Len(h.outbox) <= Len(k.outbox)
    /\ \A i \in 1 .. Len(h.outbox) : k.outbox[i] = h.outbox[i]
Fresh(h, k) == Len(h.outbox) + 1 .. Len(k.outbox)

Adds(h, k) ==
    /\ \A i \in Fresh(h, k) :
         /\ k.outbox[i].msg.kind # "Cmi"
         /\ IsPending(k.outbox[i].msg) => ~h.local_ready
         /\ k.outbox[i].msg.kind = "Data" => h.phase = "DataExchange"
         /\ k.outbox[i].msg.kind \in Late => h.phase \in Open \/ k.phase \in Open
    /\ k.local_ready => h.local_ready \/ \E i \in Fresh(h, k) : IsReady(k.outbox[i].msg)
    /\ k.phase \in Open => h.phase \in Open \/ \E i \in Fresh(h, k) : k.outbox[i].msg.kind = "PinState"

NoNew(h, k) == \A i \in Fresh(h, k) : k.outbox[i].msg.kind # "Protocol"
OneNew(h, k, type) ==
    \E i \in Fresh(h, k) : /\ k.outbox[i].msg.kind = "Protocol" /\ k.outbox[i].msg.type = type
                           /\ \A j \in Fresh(h, k) : k.outbox[j].msg.kind = "Protocol" => j = i

Stays(n, h, k, m) ==
    /\ NoNew(h, k) /\ k.proposed = h.proposed
    /\ \/ k.phase = h.phase
       \/ Ended(k)
       \/ h.phase = "Cmi" /\ k.phase = "Hello" /\ m.kind = "Cmi"
       \/ n = "Server" /\ h.phase = "Hello" /\ k.phase = "ProtocolHandshake"
       \/ h.phase \in Open /\ k.phase \in Open
Announces(n, h, k) ==
    /\ n = "Client" /\ h.phase = "Hello" /\ k.phase = "ProtocolHandshake"
    /\ k.local_ready /\ k.remote_ready
    /\ OneNew(h, k, "AnnounceMax")
Negotiates(n, h, k) ==
    /\ h.phase = "ProtocolHandshake"
    /\ \/ /\ n = "Server" /\ h.proposed = <<>> /\ k.proposed # <<>>
          /\ k.phase = "ProtocolHandshake" /\ OneNew(h, k, "Select")
       \/ n = "Client" /\ k.phase = "Pin" /\ OneNew(h, k, "Select")
       \/ /\ n = "Server" /\ h.proposed # <<>> /\ k.proposed = h.proposed
          /\ k.phase = "Pin" /\ NoNew(h, k)

Heeds(n, h, k, m) ==
    /\ h.phase = "Cmi" /\ m.kind = "Cmi" => k.phase # "Cmi"
    /\ k.phase = "Hello" /\ IsReady(m) => k.remote_ready
    /\ k.phase = "Hello" /\ ~IsReady(m) /\ ~IsPending(m) => k.remote_ready = h.remote_ready
    /\ m.kind = "PinState" => Ended(k) \/ k.peer_pin_state # "Unknown"
    /\ m.kind = "Protocol" => Ended(k) \/ Negotiates(n, h, k)

\* What a step of node n that has read m makes of h, as far as order goes.
Turn(n, h, k, m) ==
    /\ Own(k) /\ Posted(k) /\ Grows(h, k) /\ Adds(h, k)
    /\ Stays(n, h, k, m) \/ Announces(n, h, k) \/ (m.kind = "Protocol" /\ Negotiates(n, h, k))
    /\ Heeds(n, h, k, m)

\* What a node may send, and what it may send without moving on.
Admits(h, x) ==
    /\ x.kind # "Cmi"
    /\ x.kind = "Protocol" => h.phase = "ProtocolHandshake"
    /\ x.kind \in Late => h.phase \in Open
    /\ x.kind = "Hello" => h.phase = "Hello"
    /\ IsReady(x) => h.local_ready /\ x.waiting # None
    /\ IsPending(x) => ~h.local_ready
May(h, x) == Admits(h, x) /\ x.kind \notin {"Protocol", "Data"}

Quiet(h, k) ==
    /\ Core(h, k) /\ k.trust = h.trust /\ k.reason = h.reason
    /\ TimersOK(k) /\ Grows(h, k)
    /\ \A i \in Fresh(h, k) : May(h, k.outbox[i].msg)

LEMMA QuietRefl ==
    ASSUME NEW h \in Handshake, TimersOK(h)
    PROVE  Quiet(h, h)
<1>1. Len(h.outbox) \in Nat
  BY DEF Handshake
<1> QED
  BY <1>1 DEF Quiet, Core, Grows, Fresh

\* May looks at three fields only.
LEMMA MayByCore ==
    ASSUME NEW h, NEW g, Core(h, g), NEW x
    PROVE  May(h, x) <=> May(g, x)
BY DEF May, Admits, Core

LEMMA QuietSilent ==
    ASSUME NEW h, NEW g, NEW k, Quiet(h, g), Core(g, k), k.trust = g.trust, k.reason = g.reason,
           k.outbox = g.outbox, TimersOK(k)
    PROVE  Quiet(h, k)
<1>1. Core(h, k)
  BY CoreTrans DEF Quiet
<1> QED
  BY <1>1 DEF Quiet, Grows, Fresh

LEMMA QuietTimer ==
    ASSUME NEW h, NEW g, Quiet(h, g), NEW t \in TimerNames, NEW d \in Time,
           t = "send_prolongation" => d = None \/ h.phase = "Hello",
           t = "pin_penalty" => d = None \/ h.phase \in Open
    PROVE  Quiet(h, [g EXCEPT !.timers[t] = d])
<1> DEFINE k == [g EXCEPT !.timers[t] = d]
<1>1. g \in Handshake /\ g.timers \in Timers /\ g.phase = h.phase
  BY DEF Quiet, Core, Handshake
<1>2. Core(g, k) /\ k.outbox = g.outbox
  BY <1>1, SetTimer
<1>3. k.trust = g.trust /\ k.reason = g.reason /\ k.timers = [g.timers EXCEPT ![t] = d]
      /\ k.phase = g.phase
  BY <1>1 DEF Handshake
<1> HIDE DEF k
<1>4. /\ "send_prolongation" \in TimerNames /\ "pin_penalty" \in TimerNames
      /\ DOMAIN g.timers = TimerNames
  BY <1>1, TimerNamesAre DEF Timers
<1>5. TimersOK(k)
  BY <1>1, <1>3, <1>4 DEF TimersOK, Quiet
<1> QED
  BY <1>2, <1>3, <1>5, QuietSilent DEF k

LEMMA QuietSend ==
    ASSUME NEW h, NEW g, Quiet(h, g), h \in Handshake, NEW x \in Message, May(h, x)
    PROVE  Quiet(h, Send(g, x))
<1> DEFINE k == Send(g, x)
<1>1. g \in Handshake /\ Core(h, g)
  BY DEF Quiet, Core
<1>2. Core(g, k) /\ k.outbox = Append(g.outbox, [msg |-> x, age |-> 0]) /\ k.timers = g.timers
  BY <1>1, SendType
<1>3. k.trust = g.trust /\ k.reason = g.reason
  BY <1>1 DEF Send, Handshake
<1> HIDE DEF k
<1>4. Core(h, k)
  BY <1>1, <1>2, CoreTrans
<1>5. TimersOK(k)
  BY <1>2 DEF TimersOK, Quiet, Core
<1>6. /\ g.outbox \in Seq(Envelope) /\ Len(g.outbox) \in Nat /\ Len(h.outbox) \in Nat
  BY <1>1 DEF Handshake
<1>7. /\ Len(k.outbox) = Len(g.outbox) + 1
      /\ \A i \in 1 .. Len(g.outbox) : k.outbox[i] = g.outbox[i]
      /\ k.outbox[Len(g.outbox) + 1].msg = x
  BY <1>2, <1>6
<1>8. Grows(h, k)
  BY <1>6, <1>7 DEF Quiet, Grows
<1>9. ASSUME NEW i \in Fresh(h, k) PROVE May(h, k.outbox[i].msg)
  <2>1. CASE i = Len(g.outbox) + 1
    BY <1>7, <2>1
  <2>2. CASE i # Len(g.outbox) + 1
    <3>1. i \in Fresh(h, g) /\ i \in 1 .. Len(g.outbox)
      BY <1>6, <1>7, <2>2 DEF Fresh
    <3> QED
      BY <1>7, <3>1 DEF Quiet
  <2> QED
    BY <2>1, <2>2
<1> QED
  BY <1>3, <1>4, <1>5, <1>8, <1>9 DEF Quiet, k

\* Posted, as a node moves on ...
LEMMA PostedSilent ==
    ASSUME NEW h, NEW k, Posted(h), k.outbox = h.outbox, h.local_ready => k.local_ready,
           h.phase \notin {"Cmi", "Hello"} => k.phase \notin {"Cmi", "Hello"},
           h.phase \in Over => k.phase \in Over
    PROVE  Posted(k)
<1>1. \A x : Sent(h, x) => Sent(k, x)
  BY DEF Sent
<1> QED
  BY <1>1 DEF Posted

\* ... and as it sends what its phase admits.
LEMMA PostedSend ==
    ASSUME NEW g \in Handshake, Posted(g), NEW x \in Message, Admits(g, x)
    PROVE  Posted(Send(g, x))
<1> DEFINE k == Send(g, x)
<1>1. Core(g, k) /\ k.outbox = Append(g.outbox, [msg |-> x, age |-> 0])
  BY SendType
<1> HIDE DEF k
<1>2. g.outbox \in Seq(Envelope) /\ Len(g.outbox) \in Nat
  BY DEF Handshake
<1>3. /\ Len(k.outbox) = Len(g.outbox) + 1
      /\ \A i \in 1 .. Len(g.outbox) : k.outbox[i] = g.outbox[i]
      /\ k.outbox[Len(g.outbox) + 1].msg = x
  BY <1>1, <1>2
<1>4. \A y : Sent(g, y) <=> Sent(k, y)
  BY <1>1 DEF Sent, Core
<1>5. Sent(g, x)
  BY DEF Admits, Sent, Over
<1>6. ASSUME NEW y, Sent(g, y) PROVE Follows(y, x)
  BY <1>6 DEF Sent, Follows, Admits, IsReady, IsPending, Over, Open
<1>7. \A i \in 1 .. Len(k.outbox) : i \in 1 .. Len(g.outbox) \/ i = Len(g.outbox) + 1
  BY <1>2, <1>3
<1>8. \A i \in 1 .. Len(k.outbox) : Sent(k, k.outbox[i].msg)
  BY <1>3, <1>4, <1>5, <1>7 DEF Posted
<1>9. ASSUME NEW i \in 1 .. Len(k.outbox), NEW j \in 1 .. Len(k.outbox), i < j
      PROVE  Follows(k.outbox[i].msg, k.outbox[j].msg)
  <2>1. i \in 1 .. Len(g.outbox)
    BY <1>2, <1>3, <1>9
  <2>2. CASE j \in 1 .. Len(g.outbox)
    BY <1>3, <1>9, <2>1, <2>2 DEF Posted
  <2>3. CASE j = Len(g.outbox) + 1
    BY <1>3, <1>6, <2>1, <2>3 DEF Posted
  <2> QED
    BY <1>7, <2>2, <2>3
<1> QED
  BY <1>8, <1>9 DEF Posted, k

LEMMA PostedQuiet ==
    ASSUME NEW h \in Handshake, NEW k, Posted(h), Quiet(h, k)
    PROVE  Posted(k)
<1>1. Core(h, k) /\ k \in Handshake
  BY DEF Quiet, Core
<1>2. Len(h.outbox) \in Nat /\ Len(k.outbox) \in Nat
  BY <1>1 DEF Handshake
<1>3. \A y : Sent(h, y) <=> Sent(k, y)
  BY <1>1 DEF Sent, Core
<1>4. ASSUME NEW x, May(h, x) PROVE Sent(h, x)
  BY <1>4 DEF May, Admits, Sent, Over
<1>5. ASSUME NEW x, NEW y, May(h, x), Sent(h, y) PROVE Follows(y, x)
  BY <1>5 DEF Sent, Follows, May, Admits, IsReady, IsPending, Over, Open
<1>6. ASSUME NEW i \in 1 .. Len(k.outbox)
      PROVE  \/ i \in 1 .. Len(h.outbox) /\ k.outbox[i] = h.outbox[i]
             \/ i > Len(h.outbox) /\ May(h, k.outbox[i].msg)
  BY <1>2 DEF Quiet, Grows, Fresh
<1>7. \A i \in 1 .. Len(k.outbox) : Sent(h, k.outbox[i].msg)
  BY <1>4, <1>6 DEF Posted
<1>8. ASSUME NEW i \in 1 .. Len(k.outbox), NEW j \in 1 .. Len(k.outbox), i < j
      PROVE  Follows(k.outbox[i].msg, k.outbox[j].msg)
  <2>1. CASE j \in 1 .. Len(h.outbox) /\ k.outbox[j] = h.outbox[j]
    <3>1. i \in 1 .. Len(h.outbox) /\ k.outbox[i] = h.outbox[i]
      BY <1>2, <1>6, <1>8, <2>1
    <3> QED
      BY <1>8, <2>1, <3>1 DEF Posted
  <2>2. CASE May(h, k.outbox[j].msg)
    BY <1>5, <1>7, <2>2
  <2> QED
    BY <1>6, <2>1, <2>2
<1> QED
  BY <1>3, <1>7, <1>8 DEF Posted

\* A message that is no cue to h.
Moot(h, m) ==
    /\ m.kind \notin {"Cmi", "PinState", "Protocol"}
    /\ m.kind = "Hello" => h.phase # "Hello"

LEMMA OwnQuiet ==
    ASSUME NEW h, NEW k, Own(h), Quiet(h, k)
    PROVE  Own(k)
BY DEF Own, Quiet, Core, Ended

LEMMA QuietTurn ==
    ASSUME NEW n \in Node, NEW h \in Handshake, NEW k, NEW m, Own(h), Posted(h), Quiet(h, k), Moot(h, m)
    PROVE  Turn(n, h, k, m)
<1>1. Own(k) /\ Posted(k) /\ Grows(h, k) /\ Core(h, k)
  BY OwnQuiet, PostedQuiet DEF Quiet
<1>2. Adds(h, k)
  BY <1>1 DEF Adds, Quiet, May, Admits, Core
<1>3. Stays(n, h, k, m)
  BY <1>1 DEF Stays, NoNew, Quiet, May, Core
<1>4. Heeds(n, h, k, m)
  BY <1>1 DEF Heeds, Moot, IsReady, IsPending, Core
<1> QED
  BY <1>1, <1>2, <1>3, <1>4 DEF Turn

LEMMA EndTurn ==
    ASSUME NEW n \in Node, NEW h \in Handshake, NEW g, NEW m, Own(h), Posted(h), Quiet(h, g),
           NEW phase \in {"Aborted", "Closed"}, NEW reason \in AbortReasons,
           reason = "UnexpectedMessage" => h.local_pin_state = "Required",
           NEW k, k = [g EXCEPT !.phase = phase, !.timers = NoTimers, !.reason = reason]
    PROVE  Turn(n, h, k, m)
<1>1. g \in Handshake /\ Posted(g) /\ Core(h, g) /\ Grows(h, g)
  BY PostedQuiet DEF Quiet, Core
<1>2. /\ k.phase = phase /\ k.timers = NoTimers /\ k.reason = reason /\ k.outbox = g.outbox
      /\ k.local_ready = g.local_ready /\ k.local_pin_state = g.local_pin_state
      /\ k.proposed = g.proposed
  BY <1>1 DEF Handshake
<1>3. Ended(k) /\ k.phase \notin Early /\ k.phase \notin Open /\ k.phase \in Over
  BY <1>2 DEF Ended, Early, Open, Over
<1>4. NoTimers["send_prolongation"] = None /\ NoTimers["pin_penalty"] = None
  BY DEF NoTimers
<1>5. Own(k)
  BY <1>1, <1>2, <1>3, <1>4 DEF Own, TimersOK, Core, Early
<1>6. Posted(k)
  BY <1>1, <1>2, <1>3, PostedSilent DEF Early
<1>7. Grows(h, k) /\ Adds(h, k) /\ Stays(n, h, k, m)
  BY <1>1, <1>2, <1>3 DEF Grows, Adds, Stays, NoNew, Fresh, Quiet, May, Admits, Core
<1>8. Heeds(n, h, k, m)
  BY <1>2, <1>3 DEF Heeds, Early
<1> QED
  BY <1>5, <1>6, <1>7, <1>8 DEF Turn

LEMMA AbortTurn ==
    ASSUME NEW n \in Node, NEW h \in Handshake, NEW g, NEW m, Own(h), Posted(h), Quiet(h, g),
           ~Ended(h), NEW reason \in AbortReasons,
           reason = "UnexpectedMessage" => h.local_pin_state = "Required"
    PROVE  Turn(n, h, Abort(g, reason), m)
<1>1. Abort(g, reason) = [g EXCEPT !.phase = "Aborted", !.timers = NoTimers, !.reason = reason]
  BY DEF Quiet, Core, Ended, Abort
<1> QED
  BY <1>1, EndTurn

LEMMA FinishTurn ==
    ASSUME NEW n \in Node, NEW h \in Handshake, NEW g, NEW m, Own(h), Posted(h), Quiet(h, g),
           ~Ended(h)
    PROVE  Turn(n, h, Finish(g), m)
<1>1. Finish(g) = [g EXCEPT !.phase = "Closed", !.timers = NoTimers, !.reason = "Closed"]
  BY DEF Quiet, Core, Ended, Finish
<1>2. "Closed" \in AbortReasons
  BY DEF AbortReasons
<1> QED
  BY <1>1, <1>2, EndTurn

\* A handshake that has ended stays as it is, whatever arrives.
LEMMA EndedTurn ==
    ASSUME NEW n \in Node, NEW h \in Handshake, NEW m, Own(h), Posted(h), Ended(h)
    PROVE  Turn(n, h, h, m)
<1>1. Len(h.outbox) \in Nat /\ h.phase \notin Early /\ h.phase \notin Open
  BY DEF Handshake, Ended, Early, Open
<1>2. Grows(h, h) /\ Adds(h, h) /\ Stays(n, h, h, m)
  BY <1>1 DEF Grows, Adds, Stays, NoNew, Fresh
<1>3. Heeds(n, h, h, m)
  BY <1>1 DEF Heeds, Early
<1> QED
  BY <1>2, <1>3 DEF Turn

\* Where a message of a grown outbox comes from.
LEMMA GrowsTrans ==
    ASSUME NEW h \in Handshake, NEW g \in Handshake, NEW k \in Handshake, Grows(h, g), Grows(g, k)
    PROVE  /\ Grows(h, k)
           /\ \A i \in Fresh(h, k) : \/ i \in Fresh(g, k)
                                     \/ i \in Fresh(h, g) /\ k.outbox[i] = g.outbox[i]
           /\ \A i \in Fresh(g, k) : i \in Fresh(h, k)
           /\ \A i \in Fresh(h, g) : i \in Fresh(h, k) /\ k.outbox[i] = g.outbox[i]
<1>1. Len(h.outbox) \in Nat /\ Len(g.outbox) \in Nat /\ Len(k.outbox) \in Nat
  BY DEF Handshake
<1> QED
  BY <1>1 DEF Grows, Fresh

LEMMA QuietThenTurn ==
    ASSUME NEW n \in Node, NEW h \in Handshake, NEW g, NEW k \in Handshake, NEW m,
           Quiet(h, g), Turn(n, g, k, m)
    PROVE  Turn(n, h, k, m)
<1>1. /\ g \in Handshake /\ Core(h, g) /\ Grows(h, g) /\ Grows(g, k)
      /\ Own(k) /\ Posted(k)
  BY DEF Quiet, Core, Turn
<1>2. /\ Grows(h, k)
      /\ \A i \in Fresh(h, k) : \/ i \in Fresh(g, k)
                                \/ i \in Fresh(h, g) /\ k.outbox[i] = g.outbox[i]
      /\ \A i \in Fresh(g, k) : i \in Fresh(h, k)
  BY <1>1, GrowsTrans
<1>3. \A i \in Fresh(h, k) : i \in Fresh(g, k) \/ May(h, k.outbox[i].msg)
  BY <1>2 DEF Quiet
<1>4. /\ g.phase = h.phase /\ g.local_ready = h.local_ready /\ g.remote_ready = h.remote_ready
      /\ g.proposed = h.proposed
  BY <1>1 DEF Core
<1>5. Adds(h, k)
  <2>1. Adds(g, k)
    BY DEF Turn
  <2> QED
    BY <2>1, <1>2, <1>3, <1>4 DEF Adds, May, Admits
<1>6. \A x : May(h, x) => x.kind # "Protocol"
  BY DEF May
<1>7. NoNew(g, k) => NoNew(h, k)
  BY <1>3, <1>6 DEF NoNew
<1>8. ASSUME NEW type, OneNew(g, k, type) PROVE OneNew(h, k, type)
  BY <1>2, <1>3, <1>6, <1>8 DEF OneNew
<1>9. Stays(n, g, k, m) => Stays(n, h, k, m)
  BY <1>4, <1>7 DEF Stays
<1>10. Announces(n, g, k) => Announces(n, h, k)
  BY <1>4, <1>8 DEF Announces
<1>11. Negotiates(n, g, k) => Negotiates(n, h, k)
  BY <1>4, <1>7, <1>8 DEF Negotiates
<1>12. Heeds(n, h, k, m)
  BY <1>4, <1>11 DEF Turn, Heeds
<1> QED
  BY <1>1, <1>2, <1>5, <1>9, <1>10, <1>11, <1>12 DEF Turn

LEMMA TurnThenQuiet ==
    ASSUME NEW n \in Node, NEW h \in Handshake, NEW g \in Handshake, NEW k, NEW m,
           Turn(n, h, g, m), Quiet(g, k), h.local_ready => g.local_ready
    PROVE  Turn(n, h, k, m)
<1>1. /\ k \in Handshake /\ Core(g, k) /\ Grows(h, g) /\ Grows(g, k)
  BY DEF Quiet, Core, Turn
<1>2. Own(k) /\ Posted(k)
  BY OwnQuiet, PostedQuiet DEF Turn
<1>3. /\ Grows(h, k)
      /\ \A i \in Fresh(h, k) : \/ i \in Fresh(g, k)
                                \/ i \in Fresh(h, g) /\ k.outbox[i] = g.outbox[i]
      /\ \A i \in Fresh(h, g) : i \in Fresh(h, k) /\ k.outbox[i] = g.outbox[i]
  BY <1>1, GrowsTrans
<1>4. \A i \in Fresh(h, k) : \/ May(g, k.outbox[i].msg)
                             \/ i \in Fresh(h, g) /\ k.outbox[i] = g.outbox[i]
  BY <1>3 DEF Quiet
<1>5. /\ k.phase = g.phase /\ k.local_ready = g.local_ready /\ k.remote_ready = g.remote_ready
      /\ k.proposed = g.proposed /\ k.peer_pin_state = g.peer_pin_state
  BY <1>1 DEF Core
<1>6. Adds(h, k)
  <2>1. Adds(h, g)
    BY DEF Turn
  <2> QED
    BY <2>1, <1>3, <1>4, <1>5 DEF Adds, May, Admits
<1>7. \A x : May(g, x) => x.kind # "Protocol"
  BY DEF May
<1>8. NoNew(h, g) => NoNew(h, k)
  BY <1>4, <1>7 DEF NoNew
<1>9. ASSUME NEW type, OneNew(h, g, type) PROVE OneNew(h, k, type)
  BY <1>3, <1>4, <1>7, <1>9 DEF OneNew
<1>10. Stays(n, h, g, m) => Stays(n, h, k, m)
  BY <1>5, <1>8 DEF Stays, Ended
<1>11. Announces(n, h, g) => Announces(n, h, k)
  BY <1>5, <1>9 DEF Announces
<1>12. Negotiates(n, h, g) => Negotiates(n, h, k)
  BY <1>5, <1>8, <1>9 DEF Negotiates
<1>13. Heeds(n, h, k, m)
  BY <1>5, <1>12 DEF Turn, Heeds, Ended
<1> QED
  BY <1>2, <1>3, <1>6, <1>10, <1>11, <1>12, <1>13 DEF Turn

-----------------------------------------------------------------------------
(* Steps that leave a node where it is.                                      *)

LEMMA SendOtherQuiet ==
    ASSUME NEW h \in Handshake, NEW g, Quiet(h, g), NEW x \in OtherMsg, x.kind \notin {"Cmi", "Data"}
    PROVE  Quiet(h, Send(g, x))
<1>1. x \in Message /\ x.kind \notin {"Hello", "PinState", "PinInput", "Protocol", "Cmi", "Data"}
  BY DEF Message, OtherMsg
<1>2. May(h, x)
  BY <1>1 DEF May, Admits, Late, IsReady, IsPending
<1> QED
  BY <1>1, <1>2, QuietSend

LEMMA OtherKinds ==
    /\ KeyMaterialState.kind \notin {"Cmi", "Data"}
    /\ KeyMaterialStateResponse.kind \notin {"Cmi", "Data"}
    /\ \A stale \in BOOLEAN : KeyMaterialStateRequest(stale).kind \notin {"Cmi", "Data"}
    /\ AccessMethodsRequest.kind \notin {"Cmi", "Data"} /\ AccessMethods.kind \notin {"Cmi", "Data"}
    /\ ConnectionClose("Announce").kind \notin {"Cmi", "Data"}
    /\ ConnectionClose("Confirm").kind \notin {"Cmi", "Data"}
    /\ PinError \in OtherMsg /\ PinError.kind \notin {"Cmi", "Data"}
    /\ ProtocolError \in OtherMsg /\ ProtocolError.kind \notin {"Cmi", "Data"}
BY DEF KeyMaterialState, KeyMaterialStateResponse, KeyMaterialStateRequest, AccessMethodsRequest,
       AccessMethods, ConnectionClose, PinError, ProtocolError, OtherMsg

LEMMA SendHelloQuiet ==
    ASSUME NEW h \in Handshake, NEW g, Quiet(h, g), h.phase = "Hello",
           NEW phase \in {"Ready", "Pending", "Aborted"}, NEW w \in Time, NEW b \in BOOLEAN,
           phase = "Ready" => h.local_ready /\ w # None, phase = "Pending" => ~h.local_ready
    PROVE  Quiet(h, Send(g, ConnectionHello(phase, w, b)))
<1> DEFINE x == ConnectionHello(phase, w, b)
<1>1. x \in Message /\ x.kind = "Hello" /\ x.phase = phase /\ x.waiting = w
  BY DEF ConnectionHello, HelloMsg, Message
<1> HIDE DEF x
<1>2. May(h, x)
  BY <1>1 DEF May, Admits, Late, IsReady, IsPending
<1> QED
  BY <1>1, <1>2, QuietSend DEF x

LEMMA SendPinStateQuiet ==
    ASSUME NEW h \in Handshake, NEW g, Quiet(h, g), h.phase \in Open
    PROVE  Quiet(h, SendPinState(g))
<1> DEFINE b == /\ g.local_pin_state \in {"Required", "Optional"}
                /\ g.timers.pin_penalty # None
           x == PinState(g.local_pin_state, b)
<1>1. g.local_pin_state \in PinStates /\ b \in BOOLEAN
  BY DEF Quiet, Core, Handshake
<1>2. x \in PinStateMsg /\ x.kind = "PinState"
  BY <1>1 DEF PinState, PinStateMsg
<1>3. SendPinState(g) = Send(g, x)
  BY DEF SendPinState
<1> HIDE DEF x
<1>4. x \in Message /\ May(h, x)
  BY <1>2 DEF Message, May, Admits, Late, IsReady, IsPending
<1> QED
  BY <1>3, <1>4, QuietSend

LEMMA SendPinIfPermittedQuiet ==
    ASSUME NEW h \in Handshake, NEW g, Quiet(h, g)
    PROVE  Quiet(h, SendPinIfPermitted(g))
<1>1. CASE PinWanted(g) /\ g.trust >= COMMISSIONING_TRUST /\ g.peer_pin # "none"
  <2> DEFINE x == PinInput(g.peer_pin)
             k == Send(g, x)
             l == [k EXCEPT !.peer_pin = "none"]
  <2>1. g \in Handshake /\ g.peer_pin \in {"right", "wrong"} /\ h.phase \in Open
    BY <1>1 DEF Quiet, Core, Handshake, PinWanted, Open
  <2>2. x \in Message /\ x.kind = "PinInput"
    BY <2>1 DEF PinInput, PinInputMsg, Message
  <2>3. SendPinIfPermitted(g) = l
    BY <1>1 DEF SendPinIfPermitted
  <2> HIDE DEF x
  <2>4. May(h, x)
    BY <2>1, <2>2 DEF May, Admits, Late, IsReady, IsPending
  <2>5. Quiet(h, k)
    BY <2>2, <2>4, QuietSend
  <2>6. k \in Handshake
    BY <2>5 DEF Quiet, Core
  <2> HIDE DEF k
  <2>7. Core(k, l) /\ l.outbox = k.outbox /\ l.trust = k.trust /\ l.reason = k.reason
        /\ l.timers = k.timers /\ l.phase = k.phase
    BY <2>6 DEF Handshake, Core
  <2> HIDE DEF l
  <2>8. TimersOK(l)
    BY <2>5, <2>7 DEF TimersOK, Quiet
  <2> QED
    BY <2>3, <2>5, <2>7, <2>8, QuietSilent
<1>2. CASE ~(PinWanted(g) /\ g.trust >= COMMISSIONING_TRUST /\ g.peer_pin # "none")
  BY <1>2 DEF SendPinIfPermitted
<1> QED
  BY <1>1, <1>2

LEMMA SendProtocolErrorQuiet ==
    ASSUME NEW h \in Handshake, NEW g, Quiet(h, g)
    PROVE  Quiet(h, SendProtocolError(g))
BY SendOtherQuiet, OtherKinds DEF SendProtocolError

LEMMA ServedQuiet ==
    ASSUME NEW h \in Handshake, NEW g, Quiet(h, g), NEW t \in TimerNames
    PROVE  Quiet(h, Served(g, t))
BY QuietTimer DEF Served, Time

LEMMA ArmProlongationQuiet ==
    ASSUME config \in Configs, NEW n \in Node, NEW h, NEW g, Quiet(h, g), h.phase = "Hello"
    PROVE  Quiet(h, ArmProlongation(n, g))
<1>1. g \in Handshake
  BY DEF Quiet, Core
<1>2. PICK d \in Time : ArmProlongation(n, g) = [g EXCEPT !.timers["send_prolongation"] = d]
  BY <1>1, ArmProlongationSilent
<1> QED
  BY <1>2, QuietTimer, TimerNamesAre

LEMMA HelloPhaseIs ==
    ASSUME NEW h, h.local_ready \in BOOLEAN
    PROVE  /\ HelloPhase(h) \in {"Ready", "Pending", "Aborted"}
           /\ HelloPhase(h) = "Ready" => h.local_ready
           /\ HelloPhase(h) = "Pending" => ~h.local_ready
BY DEF HelloPhase

LEMMA SendProlongationRequestQuiet ==
    ASSUME config \in Configs, NEW n \in Node, NEW h \in Handshake, NEW g, Quiet(h, g), h.phase = "Hello"
    PROVE  Quiet(h, SendProlongationRequest(n, g))
<1> DEFINE window == IF g.peer_waiting = None THEN config[n].hello_init
                     ELSE IF g.peer_waiting < ProlongMin THEN ProlongMin
                     ELSE g.peer_waiting
           k == Send(g, ConnectionHello(HelloPhase(g), config[n].hello_init, TRUE))
<1>1. g.local_ready = h.local_ready /\ g \in Handshake /\ g.local_ready \in BOOLEAN
  BY DEF Quiet, Core, Handshake
<1>2. window \in Time /\ config[n].hello_init \in Time /\ config[n].hello_init # None
  BY SMTT(20), <1>1, Constants, ConfigType DEF Handshake, Time, None
<1>3. Quiet(h, k)
  <2>1. /\ HelloPhase(g) \in {"Ready", "Pending", "Aborted"}
        /\ HelloPhase(g) = "Ready" => h.local_ready
        /\ HelloPhase(g) = "Pending" => ~h.local_ready
    BY <1>1, HelloPhaseIs
  <2>2. TRUE \in BOOLEAN /\ FALSE \in BOOLEAN
    OBVIOUS
  <2> QED
    BY <1>2, <2>1, <2>2, SendHelloQuiet, Zenon
<1>4. k \in Handshake
  BY <1>3 DEF Quiet, Core
<1>5. SendProlongationRequest(n, g) = [k EXCEPT !.timers.prolongation_reply = window]
  BY DEF SendProlongationRequest
<1> HIDE DEF window, k
<1>6. [k EXCEPT !.timers.prolongation_reply = window]
        = [k EXCEPT !.timers["prolongation_reply"] = window]
  BY <1>4 DEF Handshake
<1> QED
  BY <1>2, <1>3, <1>5, <1>6, QuietTimer, TimerNamesAre

LEMMA AcceptProlongationQuiet ==
    ASSUME config \in Configs, NEW n \in Node, NEW h \in Handshake, NEW g, Quiet(h, g), h.phase = "Hello"
    PROVE  Quiet(h, AcceptProlongation(n, g))
<1> DEFINE k == Send(g, ConnectionHello(HelloPhase(g), config[n].hello_init, FALSE))
<1>1. g.local_ready = h.local_ready /\ g.local_ready \in BOOLEAN
  BY DEF Quiet, Core, Handshake
<1>2. config[n].hello_init \in Time /\ config[n].hello_init # None
  BY ConfigType DEF Time, None
<1>3. Quiet(h, k)
  <2>1. /\ HelloPhase(g) \in {"Ready", "Pending", "Aborted"}
        /\ HelloPhase(g) = "Ready" => h.local_ready
        /\ HelloPhase(g) = "Pending" => ~h.local_ready
    BY <1>1, HelloPhaseIs
  <2>2. TRUE \in BOOLEAN /\ FALSE \in BOOLEAN
    OBVIOUS
  <2> QED
    BY <1>2, <2>1, <2>2, SendHelloQuiet, Zenon
<1>4. k \in Handshake
  BY <1>3 DEF Quiet, Core
<1>5. AcceptProlongation(n, g) = [k EXCEPT !.timers.wait_for_ready = config[n].hello_init]
  BY DEF AcceptProlongation
<1> HIDE DEF k
<1>6. [k EXCEPT !.timers.wait_for_ready = config[n].hello_init]
        = [k EXCEPT !.timers["wait_for_ready"] = config[n].hello_init]
  BY <1>4 DEF Handshake
<1> QED
  BY <1>2, <1>3, <1>5, <1>6, QuietTimer, TimerNamesAre

LEMMA KeyMaterialTimerQuiet ==
    ASSUME NEW h \in Handshake, NEW g, Quiet(h, g), NEW b \in BOOLEAN, NEW d \in Time
    PROVE  Quiet(h, [g EXCEPT !.key_material_resent = b, !.timers.key_material = d])
<1> DEFINE k == [g EXCEPT !.key_material_resent = b]
<1>1. g \in Handshake
  BY DEF Quiet, Core
<1>2. Core(g, k) /\ k.outbox = g.outbox /\ k.trust = g.trust /\ k.reason = g.reason
      /\ k.timers = g.timers /\ k.phase = g.phase
  BY <1>1 DEF Core, Handshake
<1>3. [g EXCEPT !.key_material_resent = b, !.timers.key_material = d]
        = [k EXCEPT !.timers["key_material"] = d]
  BY <1>1 DEF Handshake
<1> HIDE DEF k
<1>4. Quiet(h, k)
  BY <1>2, QuietSilent DEF TimersOK, Quiet
<1> QED
  BY <1>3, <1>4, QuietTimer, TimerNamesAre

LEMMA KeyMaterialQuiet ==
    ASSUME NEW n \in Node, NEW h \in Handshake, TimersOK(h), NEW m
    PROVE  /\ Quiet(h, SendKeyMaterial(n, h))
           /\ Quiet(h, OnKeyMaterialStateRequest(n, h, m))
           /\ Quiet(h, OnKeyMaterialStateResponse(h))
<1>1. Quiet(h, h) /\ StateResponseTimeout \in Time /\ None \in Time /\ FALSE \in BOOLEAN
  BY QuietRefl, Constants DEF Time
<1>2. Quiet(h, Send(h, KeyMaterialState))
  BY <1>1, SendOtherQuiet, OtherMessages, OtherKinds
<1>3. Quiet(h, SendKeyMaterial(n, h))
  <2>1. Quiet(h, [Send(h, KeyMaterialState) EXCEPT !.key_material_resent = FALSE,
                                                   !.timers.key_material = StateResponseTimeout])
    BY <1>1, <1>2, KeyMaterialTimerQuiet, Zenon
  <2> QED
    BY <1>1, <2>1 DEF SendKeyMaterial
<1>4. Quiet(h, OnKeyMaterialStateResponse(h))
  BY <1>1, KeyMaterialTimerQuiet, Zenon DEF OnKeyMaterialStateResponse
<1> QED
  BY <1>1, <1>3, <1>4 DEF OnKeyMaterialStateRequest

-----------------------------------------------------------------------------
(* What the handlers do to the order.                                        *)

\* Turn looks at five fields of the node before the step.
LEMMA SameTurn ==
    ASSUME NEW n, NEW h, NEW g, NEW k, NEW m, Turn(n, g, k, m), g.phase = h.phase,
           g.local_ready = h.local_ready, g.remote_ready = h.remote_ready,
           g.proposed = h.proposed, g.outbox = h.outbox
    PROVE  Turn(n, h, k, m)
<1>1. Grows(h, k) /\ Adds(h, k) /\ Own(k) /\ Posted(k)
  BY DEF Turn, Grows, Adds, Fresh
<1>2. NoNew(g, k) <=> NoNew(h, k)
  BY DEF NoNew, Fresh
<1>3. \A type : OneNew(g, k, type) <=> OneNew(h, k, type)
  BY DEF OneNew, Fresh
<1>4. Stays(n, g, k, m) => Stays(n, h, k, m)
  BY <1>2 DEF Stays
<1>5. Announces(n, g, k) => Announces(n, h, k)
  BY <1>3 DEF Announces
<1>6. Negotiates(n, g, k) => Negotiates(n, h, k)
  BY <1>2, <1>3 DEF Negotiates
<1>7. Heeds(n, h, k, m)
  BY <1>6 DEF Turn, Heeds
<1> QED
  BY <1>1, <1>4, <1>5, <1>6, <1>7 DEF Turn

\* A step that sends nothing.
LEMMA SilentTurn ==
    ASSUME NEW n \in Node, NEW h \in Handshake, NEW k, NEW m, Posted(h), Own(k),
           k.outbox = h.outbox, k.local_ready = h.local_ready, k.proposed = h.proposed,
           k.phase = h.phase \/ (h.phase \in Open /\ k.phase \in Open),
           Heeds(n, h, k, m)
    PROVE  Turn(n, h, k, m)
<1>1. Len(h.outbox) \in Nat
  BY DEF Handshake
<1>2. Posted(k)
  BY PostedSilent DEF Open, Over
<1>3. \A i : i \notin Fresh(h, k)
  BY <1>1 DEF Fresh
<1>4. Grows(h, k) /\ Adds(h, k) /\ Stays(n, h, k, m)
  BY <1>1, <1>3 DEF Grows, Adds, Stays, NoNew
<1> QED
  BY <1>2, <1>4 DEF Turn

LEMMA MootHeeds ==
    ASSUME NEW n, NEW h, NEW k, NEW m, Moot(h, m), k.remote_ready = h.remote_ready,
           k.phase = "Hello" => h.phase = "Hello"
    PROVE  Heeds(n, h, k, m)
BY DEF Moot, Heeds, IsReady, IsPending

LEMMA KeyMaterialUnansweredIs ==
    ASSUME NEW h \in Handshake, NEW g, Quiet(h, g)
    PROVE  \/ Quiet(h, KeyMaterialUnanswered(g))
           \/ \E a : Quiet(h, a) /\ KeyMaterialUnanswered(g) = Abort(a, "Timeout")
<1>1. g \in Handshake /\ StateResponseTimeout \in Time
  BY Constants DEF Quiet, Core, Time
<1>2. CASE g.key_material_resent
  <2> DEFINE k == [g EXCEPT !.key_material_resent = FALSE]
  <2>1. Core(g, k) /\ k.outbox = g.outbox /\ k.trust = g.trust /\ k.reason = g.reason
        /\ k.timers = g.timers /\ k.phase = g.phase
    BY <1>1 DEF Core, Handshake
  <2>2. KeyMaterialUnanswered(g) = Abort(k, "Timeout")
    BY <1>2 DEF KeyMaterialUnanswered
  <2> HIDE DEF k
  <2>3. TimersOK(k)
    BY <2>1 DEF Quiet, TimersOK
  <2> QED
    BY <2>1, <2>2, <2>3, QuietSilent
<1>3. CASE ~g.key_material_resent
  <2>1. Quiet(h, Send(g, KeyMaterialState))
    BY SendOtherQuiet, OtherMessages, OtherKinds
  <2>2. Quiet(h, [Send(g, KeyMaterialState) EXCEPT !.key_material_resent = TRUE,
                                                   !.timers.key_material = StateResponseTimeout])
    BY <1>1, <2>1, KeyMaterialTimerQuiet, Zenon
  <2> QED
    BY <1>3, <2>2 DEF KeyMaterialUnanswered
<1> QED
  BY <1>2, <1>3

LEMMA OnCloseTurn ==
    ASSUME NEW n \in Node, NEW h \in Handshake, Own(h), Posted(h), ~Ended(h), NEW m
    PROVE  Turn(n, h, OnClose(h, m), m)
<1>1. Quiet(h, h)
  BY QuietRefl DEF Own
<1>2. Quiet(h, Send(h, ConnectionClose("Confirm")))
  BY <1>1, SendOtherQuiet, OtherMessages, OtherKinds
<1> QED
  BY <1>1, <1>2, FinishTurn DEF OnClose

LEMMA CloseTurn ==
    ASSUME NEW n \in Node, NEW h \in Handshake, Own(h), Posted(h), h.phase \in Over, NEW m, Moot(h, m)
    PROVE  Turn(n, h, Close(h), m)
<1>1. CASE h.phase \in {"Closed", "Aborted", "Closing"}
  BY <1>1, QuietRefl, QuietTurn DEF Close, Own
<1>2. CASE h.phase \notin {"Closed", "Aborted", "Closing"}
  <2> DEFINE t == [h.timers EXCEPT !["close"] = CloseMaxTime]
             g == [h EXCEPT !.phase = "Closing", !.timers = t]
             k == Send(g, ConnectionClose("Announce"))
  <2>1. h.timers \in Timers /\ h.phase \in {"Pin", "DataExchange"}
    BY <1>2 DEF Handshake, Over, Open
  <2>2. t \in Timers /\ t["send_prolongation"] = h.timers["send_prolongation"]
        /\ t["pin_penalty"] = h.timers["pin_penalty"]
    BY <2>1, Constants, TimerNamesAre DEF Timers, Time
  <2>3. Close(h) = k
    BY <1>2, <2>1 DEF Handshake, Close
  <2> HIDE DEF t
  <2>4. /\ g \in Handshake /\ g.phase = "Closing" /\ g.outbox = h.outbox /\ Same(h, g)
        /\ g.trust = h.trust /\ g.reason = h.reason /\ g.timers = t
    BY <2>1, <2>2 DEF Handshake, Phases, Same
  <2> HIDE DEF g
  <2>5. Own(g)
    BY <2>1, <2>2, <2>4 DEF Own, TimersOK, Same, Early, Open, Ended
  <2>6. Turn(n, h, g, m)
    BY <2>1, <2>4, <2>5, MootHeeds, SilentTurn DEF Same, Open
  <2>7. Quiet(g, g)
    BY <2>4, <2>5, QuietRefl DEF Own
  <2>8. Quiet(g, k)
    BY <2>4, <2>7, SendOtherQuiet, OtherMessages, OtherKinds
  <2> QED
    BY <2>3, <2>4, <2>6, <2>8, TurnThenQuiet DEF Same
<1> QED
  BY <1>1, <1>2

LEMMA SendDataTurn ==
    ASSUME NEW n \in Node, NEW h \in Handshake, Own(h), Posted(h), h.phase = "DataExchange", NEW m, Moot(h, m)
    PROVE  Turn(n, h, Send(h, Data), m)
<1> DEFINE k == Send(h, Data)
<1>1. Data \in Message /\ Data.kind = "Data"
  BY OtherMessages DEF Data, Message
<1>2. Core(h, k) /\ k.outbox = Append(h.outbox, [msg |-> Data, age |-> 0]) /\ k.timers = h.timers
  BY <1>1, SendType
<1>3. k.trust = h.trust /\ k.reason = h.reason
  BY DEF Send, Handshake
<1>4. Admits(h, Data)
  BY <1>1 DEF Admits, Late, Open, IsReady, IsPending
<1>5. Posted(k)
  BY <1>1, <1>4, PostedSend
<1> HIDE DEF k
<1>6. Own(k)
  BY <1>2, <1>3 DEF Own, TimersOK, Core, Ended
<1>7. h.outbox \in Seq(Envelope) /\ Len(h.outbox) \in Nat
  BY DEF Handshake
<1>8. /\ Len(k.outbox) = Len(h.outbox) + 1
      /\ \A i \in 1 .. Len(h.outbox) : k.outbox[i] = h.outbox[i]
      /\ k.outbox[Len(h.outbox) + 1].msg = Data
  BY <1>2, <1>7
<1>9. \A i \in Fresh(h, k) : k.outbox[i].msg = Data
  BY <1>7, <1>8 DEF Fresh
<1>10. Grows(h, k)
  BY <1>7, <1>8 DEF Grows
<1>11. Adds(h, k) /\ Stays(n, h, k, m)
  BY <1>1, <1>2, <1>9 DEF Adds, Stays, NoNew, Core, IsPending, Open
<1>12. Heeds(n, h, k, m)
  BY <1>2, MootHeeds DEF Core
<1> QED
  BY <1>5, <1>6, <1>10, <1>11, <1>12 DEF Turn, k

-----------------------------------------------------------------------------
(* Hello.                                                                    *)

LEMMA EnterProtocolHandshakeTurn ==
    ASSUME config \in Configs, NEW n \in Node, NEW h \in Handshake, NEW g \in Handshake, NEW m,
           Turn(n, h, g, m), h.phase = "Hello", g.phase = "Hello", g.local_ready, g.remote_ready,
           g.timers["send_prolongation"] = None
    PROVE  Turn(n, h, EnterProtocolHandshake(n, g), m)
<1> DEFINE k == [g EXCEPT !.phase = "ProtocolHandshake", !.timers.wait = WaitTimer]
           x == Protocol("AnnounceMax", config[n].max_version, config[n].formats)
           l == Send(k, x)
           t == [g.timers EXCEPT !["wait"] = WaitTimer]
<1>1. g.timers \in Timers /\ Own(g) /\ Posted(g) /\ Grows(h, g) /\ Adds(h, g) /\ Heeds(n, h, g, m)
  BY DEF Turn, Handshake
<1>2. t \in Timers /\ t["send_prolongation"] = None /\ t["pin_penalty"] = g.timers["pin_penalty"]
  BY <1>1, Constants, TimerNamesAre DEF Timers, Time
<1>3. k = [g EXCEPT !.phase = "ProtocolHandshake", !.timers = t]
  BY <1>1 DEF Handshake
<1> HIDE DEF t
<1>4. /\ k \in Handshake /\ k.phase = "ProtocolHandshake" /\ k.outbox = g.outbox /\ Same(g, k)
      /\ k.trust = g.trust /\ k.reason = g.reason /\ k.timers = t
  BY ZenonT(30), <1>1, <1>2, <1>3 DEF Handshake, Phases, Same
<1>5. EnterProtocolHandshake(n, g) = IF n = "Client" THEN l ELSE k
  BY DEF EnterProtocolHandshake
<1> HIDE DEF k
<1>6. Own(k)
  BY <1>1, <1>2, <1>4 DEF Own, TimersOK, Early, Open, Same, Ended
<1>7. Posted(k)
  BY <1>1, <1>4, PostedSilent DEF Same, Over, Open
<1>8. /\ NoNew(h, g) /\ g.proposed = h.proposed
      /\ m.kind \notin {"Cmi", "PinState", "Protocol"} \/ m.kind = "Cmi"
  <2>1. ~Announces(n, h, g) /\ ~Negotiates(n, h, g) /\ ~Ended(g)
    BY DEF Announces, Negotiates, Ended
  <2>2. m.kind # "PinState" /\ m.kind # "Protocol"
    BY <1>1, <2>1 DEF Heeds, Own, Early
  <2> QED
    BY <2>1, <2>2 DEF Turn, Stays
<1>9. CASE n = "Server"
  <2>1. Grows(h, k) /\ Adds(h, k)
    BY <1>1, <1>4 DEF Grows, Adds, Fresh, Same, Open
  <2>2. Stays(n, h, k, m)
    BY <1>4, <1>8, <1>9 DEF Stays, NoNew, Fresh, Same
  <2>3. Heeds(n, h, k, m)
    BY <1>4, <1>8 DEF Heeds
  <2> QED
    BY <1>5, <1>6, <1>7, <1>9, <2>1, <2>2, <2>3 DEF Turn
<1>10. CASE n = "Client"
  <2>1. x \in Message /\ x.kind = "Protocol" /\ x.type = "AnnounceMax"
    <3>1. x \in ProtocolMsg
      BY ConfigType DEF Protocol, ProtocolMsg
    <3> QED
      BY <3>1 DEF Message, Protocol
  <2> HIDE DEF x
  <2>2. Core(k, l) /\ l.outbox = Append(k.outbox, [msg |-> x, age |-> 0]) /\ l.timers = k.timers
    BY <1>4, <2>1, SendType
  <2>3. l.trust = k.trust /\ l.reason = k.reason
    BY <1>4 DEF Send, Handshake
  <2>4. Posted(l)
    BY <1>4, <1>7, <2>1, PostedSend DEF Admits, Late, IsReady, IsPending
  <2> HIDE DEF l
  <2>5. Own(l)
    BY <1>6, <2>2, <2>3 DEF Own, TimersOK, Core, Ended
  <2>6. g.outbox \in Seq(Envelope) /\ Len(g.outbox) \in Nat /\ Len(h.outbox) \in Nat
    BY DEF Handshake
  <2>7. /\ Len(l.outbox) = Len(g.outbox) + 1
        /\ \A i \in 1 .. Len(g.outbox) : l.outbox[i] = g.outbox[i]
        /\ l.outbox[Len(g.outbox) + 1].msg = x
    BY <1>4, <2>2, <2>6
  <2>8. Grows(h, l)
    BY SMTT(20), <1>1, <2>6, <2>7 DEF Grows
  <2>9. /\ \A i \in Fresh(h, l) : \/ i = Len(g.outbox) + 1
                                  \/ i \in Fresh(h, g) /\ l.outbox[i] = g.outbox[i]
        /\ \A i \in Fresh(h, g) : i \in Fresh(h, l) /\ l.outbox[i] = g.outbox[i]
        /\ Len(g.outbox) + 1 \in Fresh(h, l)
    BY <1>1, <2>6, <2>7 DEF Grows, Fresh
  <2>10. /\ l.phase = "ProtocolHandshake" /\ l.local_ready = g.local_ready
         /\ l.remote_ready = g.remote_ready
    BY <1>4, <2>2 DEF Core, Same
  <2>11. Adds(h, l)
    BY <1>1, <2>1, <2>7, <2>9, <2>10 DEF Adds, Open, IsPending, Late
  <2>12. OneNew(h, l, "AnnounceMax")
    <3>1. \A j \in Fresh(h, l) : l.outbox[j].msg.kind = "Protocol" => j = Len(g.outbox) + 1
      BY <1>8, <2>9 DEF NoNew
    <3> QED
      BY <2>1, <2>7, <2>9, <3>1 DEF OneNew
  <2>13. Announces(n, h, l)
    BY <1>10, <2>10, <2>12 DEF Announces
  <2>14. Heeds(n, h, l, m)
    BY <1>8, <2>10 DEF Heeds
  <2> QED
    BY <1>5, <1>10, <2>4, <2>5, <2>8, <2>11, <2>13, <2>14 DEF Turn
<1> QED
  BY <1>9, <1>10 DEF Node

LEMMA TryFinishHelloTurn ==
    ASSUME config \in Configs, NEW n \in Node, NEW h \in Handshake, NEW g \in Handshake, NEW m,
           Turn(n, h, g, m), h.phase = "Hello", g.phase = "Hello", h.local_ready => g.local_ready
    PROVE  Turn(n, h, TryFinishHello(n, g), m)
<1>1. CASE g.local_ready /\ g.remote_ready
  <2> DEFINE t == [[[g.timers EXCEPT !["wait_for_ready"] = None]
                       EXCEPT !["send_prolongation"] = None]
                       EXCEPT !["prolongation_reply"] = None]
             k == [g EXCEPT !.timers.wait_for_ready = None,
                            !.timers.send_prolongation = None,
                            !.timers.prolongation_reply = None]
  <2>1. g.timers \in Timers /\ Own(g)
    BY DEF Turn, Handshake
  <2>2. t \in Timers /\ t["send_prolongation"] = None /\ t["pin_penalty"] = g.timers["pin_penalty"]
    BY <2>1, TimerNamesAre DEF Timers, Time
  <2>3. k = [g EXCEPT !.timers = t]
    BY <2>1 DEF Handshake
  <2>4. TryFinishHello(n, g) = EnterProtocolHandshake(n, k)
    BY <1>1 DEF TryFinishHello
  <2> HIDE DEF t
  <2>5. Core(g, k) /\ k.outbox = g.outbox
    BY <2>1, <2>2, <2>3, SetTimers
  <2>6. k.timers = t /\ k.trust = g.trust /\ k.reason = g.reason /\ k.phase = "Hello"
    BY <2>2, <2>3 DEF Handshake
  <2> HIDE DEF k
  <2>7. TimersOK(k) /\ TimersOK(g)
    BY <2>1, <2>2, <2>6 DEF TimersOK, Own, Open
  <2>8. Quiet(g, k)
    BY <2>5, <2>6, <2>7, QuietRefl, QuietSilent
  <2>9. Turn(n, h, k, m)
    BY <2>8, TurnThenQuiet
  <2>10. k \in Handshake /\ k.local_ready /\ k.remote_ready
    BY <1>1, <2>5 DEF Core
  <2> QED
    BY <2>2, <2>4, <2>6, <2>9, <2>10, EnterProtocolHandshakeTurn
<1>2. CASE ~(g.local_ready /\ g.remote_ready)
  BY <1>2 DEF TryFinishHello
<1> QED
  BY <1>1, <1>2

LEMMA AnnounceHelloTurn ==
    ASSUME config \in Configs, NEW n \in Node, NEW h \in Handshake, Own(h), Posted(h),
           h.phase = "Hello", NEW m, m.kind \notin {"Hello", "PinState", "Protocol"},
           h.trust = Pending \/ h.trust >= MIN_USER_TRUST
    PROVE  /\ Turn(n, h, AnnounceHello(n, h), m)
           /\ AnnounceHello(n, h).phase = "Hello"
           /\ h.local_ready => AnnounceHello(n, h).local_ready
<1> DEFINE ready == h.trust # Pending
           wait == config[n].hello_init
           hello == ConnectionHello(IF ready THEN "Ready" ELSE "Pending", wait, FALSE)
           s == [h EXCEPT !.local_ready = h.local_ready \/ ready]
           t == Send(s, hello)
           k == [t EXCEPT !.timers["wait_for_ready"] = wait]
<1>1. h.local_ready \in BOOLEAN
  BY DEF Handshake
<1>2. wait \in Time /\ wait # None
  BY ConfigType DEF Time, None
<1>3. [Send(h, hello) EXCEPT !.local_ready = @ \/ ready, !.timers.wait_for_ready = wait] = k
  BY <1>1 DEF Send, Handshake
<1>4. AnnounceHello(n, h) = ArmProlongation(n, k)
  BY <1>3 DEF AnnounceHello
<1>5. /\ s \in Handshake /\ s.phase = "Hello" /\ s.outbox = h.outbox
      /\ s.local_ready = (h.local_ready \/ ready) /\ s.remote_ready = h.remote_ready
      /\ s.local_pin_state = h.local_pin_state /\ s.peer_pin_state = h.peer_pin_state
      /\ s.proposed = h.proposed /\ s.trust = h.trust /\ s.reason = h.reason
      /\ s.timers = h.timers
  BY <1>1 DEF Handshake
<1>6. /\ hello \in Message /\ hello.kind = "Hello" /\ hello.waiting = wait
      /\ hello.phase = IF ready THEN "Ready" ELSE "Pending"
  BY <1>2 DEF ConnectionHello, HelloMsg, Message
<1>7. h.local_ready => ready
  BY DEF Own
<1>8. s.local_ready <=> ready
  BY <1>1, <1>5, <1>7, Zenon
<1> HIDE DEF s, wait, hello
<1>9. Admits(s, hello)
  BY <1>2, <1>5, <1>6, <1>8 DEF Admits, Late, IsReady, IsPending
<1>10. h.local_ready => s.local_ready
  BY <1>7, <1>8, Zenon
<1>11. Posted(s)
  BY <1>5, <1>10, PostedSilent
<1>12. Posted(t)
  BY <1>5, <1>6, <1>9, <1>11, PostedSend
<1>13. Core(s, t) /\ t.outbox = Append(s.outbox, [msg |-> hello, age |-> 0]) /\ t.timers = s.timers
  BY <1>5, <1>6, SendType
<1>14. t.trust = s.trust /\ t.reason = s.reason
  BY <1>5 DEF Send, Handshake
<1> HIDE DEF t
<1>15. /\ t \in Handshake /\ t.phase = "Hello" /\ (t.local_ready <=> ready)
       /\ t.remote_ready = h.remote_ready /\ t.proposed = h.proposed
       /\ t.local_pin_state = h.local_pin_state /\ t.peer_pin_state = h.peer_pin_state
       /\ t.trust = h.trust /\ t.reason = h.reason /\ t.timers = h.timers
  BY <1>5, <1>8, <1>13, <1>14 DEF Core
<1>16. Own(t)
  BY <1>15 DEF Own, TimersOK, Early, Open, Ended
<1>17. h.outbox \in Seq(Envelope) /\ Len(h.outbox) \in Nat
  BY DEF Handshake
<1>18. /\ Len(t.outbox) = Len(h.outbox) + 1
       /\ \A i \in 1 .. Len(h.outbox) : t.outbox[i] = h.outbox[i]
       /\ t.outbox[Len(h.outbox) + 1].msg = hello
  BY <1>5, <1>13, <1>17
<1>19. Grows(h, t)
  BY <1>17, <1>18 DEF Grows
<1>20. /\ \A i \in Fresh(h, t) : t.outbox[i].msg = hello
       /\ Len(h.outbox) + 1 \in Fresh(h, t)
  BY <1>17, <1>18 DEF Fresh
<1>21. Adds(h, t)
  <2>1. IsPending(hello) => ~h.local_ready
    BY <1>6, <1>7 DEF IsPending
  <2>2. t.local_ready => IsReady(hello)
    BY <1>6, <1>15 DEF IsReady
  <2>3. hello.kind \notin Late /\ hello.kind # "Cmi" /\ hello.kind # "Data" /\ t.phase \notin Open
    BY <1>6, <1>15 DEF Late, Open
  <2> QED
    BY <1>18, <1>20, <2>1, <2>2, <2>3 DEF Adds
<1>22. Stays(n, h, t, m)
  BY <1>6, <1>15, <1>20 DEF Stays, NoNew
<1>23. Heeds(n, h, t, m)
  BY <1>15 DEF Heeds, IsReady, IsPending
<1>24. Turn(n, h, t, m)
  BY <1>12, <1>16, <1>19, <1>21, <1>22, <1>23 DEF Turn
<1>25. Quiet(t, t)
  BY <1>15, <1>16, QuietRefl DEF Own
<1>26. Quiet(t, k)
  BY <1>2, <1>25, QuietTimer, TimerNamesAre
<1> HIDE DEF k
<1>27. Quiet(t, ArmProlongation(n, k))
  BY <1>15, <1>26, ArmProlongationQuiet
<1>28. h.local_ready => t.local_ready
  BY <1>7, <1>15
<1>29. LET a == ArmProlongation(n, k) IN a.phase = "Hello" /\ a.local_ready = t.local_ready
  BY <1>15, <1>27 DEF Quiet, Core
<1> QED
  BY <1>4, <1>15, <1>24, <1>27, <1>28, <1>29, TurnThenQuiet

LEMMA AnnounceHelloRefusedTurn ==
    ASSUME NEW n \in Node, NEW h \in Handshake, Own(h), Posted(h), h.phase = "Hello", NEW m,
           ~(h.trust = Pending \/ h.trust >= MIN_USER_TRUST)
    PROVE  Turn(n, h, AnnounceHello(n, h), m) /\ Ended(AnnounceHello(n, h))
<1>1. Quiet(h, h) /\ ~Ended(h) /\ "TrustRejected" \in AbortReasons /\ None \in Time
  BY QuietRefl DEF Own, Ended, AbortReasons, Time
<1>2. Quiet(h, Send(h, ConnectionHello("Aborted", None, FALSE)))
  BY <1>1, SendHelloQuiet
<1>3. \A g \in Handshake : Ended(Abort(g, "TrustRejected"))
  BY DEF Ended, Abort, Handshake
<1> QED
  BY <1>1, <1>2, <1>3, AbortTurn DEF AnnounceHello, Quiet, Core

LEMMA HearReadyTurn ==
    ASSUME config \in Configs, NEW n \in Node, NEW h \in Handshake, Own(h), Posted(h),
           h.phase = "Hello", NEW m, IsReady(m)
    PROVE  Turn(n, h, HearReady(n, h), m)
<1> DEFINE w == IF h.local_ready THEN h.timers["wait_for_ready"] ELSE None
           t == [[h.timers EXCEPT !["prolongation_reply"] = None] EXCEPT !["wait_for_ready"] = w]
           g == [h EXCEPT !.remote_ready = TRUE, !.timers = t]
<1>1. h.timers \in Timers
  BY DEF Handshake
<1>2. w \in Time /\ t \in Timers
  BY <1>1, TimerNamesAre DEF Timers, Time
<1>3. [h EXCEPT !.remote_ready = TRUE, !.timers.prolongation_reply = None,
                !.timers.wait_for_ready = IF h.local_ready THEN @ ELSE None] = g
  BY <1>1 DEF Handshake, Timers
<1>4. HearReady(n, h) = TryFinishHello(n, g)
  BY <1>3 DEF HearReady
<1>5. t["send_prolongation"] = h.timers["send_prolongation"] /\ t["pin_penalty"] = h.timers["pin_penalty"]
  BY <1>1, TimerNamesAre DEF Timers
<1> HIDE DEF t
<1>6. /\ g \in Handshake /\ g.phase = "Hello" /\ g.outbox = h.outbox
      /\ g.local_ready = h.local_ready /\ g.remote_ready = TRUE
      /\ g.local_pin_state = h.local_pin_state /\ g.peer_pin_state = h.peer_pin_state
      /\ g.proposed = h.proposed /\ g.trust = h.trust /\ g.reason = h.reason /\ g.timers = t
  BY <1>1, <1>2 DEF Handshake
<1> HIDE DEF g
<1>7. Own(g)
  BY <1>5, <1>6 DEF Own, TimersOK, Early, Open, Ended
<1>8. Heeds(n, h, g, m)
  BY <1>6 DEF Heeds, IsReady, IsPending
<1>9. Turn(n, h, g, m)
  BY <1>6, <1>7, <1>8, SilentTurn
<1> QED
  BY <1>4, <1>6, <1>9, TryFinishHelloTurn

LEMMA HearPendingTurn ==
    ASSUME NEW n \in Node, NEW h \in Handshake, Own(h), Posted(h), h.phase = "Hello", NEW m, IsPending(m)
    PROVE  Turn(n, h, HearPending(h), m)
<1> DEFINE t == [h.timers EXCEPT !["prolongation_reply"] = None]
           g == [h EXCEPT !.remote_ready = FALSE, !.timers = t]
<1>1. h.timers \in Timers
  BY DEF Handshake
<1>2. /\ t \in Timers /\ t["send_prolongation"] = h.timers["send_prolongation"]
      /\ t["pin_penalty"] = h.timers["pin_penalty"]
  BY <1>1, TimerNamesAre DEF Timers, Time
<1>3. HearPending(h) = g
  BY <1>1 DEF Handshake, HearPending
<1> HIDE DEF t
<1>4. /\ g \in Handshake /\ g.phase = "Hello" /\ g.outbox = h.outbox
      /\ g.local_ready = h.local_ready
      /\ g.local_pin_state = h.local_pin_state /\ g.peer_pin_state = h.peer_pin_state
      /\ g.proposed = h.proposed /\ g.trust = h.trust /\ g.reason = h.reason /\ g.timers = t
  BY <1>1, <1>2 DEF Handshake
<1> HIDE DEF g
<1>5. Own(g)
  BY <1>2, <1>4 DEF Own, TimersOK, Early, Open, Ended
<1>6. Heeds(n, h, g, m)
  BY <1>4 DEF Heeds, IsReady, IsPending
<1> QED
  BY <1>3, <1>4, <1>5, <1>6, SilentTurn

LEMMA OnHelloTurn ==
    ASSUME config \in Configs, NEW n \in Node, NEW h, NodeOK(n, h), Own(h), Posted(h), ~Ended(h),
           NEW m \in HelloMsg, m.phase = "Ready" => m.waiting # None
    PROVE  Turn(n, h, OnHello(n, h, m), m)
<1> DEFINE noted == IF m.waiting = None THEN h
                    ELSE [h EXCEPT !.peer_waiting = m.waiting, !.peer_deadline = m.waiting]
           heard == IF m.phase = "Aborted" THEN Abort(noted, "PeerAborted")
                    ELSE IF m.phase = "Pending" THEN HearPending(noted)
                    ELSE IF ~h.local_ready /\ m.waiting = None
                    THEN Abort(noted, "UnexpectedMessage")
                    ELSE HearReady(n, noted)
           answered == IF m.prolongation THEN AcceptProlongation(n, heard) ELSE heard
<1>0. h \in Handshake /\ m.kind = "Hello" /\ m.phase \in {"Ready", "Pending", "Aborted"} /\ m.waiting \in Time
  BY DEF NodeOK, HelloMsg
<1>1. CASE h.phase # "Hello"
  BY <1>0, <1>1, QuietRefl, QuietTurn DEF OnHello, Own, Moot
<1>2. CASE h.phase = "Hello"
  <2>1. "PeerAborted" \in AbortReasons
    BY DEF AbortReasons
  <2>2. /\ noted \in Handshake /\ noted.phase = "Hello" /\ noted.outbox = h.outbox /\ Same(h, noted)
        /\ noted.trust = h.trust /\ noted.reason = h.reason /\ noted.timers = h.timers
    BY <1>0, <1>2 DEF Handshake, Same
  <2>3. OnHello(n, h, m) = IF heard.phase # "Hello" THEN heard ELSE ArmProlongation(n, answered)
    BY <1>2 DEF OnHello
  <2> HIDE DEF noted
  <2>4. Own(noted) /\ TimersOK(noted) /\ ~Ended(noted)
    BY <1>2, <2>2 DEF Own, TimersOK, Early, Open, Ended, Same
  <2>5. Posted(noted)
    BY <1>2, <2>2, PostedSilent DEF Same
  <2>6. Turn(n, noted, heard, m)
    <3>1. CASE m.phase = "Aborted"
      BY <2>1, <2>2, <2>4, <2>5, <3>1, QuietRefl, AbortTurn
    <3>2. CASE m.phase = "Pending"
      BY <1>0, <2>2, <2>4, <2>5, <3>2, HearPendingTurn DEF IsPending
    <3>3. CASE m.phase = "Ready"
      BY <1>0, <2>2, <2>4, <2>5, <3>3, HearReadyTurn DEF IsReady
    <3> QED
      BY <1>0, <3>1, <3>2, <3>3
  <2>7. Good(n, noted, heard, m)
    <3>1. Core(h, noted) /\ Calm(n, h, h)
      BY <1>2, <2>2, CalmRefl DEF Core, Same
    <3>2. NodeOK(n, noted)
      BY <2>2, <3>1, CalmSilent, CalmGood DEF Good
    <3>3. "UnexpectedMessage" \in AbortReasons
      BY DEF AbortReasons
    <3> QED
      BY <1>0, <2>1, <2>2, <2>4, <3>2, <3>3, AbortGood, HearPendingGood, HearReadyGood
  <2> HIDE DEF heard
  <2>8. Turn(n, h, heard, m)
    BY <1>2, <2>2, <2>6, SameTurn DEF Same
  <2>9. CASE heard.phase # "Hello"
    BY <2>3, <2>8, <2>9
  <2>10. CASE heard.phase = "Hello"
    <3>1. heard \in Handshake /\ TimersOK(heard) /\ (h.local_ready => heard.local_ready)
      BY <2>2, <2>6, <2>7 DEF Good, NodeOK, Mono, Turn, Own, Same
    <3>2. Quiet(heard, heard)
      BY <3>1, QuietRefl
    <3>3. Quiet(heard, answered)
      BY <2>10, <3>1, <3>2, AcceptProlongationQuiet
    <3> HIDE DEF answered
    <3>4. Quiet(heard, ArmProlongation(n, answered))
      BY <2>10, <3>3, ArmProlongationQuiet
    <3> QED
      BY <1>0, <2>3, <2>8, <2>10, <3>1, <3>4, TurnThenQuiet
  <2> QED
    BY <2>9, <2>10
<1> QED
  BY <1>1, <1>2

LEMMA OnCmiTurn ==
    ASSUME config \in Configs, NEW n \in Node, NEW h \in Handshake, Own(h), Posted(h),
           h.phase = "Cmi", NEW m, m.kind = "Cmi"
    PROVE  Turn(n, h, OnCmi(n, h), m)
<1> DEFINE t == [h.timers EXCEPT !["cmi"] = None]
           g == [h EXCEPT !.phase = "Hello", !.timers = t]
           k == AnnounceHello(n, g)
<1>1. h.timers \in Timers
  BY DEF Handshake
<1>2. /\ t \in Timers /\ t["pin_penalty"] = h.timers["pin_penalty"]
  BY <1>1, TimerNamesAre DEF Timers, Time
<1>3. OnCmi(n, h) = k
  BY <1>1 DEF Handshake, OnCmi
<1> HIDE DEF t
<1>4. /\ g \in Handshake /\ g.phase = "Hello" /\ g.outbox = h.outbox /\ Same(h, g)
      /\ g.trust = h.trust /\ g.reason = h.reason /\ g.timers = t
  BY <1>1, <1>2 DEF Handshake, Phases, Same
<1> HIDE DEF g
<1>5. Own(g)
  BY <1>2, <1>4 DEF Own, TimersOK, Same, Early, Open, Ended
<1>6. Posted(g)
  <2>1. h.phase \notin Over
    BY DEF Over, Open
  <2> QED
    BY <1>4, <2>1, PostedSilent DEF Same
<1>7. Turn(n, g, k, m) /\ (k.phase = "Hello" \/ Ended(k))
  BY <1>4, <1>5, <1>6, AnnounceHelloTurn, AnnounceHelloRefusedTurn
<1> HIDE DEF k
<1>8. Grows(h, k) /\ Own(k) /\ Posted(k)
  BY <1>4, <1>7 DEF Turn, Grows
<1>9. k.phase \notin Open /\ g.phase \notin Open /\ k.phase # "Cmi" /\ k.phase # "ProtocolHandshake"
  BY <1>4, <1>7 DEF Open, Ended
<1>10. Adds(h, k)
  BY <1>4, <1>7, <1>9 DEF Turn, Adds, Fresh, Same
<1>11. Stays(n, g, k, m)
  BY <1>4, <1>7, <1>9 DEF Turn, Announces, Negotiates
<1>12. Stays(n, h, k, m)
  BY <1>4, <1>7, <1>11 DEF Stays, NoNew, Fresh, Same
<1>13. Heeds(n, h, k, m)
  BY <1>4, <1>7, <1>9 DEF Turn, Heeds, Same, IsReady, IsPending
<1> QED
  BY <1>3, <1>8, <1>10, <1>12, <1>13 DEF Turn

LEMMA SetTrustTurn ==
    ASSUME config \in Configs, NEW n \in Node, NEW h, NodeOK(n, h), Own(h), Posted(h),
           NEW trust \in Trusts, trust # Pending
    PROVE  Turn(n, h, SetTrust(n, h, trust), Data)
<1> DEFINE g == [h EXCEPT !.trust = trust]
<1>1. h \in Handshake /\ Data.kind = "Data"
  BY DEF NodeOK, Data
<1>2. Core(h, g) /\ g.outbox = h.outbox /\ g.trust = trust /\ g.reason = h.reason /\ g.timers = h.timers
  BY <1>1 DEF Core, Handshake
<1>3. SetTrust(n, h, trust) = IF h.phase = "Hello" THEN TryFinishHello(n, AnnounceHello(n, g)) ELSE g
  BY DEF SetTrust
<1> HIDE DEF g
<1>4. Own(g)
  BY <1>2 DEF Own, TimersOK, Core, Ended
<1>5. Posted(g)
  BY <1>2, PostedSilent DEF Core
<1>6. g \in Handshake
  BY <1>2 DEF Core
<1>7. CASE h.phase # "Hello"
  <2>1. Moot(h, Data)
    BY <1>1 DEF Moot
  <2>2. Heeds(n, h, g, Data)
    BY <1>2, <2>1, MootHeeds DEF Core
  <2> QED
    BY <1>1, <1>2, <1>3, <1>4, <1>7, <2>2, SilentTurn DEF Core
<1>8. CASE h.phase = "Hello"
  <2> DEFINE a == AnnounceHello(n, g)
  <2>1. g.phase = "Hello" /\ NodeOK(n, g)
    <3>1. Good(n, h, g, Data)
      BY <1>1, <1>2, <1>8, CalmRefl, CalmSilent, CalmGood DEF Ended
    <3> QED
      BY <1>2, <1>8, <3>1 DEF Core, Good
  <2>2. Turn(n, g, TryFinishHello(n, a), Data)
    <3>1. CASE g.trust = Pending \/ g.trust >= MIN_USER_TRUST
      <4>1. a \in Handshake
        BY <2>1, <3>1, AnnounceHelloMet DEF Met
      <4>2. /\ Turn(n, g, a, Data) /\ a.phase = "Hello"
            /\ g.local_ready => a.local_ready
        BY <1>1, <1>4, <1>5, <1>6, <2>1, <3>1, AnnounceHelloTurn
      <4> HIDE DEF a
      <4> QED
        BY <1>6, <2>1, <4>1, <4>2, TryFinishHelloTurn
    <3>2. CASE ~(g.trust = Pending \/ g.trust >= MIN_USER_TRUST)
      BY <1>4, <1>5, <1>6, <2>1, <3>2, AnnounceHelloRefused, AnnounceHelloRefusedTurn
    <3> QED
      BY <3>1, <3>2
  <2> QED
    BY <1>2, <1>3, <1>8, <2>2, SameTurn DEF Core
<1> QED
  BY <1>7, <1>8

-----------------------------------------------------------------------------
(* Protocol handshake.                                                       *)

LEMMA EnterPinIs ==
    ASSUME NEW h \in Handshake, Own(h), Posted(h), h.phase = "ProtocolHandshake"
    PROVE  LET e == EnterPin(h)
           IN  /\ Own(e) /\ Posted(e) /\ e.phase = "Pin" /\ Same(h, e)
               /\ Len(e.outbox) = Len(h.outbox) + 1
               /\ \A i \in 1 .. Len(h.outbox) : e.outbox[i] = h.outbox[i]
               /\ e.outbox[Len(h.outbox) + 1].msg.kind = "PinState"
<1> DEFINE t == [h.timers EXCEPT !["wait"] = WaitTimer]
           g == [h EXCEPT !.phase = "Pin", !.timers = t]
           b == /\ g.local_pin_state \in {"Required", "Optional"}
                /\ g.timers.pin_penalty # None
           x == PinState(g.local_pin_state, b)
           e == Send(g, x)
<1>1. h.timers \in Timers
  BY DEF Handshake
<1>2. /\ t \in Timers /\ t["send_prolongation"] = h.timers["send_prolongation"]
      /\ t["pin_penalty"] = h.timers["pin_penalty"]
  BY <1>1, Constants, TimerNamesAre DEF Timers, Time
<1>3. EnterPin(h) = e
  BY <1>1 DEF EnterPin, SendPinState, Handshake
<1> HIDE DEF t
<1>4. /\ g \in Handshake /\ g.phase = "Pin" /\ g.outbox = h.outbox /\ Same(h, g)
      /\ g.trust = h.trust /\ g.reason = h.reason /\ g.timers = t
  BY <1>1, <1>2 DEF Handshake, Phases, Same
<1> HIDE DEF g
<1>5. Own(g)
  BY <1>2, <1>4 DEF Own, TimersOK, Same, Early, Open, Ended
<1>6. Posted(g)
  <2>1. g.phase \in Over
    BY <1>4 DEF Over, Open
  <2> QED
    BY <1>4, <2>1, PostedSilent DEF Same
<1>7. x \in Message /\ x.kind = "PinState"
  <2>1. g.local_pin_state \in PinStates /\ b \in BOOLEAN
    BY <1>4 DEF Handshake
  <2> QED
    BY <2>1 DEF PinState, PinStateMsg, Message
<1> HIDE DEF x, b
<1>8. Admits(g, x)
  BY <1>4, <1>7 DEF Admits, Late, Open, IsReady, IsPending
<1>9. Posted(e)
  BY <1>4, <1>6, <1>7, <1>8, PostedSend
<1>10. Core(g, e) /\ e.outbox = Append(g.outbox, [msg |-> x, age |-> 0]) /\ e.timers = g.timers
  BY <1>4, <1>7, SendType
<1>11. e.trust = g.trust /\ e.reason = g.reason
  BY <1>4 DEF Send, Handshake
<1> HIDE DEF e
<1>12. Own(e)
  BY <1>5, <1>10, <1>11 DEF Own, TimersOK, Core, Ended
<1>13. h.outbox \in Seq(Envelope) /\ Len(h.outbox) \in Nat
  BY DEF Handshake
<1>14. /\ Len(e.outbox) = Len(h.outbox) + 1
       /\ \A i \in 1 .. Len(h.outbox) : e.outbox[i] = h.outbox[i]
       /\ e.outbox[Len(h.outbox) + 1].msg = x
  BY <1>4, <1>10, <1>13
<1>15. e.phase = "Pin" /\ Same(h, e)
  BY <1>4, <1>10 DEF Core, Same
<1> QED
  BY <1>3, <1>7, <1>9, <1>12, <1>14, <1>15

LEMMA RefusedTurn ==
    ASSUME NEW n \in Node, NEW h \in Handshake, Own(h), Posted(h), ~Ended(h), NEW m
    PROVE  Turn(n, h, Mismatch(h), m)
<1>1. Quiet(h, SendProtocolError(h)) /\ "SelectionMismatch" \in AbortReasons
  BY QuietRefl, SendProtocolErrorQuiet DEF Own, AbortReasons
<1> QED
  BY <1>1, AbortTurn DEF Mismatch

LEMMA OnAnnounceMaxTurn ==
    ASSUME config \in Configs, NEW h, NodeOK("Server", h), Own(h), Posted(h),
           h.phase = "ProtocolHandshake", h.proposed = <<>>, NEW m \in ProtocolMsg,
           m.type = "AnnounceMax"
    PROVE  Turn("Server", h, OnAnnounceMax("Server", h, m), m)
<1> DEFINE n == "Server"
           version == SelectVersion(n, m)
           format == SelectFormat(n, m)
           select == Protocol("Select", version, <<format>>)
           g == [h EXCEPT !.proposed = <<select>>, !.negotiated = <<version, format>>,
                          !.timers.wait = WaitTimer]
           k == Send(g, select)
<1>0. n \in Node /\ ~Ended(h) /\ h \in Handshake /\ h.timers \in Timers /\ m.kind = "Protocol"
  BY DEF Node, Ended, NodeOK, Handshake, ProtocolMsg
<1>1. CASE version < 100 \/ CommonFormats(n, m) = {}
  BY <1>0, <1>1, RefusedTurn DEF OnAnnounceMax
<1>2. CASE ~(version < 100) /\ CommonFormats(n, m) # {}
  <2>1. version \in Nat
    BY <1>0, <1>2, ConfigType DEF SelectVersion, ProtocolMsg
  <2>2. format \in STRING
    BY <1>0, <1>2, SelectFormatIs
  <2>3. OnAnnounceMax(n, h, m) = k
    BY <1>2 DEF OnAnnounceMax
  <2> HIDE DEF version, format
  <2>4. <<format>> \in Seq(STRING)
    BY <2>2
  <2>5. select \in ProtocolMsg /\ select.kind = "Protocol" /\ select.type = "Select"
    BY <2>1, <2>4 DEF Protocol, ProtocolMsg
  <2> HIDE DEF select
  <2> DEFINE neg == <<version, format>>
             prop == <<select>>
             t == [h.timers EXCEPT !["wait"] = WaitTimer]
  <2>6. neg \in Nat \X STRING /\ prop \in Seq(ProtocolMsg) /\ prop # <<>>
    BY <2>1, <2>2, <2>5
  <2>7. /\ t \in Timers /\ t["send_prolongation"] = h.timers["send_prolongation"]
        /\ t["pin_penalty"] = h.timers["pin_penalty"]
    BY <1>0, Constants, TimerNamesAre DEF Timers, Time
  <2>8. g = [h EXCEPT !.proposed = prop, !.negotiated = neg, !.timers = t]
    BY <1>0 DEF Handshake
  <2> HIDE DEF neg, prop, t
  <2>9. /\ g \in Handshake /\ g.phase = "ProtocolHandshake" /\ g.outbox = h.outbox
        /\ g.local_ready = h.local_ready /\ g.remote_ready = h.remote_ready
        /\ g.local_pin_state = h.local_pin_state /\ g.peer_pin_state = h.peer_pin_state
        /\ g.proposed = prop /\ g.trust = h.trust /\ g.reason = h.reason /\ g.timers = t
    BY <1>0, <2>6, <2>7, <2>8 DEF Handshake
  <2> HIDE DEF g
  <2>10. Own(g)
    BY <2>7, <2>9 DEF Own, TimersOK, Early, Open, Ended
  <2>11. Posted(g)
    BY <2>9, PostedSilent
  <2>12. Admits(g, select) /\ select \in Message
    BY <2>5, <2>9 DEF Admits, Late, IsReady, IsPending, Message
  <2>13. Posted(k)
    BY <2>9, <2>11, <2>12, PostedSend
  <2>14. Core(g, k) /\ k.outbox = Append(g.outbox, [msg |-> select, age |-> 0]) /\ k.timers = g.timers
    BY <2>9, <2>12, SendType
  <2>15. k.trust = g.trust /\ k.reason = g.reason
    BY <2>9 DEF Send, Handshake
  <2> HIDE DEF k
  <2>16. Own(k)
    BY <2>10, <2>14, <2>15 DEF Own, TimersOK, Core, Ended
  <2>17. h.outbox \in Seq(Envelope) /\ Len(h.outbox) \in Nat
    BY <1>0 DEF Handshake
  <2>18. /\ Len(k.outbox) = Len(h.outbox) + 1
         /\ \A i \in 1 .. Len(h.outbox) : k.outbox[i] = h.outbox[i]
         /\ k.outbox[Len(h.outbox) + 1].msg = select
    BY <2>9, <2>14, <2>17
  <2>19. Grows(h, k)
    BY <2>17, <2>18 DEF Grows
  <2>20. /\ \A i \in Fresh(h, k) : i = Len(h.outbox) + 1
         /\ Len(h.outbox) + 1 \in Fresh(h, k)
    BY <2>17, <2>18 DEF Fresh
  <2>21. k.phase = "ProtocolHandshake" /\ k.proposed # <<>> /\ k.local_ready = h.local_ready
    BY <2>6, <2>9, <2>14 DEF Core
  <2>22. Adds(h, k)
    BY <2>5, <2>18, <2>20, <2>21 DEF Adds, Late, Open, IsPending
  <2>23. OneNew(h, k, "Select")
    BY <2>5, <2>18, <2>20 DEF OneNew
  <2>24. Negotiates(n, h, k)
    BY <2>21, <2>23 DEF Negotiates
  <2>25. Heeds(n, h, k, m)
    BY <1>0, <2>21, <2>24 DEF Heeds
  <2> QED
    BY <1>0, <2>3, <2>13, <2>16, <2>19, <2>22, <2>24, <2>25 DEF Turn
<1> QED
  BY <1>1, <1>2

LEMMA OnConfirmationTurn ==
    ASSUME NEW h \in Handshake, Own(h), Posted(h), h.phase = "ProtocolHandshake",
           h.proposed # <<>>, NEW m \in ProtocolMsg
    PROVE  Turn("Server", h, OnConfirmation(h, m), m)
<1>0. "Server" \in Node /\ ~Ended(h) /\ m.kind = "Protocol" /\ Len(h.outbox) \in Nat
  BY DEF Node, Ended, ProtocolMsg, Handshake
<1>1. CASE h.proposed = <<m>>
  <2> DEFINE e == EnterPin(h)
  <2>1. /\ Own(e) /\ Posted(e) /\ e.phase = "Pin" /\ Same(h, e)
        /\ Len(e.outbox) = Len(h.outbox) + 1
        /\ \A i \in 1 .. Len(h.outbox) : e.outbox[i] = h.outbox[i]
        /\ e.outbox[Len(h.outbox) + 1].msg.kind = "PinState"
    BY EnterPinIs
  <2>2. OnConfirmation(h, m) = e
    BY <1>1 DEF OnConfirmation
  <2> HIDE DEF e
  <2>3. Grows(h, e)
    BY <1>0, <2>1 DEF Grows
  <2>4. /\ \A i \in Fresh(h, e) : i = Len(h.outbox) + 1
        /\ Len(h.outbox) + 1 \in Fresh(h, e)
    BY <1>0, <2>1 DEF Fresh
  <2>5. Adds(h, e) /\ NoNew(h, e)
    BY <2>1, <2>4 DEF Adds, NoNew, Late, Open, IsPending, Same
  <2>6. Negotiates("Server", h, e)
    BY <2>1, <2>5 DEF Negotiates, Same
  <2>7. Heeds("Server", h, e, m)
    BY <1>0, <2>1, <2>6 DEF Heeds
  <2> QED
    BY <1>0, <2>1, <2>2, <2>3, <2>5, <2>6, <2>7 DEF Turn
<1>2. CASE h.proposed # <<m>>
  BY <1>0, <1>2, RefusedTurn DEF OnConfirmation
<1> QED
  BY <1>1, <1>2

LEMMA OnSelectTurn ==
    ASSUME config \in Configs, NEW h, NodeOK("Client", h), Own(h), Posted(h),
           h.phase = "ProtocolHandshake", NEW m \in ProtocolMsg, m.type = "Select"
    PROVE  Turn("Client", h, OnSelect("Client", h, m), m)
<1> DEFINE n == "Client"
           neg == <<m.version, m.formats[1]>>
           g == [h EXCEPT !.negotiated = neg]
           k == Send(g, m)
           e == EnterPin(k)
<1>0. n \in Node /\ ~Ended(h) /\ h \in Handshake /\ m.kind = "Protocol" /\ m \in Message
  BY DEF Node, Ended, NodeOK, ProtocolMsg, Message
<1>1. CASE ~(SupportsVersion(n, m.version) /\ Len(m.formats) = 1
             /\ m.formats[1] \in Elements(config[n].formats))
  BY <1>0, <1>1, RefusedTurn DEF OnSelect
<1>2. CASE SupportsVersion(n, m.version) /\ Len(m.formats) = 1
           /\ m.formats[1] \in Elements(config[n].formats)
  <2>1. OnSelect(n, h, m) = e
    BY <1>2 DEF OnSelect
  <2>2. neg \in Nat \X STRING
    <3>1. m.version \in Nat /\ m.formats \in Seq(STRING)
      BY DEF ProtocolMsg
    <3>2. m.formats[1] \in STRING
      BY <1>2, <3>1
    <3> QED
      BY <3>1, <3>2
  <2> HIDE DEF neg
  <2>3. /\ g \in Handshake /\ g.phase = "ProtocolHandshake" /\ g.outbox = h.outbox
        /\ g.local_ready = h.local_ready /\ g.remote_ready = h.remote_ready
        /\ g.local_pin_state = h.local_pin_state /\ g.peer_pin_state = h.peer_pin_state
        /\ g.proposed = h.proposed /\ g.trust = h.trust /\ g.reason = h.reason /\ g.timers = h.timers
    BY <1>0, <2>2 DEF Handshake
  <2> HIDE DEF g
  <2>4. Own(g)
    BY <2>3 DEF Own, TimersOK, Early, Open, Ended
  <2>5. Posted(g)
    BY <2>3, PostedSilent
  <2>6. Admits(g, m)
    BY <1>0, <2>3 DEF Admits, Late, IsReady, IsPending
  <2>7. Posted(k)
    BY <1>0, <2>3, <2>5, <2>6, PostedSend
  <2>8. Core(g, k) /\ k.outbox = Append(g.outbox, [msg |-> m, age |-> 0]) /\ k.timers = g.timers
    BY <1>0, <2>3, SendType
  <2>9. k.trust = g.trust /\ k.reason = g.reason
    BY <2>3 DEF Send, Handshake
  <2> HIDE DEF k
  <2>10. Own(k)
    BY <2>4, <2>8, <2>9 DEF Own, TimersOK, Core, Ended
  <2>11. k \in Handshake /\ k.phase = "ProtocolHandshake" /\ k.local_ready = h.local_ready
    BY <2>3, <2>8 DEF Core
  <2>12. /\ Own(e) /\ Posted(e) /\ e.phase = "Pin" /\ Same(k, e)
         /\ Len(e.outbox) = Len(k.outbox) + 1
         /\ \A i \in 1 .. Len(k.outbox) : e.outbox[i] = k.outbox[i]
         /\ e.outbox[Len(k.outbox) + 1].msg.kind = "PinState"
    BY <2>7, <2>10, <2>11, EnterPinIs
  <2> HIDE DEF e
  <2>13. h.outbox \in Seq(Envelope) /\ Len(h.outbox) \in Nat
    BY <1>0 DEF Handshake
  <2>14. /\ Len(k.outbox) = Len(h.outbox) + 1
         /\ \A i \in 1 .. Len(h.outbox) : k.outbox[i] = h.outbox[i]
         /\ k.outbox[Len(h.outbox) + 1].msg = m
    BY <2>3, <2>8, <2>13
  <2>15. /\ Len(e.outbox) = Len(h.outbox) + 2
         /\ \A i \in 1 .. Len(h.outbox) : e.outbox[i] = h.outbox[i]
         /\ e.outbox[Len(h.outbox) + 1].msg = m
         /\ e.outbox[Len(h.outbox) + 2].msg.kind = "PinState"
    <3>1. /\ Len(e.outbox) = Len(h.outbox) + 2 /\ Len(k.outbox) + 1 = Len(h.outbox) + 2
          /\ Len(h.outbox) + 1 \in 1 .. Len(k.outbox)
          /\ \A i \in 1 .. Len(h.outbox) : i \in 1 .. Len(k.outbox)
      <4>1. Len(k.outbox) = Len(h.outbox) + 1 /\ Len(e.outbox) = Len(k.outbox) + 1
        BY <2>12, <2>14
      <4> QED
        BY <2>13, <4>1
    <3>2. \A i \in 1 .. Len(h.outbox) : e.outbox[i] = h.outbox[i]
      BY <2>12, <2>14, <3>1, Zenon
    <3>3. e.outbox[Len(h.outbox) + 1] = k.outbox[Len(h.outbox) + 1]
      BY <2>12, <3>1, Zenon
    <3> QED
      BY <2>12, <2>14, <3>1, <3>2, <3>3, Zenon
  <2>16. Grows(h, e)
    BY <2>13, <2>15 DEF Grows
  <2>17. /\ \A i \in Fresh(h, e) : i = Len(h.outbox) + 1 \/ i = Len(h.outbox) + 2
         /\ Len(h.outbox) + 1 \in Fresh(h, e) /\ Len(h.outbox) + 2 \in Fresh(h, e)
    BY <2>13, <2>15 DEF Fresh
  <2>18. Adds(h, e)
    BY <1>0, <2>11, <2>12, <2>15, <2>17 DEF Adds, Late, Open, IsPending, Same
  <2>19. OneNew(h, e, "Select")
    BY <1>0, <2>15, <2>17 DEF OneNew
  <2>20. Negotiates(n, h, e)
    BY <2>12, <2>19 DEF Negotiates
  <2>21. Heeds(n, h, e, m)
    BY <1>0, <2>12, <2>20 DEF Heeds
  <2> QED
    BY <1>0, <2>1, <2>12, <2>16, <2>18, <2>20, <2>21 DEF Turn
<1> QED
  BY <1>1, <1>2

LEMMA OnProtocolHandshakeTurn ==
    ASSUME config \in Configs, NEW n \in Node, NEW h, NodeOK(n, h), Own(h), Posted(h),
           h.phase = "ProtocolHandshake", NEW m \in ProtocolMsg,
           n = "Client" => m.type = "Select",
           n = "Server" /\ h.proposed = <<>> => m.type = "AnnounceMax"
    PROVE  Turn(n, h, OnProtocolHandshake(n, h, m), m)
<1> DEFINE g == Served(h, "wait")
<1>1. h \in Handshake /\ TimersOK(h) /\ ~Ended(h)
  BY DEF NodeOK, Own, Ended
<1>2. Quiet(h, g)
  BY <1>1, QuietRefl, ServedQuiet, TimerNamesAre
<1>3. OnProtocolHandshake(n, h, m) =
        IF n = "Client" THEN OnSelect(n, g, m)
        ELSE IF g.proposed = <<>> THEN OnAnnounceMax(n, g, m)
        ELSE OnConfirmation(g, m)
  BY DEF OnProtocolHandshake
<1>4. Core(h, g) /\ g.outbox = h.outbox
  BY <1>1, SetTimer, TimerNamesAre DEF Served, Time
<1> HIDE DEF g
<1>5. Own(g) /\ Posted(g)
  BY <1>1, <1>2, OwnQuiet, PostedQuiet
<1>6. /\ g \in Handshake /\ g.phase = "ProtocolHandshake" /\ g.proposed = h.proposed
      /\ g.local_ready = h.local_ready /\ g.remote_ready = h.remote_ready
  BY <1>4 DEF Core
<1>7. NodeOK(n, g)
  BY <1>1, <1>4, CalmRefl, CalmSilent, CalmGood DEF Good
<1>8. Turn(n, g, OnProtocolHandshake(n, h, m), m)
  <2>1. CASE n = "Client"
    BY <1>3, <1>5, <1>6, <1>7, <2>1, OnSelectTurn
  <2>2. CASE n = "Server" /\ g.proposed = <<>>
    BY <1>3, <1>5, <1>6, <1>7, <2>2, OnAnnounceMaxTurn
  <2>3. CASE n = "Server" /\ g.proposed # <<>>
    BY <1>3, <1>5, <1>6, <2>3, OnConfirmationTurn
  <2> QED
    BY <2>1, <2>2, <2>3 DEF Node
<1> QED
  BY <1>4, <1>6, <1>8, SameTurn

-----------------------------------------------------------------------------
(* PIN and the timers.                                                       *)

\* A node that has just heard of a PIN and has not yet looked whether that was
\* all it waited for.
Nearly(h) ==
    /\ TimersOK(h) /\ h.reason = "None" /\ h.phase \in Open
    /\ h.phase = "DataExchange" => h.peer_pin_state # "Unknown"

LEMMA TryFinishPinIs ==
    ASSUME NEW h \in Handshake, Nearly(h)
    PROVE  LET k == TryFinishPin(h)
           IN  /\ k \in Handshake /\ Own(k) /\ k.phase \in Open /\ Same(h, k) /\ k.outbox = h.outbox
<1> DEFINE t == [h.timers EXCEPT !["wait"] = None]
           g == [h EXCEPT !.phase = "DataExchange", !.timers = t]
<1>1. h.timers \in Timers /\ h.local_pin_state \in PinStates
  BY DEF Handshake
<1>2. CASE /\ h.phase = "Pin" /\ h.local_pin_state \in {"None", "PinOk", "Optional"}
           /\ h.peer_pin_state # "Unknown"
  <2>1. /\ t \in Timers /\ t["send_prolongation"] = h.timers["send_prolongation"]
        /\ t["pin_penalty"] = h.timers["pin_penalty"]
    BY <1>1, TimerNamesAre DEF Timers, Time
  <2>2. TryFinishPin(h) = g
    BY <1>1, <1>2 DEF TryFinishPin, Handshake
  <2> HIDE DEF t
  <2>3. /\ g \in Handshake /\ g.phase = "DataExchange" /\ g.outbox = h.outbox /\ Same(h, g)
        /\ g.reason = h.reason /\ g.timers = t
    BY <1>1, <2>1 DEF Handshake, Phases, Same
  <2> HIDE DEF g
  <2>4. Own(g)
    BY <1>2, <2>1, <2>3 DEF Own, TimersOK, Nearly, Same, Early, Open, Ended
  <2> QED
    BY <2>2, <2>3, <2>4 DEF Open
<1>3. CASE ~ /\ h.phase = "Pin" /\ h.local_pin_state \in {"None", "PinOk", "Optional"}
             /\ h.peer_pin_state # "Unknown"
  <2>1. TryFinishPin(h) = h
    BY <1>3 DEF TryFinishPin
  <2>2. Own(h)
    BY <1>1, <1>3 DEF Own, Nearly, Early, Open, Ended, PinStates
  <2> QED
    BY <2>1, <2>2 DEF Nearly, Same
<1> QED
  BY <1>2, <1>3

\* A step of an open node.
LEMMA OpenTurn ==
    ASSUME NEW n \in Node, NEW h \in Handshake, NEW g, NEW k, NEW m, Posted(g), Quiet(g, k),
           h.phase \in Open, g \in Handshake, g.phase \in Open, g.outbox = h.outbox,
           g.local_ready = h.local_ready, g.proposed = h.proposed, Nearly(k),
           m.kind # "Protocol", m.kind = "PinState" => g.peer_pin_state # "Unknown"
    PROVE  Turn(n, h, TryFinishPin(k), m)
<1> DEFINE l == TryFinishPin(k)
<1>1. k \in Handshake /\ Core(g, k) /\ Grows(g, k) /\ Posted(k)
  BY PostedQuiet DEF Quiet, Core
<1>2. l \in Handshake /\ Own(l) /\ l.phase \in Open /\ Same(k, l) /\ l.outbox = k.outbox
  BY <1>1, TryFinishPinIs
<1> HIDE DEF l
<1>3. Posted(l)
  BY <1>1, <1>2, PostedSilent DEF Same, Over, Open
<1>4. Grows(h, l)
  BY <1>1, <1>2 DEF Grows
<1>5. \A i \in Fresh(h, l) : May(g, l.outbox[i].msg)
  BY <1>2 DEF Quiet, Fresh
<1>6. l.local_ready = h.local_ready /\ l.proposed = h.proposed /\ l.peer_pin_state = g.peer_pin_state
  BY <1>1, <1>2 DEF Core, Same
<1>7. Adds(h, l)
  BY <1>5, <1>6 DEF Adds, May, Admits
<1>8. Stays(n, h, l, m)
  BY <1>2, <1>5, <1>6 DEF Stays, NoNew, May
<1>9. Heeds(n, h, l, m)
  BY <1>2, <1>6 DEF Heeds, Open
<1> QED
  BY <1>2, <1>3, <1>4, <1>7, <1>8, <1>9 DEF Turn, l

LEMMA OnPinStateTurn ==
    ASSUME NEW n \in Node, NEW h \in Handshake, Own(h), Posted(h), h.phase \in Open, NEW m \in PinStateMsg
    PROVE  Turn(n, h, OnPinState(h, m), m)
<1> DEFINE t == [h.timers EXCEPT !["wait"] = None]
           seen == [h EXCEPT !.timers = t, !.peer_pin_state = m.state]
           asked == m.state \in {"Required", "Optional"} /\ ~m.busy
           sent == IF asked /\ h.peer_pin # "none" THEN SendPinIfPermitted(seen) ELSE seen
<1>1. h.timers \in Timers /\ m.state \in PinStates /\ m.kind = "PinState" /\ m.state # "Unknown"
  BY DEF Handshake, PinStateMsg, PinStates
<1>2. /\ t \in Timers /\ t["send_prolongation"] = h.timers["send_prolongation"]
      /\ t["pin_penalty"] = h.timers["pin_penalty"]
  BY <1>1, TimerNamesAre DEF Timers, Time
<1>3. OnPinState(h, m) = TryFinishPin(sent)
  <2>1. [h EXCEPT !.timers.wait = None, !.peer_pin_state = m.state] = seen
    BY <1>1 DEF Handshake
  <2> QED
    BY <2>1 DEF OnPinState
<1> HIDE DEF t
<1>4. /\ seen \in Handshake
      /\ seen.phase = h.phase /\ seen.outbox = h.outbox
      /\ seen.local_ready = h.local_ready /\ seen.peer_pin_state = m.state
      /\ seen.proposed = h.proposed /\ seen.reason = h.reason /\ seen.timers = t
  BY <1>1, <1>2 DEF Handshake
<1> HIDE DEF seen
<1>5. TimersOK(seen) /\ seen.reason = "None"
  BY <1>2, <1>4 DEF Own, TimersOK, Open, Ended
<1>6. Posted(seen)
  BY <1>4, PostedSilent
<1>7. Quiet(seen, sent)
  BY <1>4, <1>5, QuietRefl, SendPinIfPermittedQuiet
<1> HIDE DEF sent
<1>8. Nearly(sent)
  BY <1>1, <1>4, <1>5, <1>7 DEF Nearly, Quiet, Core
<1> QED
  BY <1>1, <1>3, <1>4, <1>6, <1>7, <1>8, OpenTurn

LEMMA OnPinInputTurn ==
    ASSUME config \in Configs, NEW n \in Node, NEW h \in Handshake, Own(h), Posted(h),
           h.phase \in Open, NEW m \in PinInputMsg
    PROVE  Turn(n, h, OnPinInput(n, h, m), m)
<1>1. m.kind = "PinInput" /\ Moot(h, m) /\ Quiet(h, h) /\ ~Ended(h) /\ h.reason = "None"
  BY QuietRefl DEF PinInputMsg, Moot, Own, Open, Ended
<1>2. CASE h.timers.pin_penalty # None
  BY <1>1, <1>2, SendPinStateQuiet, QuietTurn DEF OnPinInput
<1>3. CASE h.timers.pin_penalty = None /\ config[n].pin # "None" /\ m.pin = "right"
  <2> DEFINE g == [h EXCEPT !.local_pin_state = "PinOk"]
             x == PinState("PinOk", FALSE)
             k == Send(g, x)
  <2>1. /\ g \in Handshake
        /\ g.phase = h.phase /\ g.outbox = h.outbox /\ g.timers = h.timers
        /\ g.local_ready = h.local_ready /\ g.peer_pin_state = h.peer_pin_state
        /\ g.proposed = h.proposed /\ g.reason = h.reason
    BY DEF Handshake, PinStates
  <2>2. OnPinInput(n, h, m) = TryFinishPin(k)
    BY <1>3 DEF OnPinInput
  <2> HIDE DEF g
  <2>3. TimersOK(g)
    BY <2>1 DEF Own, TimersOK
  <2>4. Posted(g)
    BY <2>1, PostedSilent
  <2>5. x \in Message /\ x.kind = "PinState"
    BY DEF PinState, PinStateMsg, PinStates, Message
  <2> HIDE DEF x
  <2>6. May(g, x)
    BY <2>1, <2>5 DEF May, Admits, Late, IsReady, IsPending
  <2>7. Quiet(g, k)
    BY <2>1, <2>3, <2>5, <2>6, QuietRefl, QuietSend
  <2> HIDE DEF k
  <2>8. Nearly(k)
    BY <1>1, <2>1, <2>7 DEF Nearly, Quiet, Core, Own
  <2> QED
    BY <1>1, <2>1, <2>2, <2>4, <2>7, <2>8, OpenTurn
<1>4. CASE h.timers.pin_penalty = None /\ ~(config[n].pin # "None" /\ m.pin = "right")
  <2> DEFINE g == [h EXCEPT !.pin_attempts = @ + 1]
             refused == Send(g, PinError)
             penalty == PinPenalty(refused.pin_attempts)
             held == [refused EXCEPT !.timers.pin_penalty = penalty]
  <2>1. g = [h EXCEPT !.pin_attempts = h.pin_attempts + 1] /\ h.pin_attempts + 1 \in Nat
    BY DEF Handshake
  <2>2. Core(h, g) /\ g.outbox = h.outbox /\ g.trust = h.trust /\ g.reason = h.reason
        /\ g.timers = h.timers
    BY <2>1 DEF Handshake, Core
  <2>3. OnPinInput(n, h, m) = IF penalty = None THEN refused ELSE SendPinState(held)
    BY <1>4 DEF OnPinInput
  <2> HIDE DEF g
  <2>4. TimersOK(g)
    BY <2>2 DEF Own, TimersOK, Core
  <2>5. Quiet(h, g)
    BY <1>1, <2>2, <2>4, QuietSilent
  <2>6. Quiet(h, refused)
    BY <2>5, SendOtherQuiet, OtherKinds
  <2>7. refused \in Handshake
    BY <2>6 DEF Quiet, Core
  <2> HIDE DEF refused
  <2>8. penalty \in Time
    BY Constants DEF PinPenalty, Time
  <2> HIDE DEF penalty
  <2>9. held = [refused EXCEPT !.timers["pin_penalty"] = penalty]
    BY <2>7 DEF Handshake
  <2>10. Quiet(h, held)
    BY <2>6, <2>8, <2>9, QuietTimer, TimerNamesAre
  <2> HIDE DEF held
  <2>11. Quiet(h, SendPinState(held))
    BY <2>10, SendPinStateQuiet
  <2>12. Quiet(h, OnPinInput(n, h, m))
    BY <2>3, <2>6, <2>11
  <2> QED
    BY <1>1, <2>12, QuietTurn
<1> QED
  BY <1>2, <1>3, <1>4

LEMMA HandleTimeoutTurn ==
    ASSUME config \in Configs, NEW n \in Node, NEW h \in Handshake, Own(h), Posted(h), ~Ended(h),
           NEW m, Moot(h, m)
    PROVE  Turn(n, h, HandleTimeout(n, h), m)
<1> DEFINE asked == IF Due(h, "send_prolongation")
                    THEN SendProlongationRequest(n, Served(h, "send_prolongation"))
                    ELSE h
           resent == IF Due(asked, "key_material")
                     THEN KeyMaterialUnanswered(Served(asked, "key_material"))
                     ELSE asked
           freed == IF Due(resent, "pin_penalty")
                    THEN SendPinState(Served(resent, "pin_penalty"))
                    ELSE resent
<1>1. HandleTimeout(n, h) =
        IF Due(h, "cmi") THEN Abort(h, "Timeout")
        ELSE IF Due(h, "wait") THEN Abort(SendProtocolError(h), "Timeout")
        ELSE IF Due(asked, "prolongation_reply") THEN Abort(asked, "Timeout")
        ELSE IF Due(asked, "close") THEN Finish(asked)
        ELSE IF Due(freed, "wait_for_ready") THEN Abort(freed, "Timeout")
        ELSE freed
  BY DEF HandleTimeout
<1>2. "Timeout" \in AbortReasons /\ Quiet(h, h) /\ 0 # None
  BY QuietRefl DEF AbortReasons, Own, None
<1>3. Quiet(h, asked)
  <2>1. CASE Due(h, "send_prolongation")
    <3>1. h.phase = "Hello"
      BY <1>2, <2>1 DEF Due, Own, TimersOK
    <3>2. Quiet(h, Served(h, "send_prolongation"))
      BY <1>2, ServedQuiet, TimerNamesAre
    <3> QED
      BY <2>1, <3>1, <3>2, SendProlongationRequestQuiet
  <2>2. CASE ~Due(h, "send_prolongation")
    BY <1>2, <2>2
  <2> QED
    BY <2>1, <2>2
<1> HIDE DEF asked
<1>4. Quiet(h, resent) \/ \E a : Quiet(h, a) /\ resent = Abort(a, "Timeout")
  <2>1. Quiet(h, Served(asked, "key_material"))
    BY <1>3, ServedQuiet, TimerNamesAre
  <2> QED
    BY <1>3, <2>1, KeyMaterialUnansweredIs
<1> HIDE DEF resent
<1>5. Quiet(h, freed) \/ \E a : Quiet(h, a) /\ freed = Abort(a, "Timeout")
  <2>1. CASE Due(resent, "pin_penalty") /\ Quiet(h, resent)
    <3>1. h.phase \in Open
      BY <1>2, <2>1 DEF Due, Quiet, TimersOK, Core
    <3>2. Quiet(h, Served(resent, "pin_penalty"))
      BY <2>1, ServedQuiet, TimerNamesAre
    <3> QED
      BY <2>1, <3>1, <3>2, SendPinStateQuiet
  <2>2. CASE ~Due(resent, "pin_penalty")
    BY <1>4, <2>2
  <2>3. ASSUME NEW a, Quiet(h, a), resent = Abort(a, "Timeout") PROVE ~Due(resent, "pin_penalty")
    <3>1. a \in Handshake /\ ~Ended(a)
      BY <2>3 DEF Quiet, Core, Ended
    <3>2. resent.timers = NoTimers
      BY <2>3, <3>1 DEF Abort, Handshake
    <3> QED
      BY <3>2 DEF Due, NoTimers, None
  <2> QED
    BY <1>4, <2>1, <2>2, <2>3
<1> HIDE DEF freed
<1>6. Turn(n, h, Abort(h, "Timeout"), m) /\ Turn(n, h, Abort(SendProtocolError(h), "Timeout"), m)
  BY <1>2, SendProtocolErrorQuiet, AbortTurn
<1>7. Turn(n, h, Abort(asked, "Timeout"), m) /\ Turn(n, h, Finish(asked), m)
  BY <1>2, <1>3, AbortTurn, FinishTurn
<1>8. Turn(n, h, freed, m) /\ Turn(n, h, Abort(freed, "Timeout"), m)
  <2>1. CASE Quiet(h, freed)
    BY <1>2, <2>1, QuietTurn, AbortTurn
  <2>2. ASSUME NEW a, Quiet(h, a), freed = Abort(a, "Timeout")
        PROVE  Turn(n, h, freed, m) /\ Turn(n, h, Abort(freed, "Timeout"), m)
    <3>1. Turn(n, h, freed, m)
      BY <1>2, <2>2, AbortTurn
    <3>2. Ended(freed)
      BY <2>2 DEF Quiet, Core, Handshake, Abort, Ended
    <3> QED
      BY <3>1, <3>2 DEF Abort
  <2> QED
    BY <1>5, <2>1, <2>2
<1> QED
  BY <1>1, <1>6, <1>7, <1>8

-----------------------------------------------------------------------------
(* The stream, as its sender adds to it and as its reader reads it.          *)
LEMMA ToldMore ==
    ASSUME NEW g, NEW o, NEW p, NEW i \in Nat, NEW j \in Nat, i <= j,
           \A k \in 1 .. i : p[k] = o[k], Told(g, o, i)
    PROVE  Told(g, p, j)
BY DEF Told

LEMMA StreamOut ==
    ASSUME NEW n \in Node, NEW h \in Handshake, NEW k \in Handshake, NEW g, NEW m,
           Stream(n, h, g), Stream(Peer(n), g, h), Own(h), Turn(n, h, k, m)
    PROVE  Stream(n, k, g)
<1>1. /\ Len(h.outbox) \in Nat /\ Len(k.outbox) \in Nat /\ Len(h.outbox) <= Len(k.outbox)
      /\ \A i \in 1 .. Len(h.outbox) : k.outbox[i] = h.outbox[i]
  BY DEF Handshake, Turn, Grows
<1>2. \A i \in 1 .. Len(k.outbox) : i \in 1 .. Len(h.outbox) \/ (i \in Fresh(h, k) /\ Len(h.outbox) <= i)
  BY <1>1 DEF Fresh
<1>3. \A i \in 1 .. Len(h.outbox) : i \in 1 .. Len(k.outbox)
  BY <1>1
<1>4. \A i \in Fresh(h, k) : i \in 1 .. Len(k.outbox)
  BY <1>1 DEF Fresh
<1>5. Adds(h, k)
  BY DEF Turn
<1>6. g.phase = "Cmi" => 1 <= Len(k.outbox) /\ k.outbox[1].msg.kind = "Cmi"
  BY <1>1 DEF Stream
<1>7. \A i \in 1 .. Len(k.outbox) : k.outbox[i].msg.kind = "Cmi" => g.phase = "Cmi" \/ Ended(g)
  BY <1>1, <1>2, <1>5 DEF Stream, Adds
<1>8. n = "Client" /\ g.phase \in {"Cmi", "Hello"} /\ k.local_ready =>
         \/ \E i \in 1 .. Len(k.outbox) : IsReady(k.outbox[i].msg)
         \/ g.remote_ready /\ \A i \in 1 .. Len(k.outbox) : ~IsPending(k.outbox[i].msg)
  <2> SUFFICES ASSUME n = "Client", g.phase \in {"Cmi", "Hello"}, k.local_ready
               PROVE  \/ \E i \in 1 .. Len(k.outbox) : IsReady(k.outbox[i].msg)
                      \/ g.remote_ready /\ \A i \in 1 .. Len(k.outbox) : ~IsPending(k.outbox[i].msg)
    OBVIOUS
  <2>1. CASE \E i \in Fresh(h, k) : IsReady(k.outbox[i].msg)
    BY <1>4, <2>1
  <2>2. CASE h.local_ready
    <3>1. CASE \E i \in 1 .. Len(h.outbox) : IsReady(h.outbox[i].msg)
      BY <1>1, <1>3, <3>1
    <3>2. CASE g.remote_ready /\ \A i \in 1 .. Len(h.outbox) : ~IsPending(h.outbox[i].msg)
      BY <1>1, <1>2, <1>5, <2>2, <3>2 DEF Adds
    <3> QED
      BY <2>2, <3>1, <3>2 DEF Stream
  <2> QED
    BY <1>5, <2>1, <2>2 DEF Adds
<1>9. ASSUME NEW i \in 1 .. Len(k.outbox), k.outbox[i].msg.kind = "Data"
      PROVE  g.phase \in Over /\ Told(g, k.outbox, i)
  <2>1. CASE i \in 1 .. Len(h.outbox)
    <3>1. g.phase \in Over /\ Told(g, h.outbox, i)
      BY <1>1, <1>9, <2>1 DEF Stream
    <3>2. i \in Nat /\ \A j \in 1 .. i : k.outbox[j] = h.outbox[j]
      BY <1>1, <2>1
    <3> QED
      BY <3>1, <3>2, ToldMore
  <2>2. CASE i \in Fresh(h, k) /\ Len(h.outbox) <= i
    <3>1. h.phase = "DataExchange"
      BY <1>5, <1>9, <2>2 DEF Adds
    <3>2. g.phase \in Over
      BY <3>1 DEF Own, Stream
    <3>3. Told(g, h.outbox, Len(h.outbox))
      BY <3>1 DEF Stream, Open
    <3>4. i \in Nat
      BY <1>1
    <3>5. Told(g, k.outbox, i)
      BY <1>1, <2>2, <3>3, <3>4, ToldMore
    <3> QED
      BY <3>2, <3>5
  <2> QED
    BY <1>2, <2>1, <2>2
<1>10. k.phase \in Open => Told(g, k.outbox, Len(k.outbox))
  <2>1. CASE h.phase \in Open
    <3>1. Told(g, h.outbox, Len(h.outbox))
      BY <2>1 DEF Stream
    <3> QED
      BY <1>1, <3>1, ToldMore
  <2>2. CASE \E i \in Fresh(h, k) : k.outbox[i].msg.kind = "PinState"
    BY <1>4, <2>2 DEF Told
  <2> QED
    BY <1>5, <2>1, <2>2 DEF Adds
<1>11. g.peer_pin_state # "Unknown" => k.phase \in Over
  <2>1. h.phase \in Over => k.phase \in Over
    BY DEF Turn, Stays, Announces, Negotiates, Over, Open, Ended
  <2> QED
    BY <2>1 DEF Stream
<1> QED
  BY <1>6, <1>7, <1>8, <1>9, <1>10, <1>11 DEF Stream

\* A node's step, seen from the stream it reads.
LEMMA ReaderKeeps ==
    ASSUME NEW n \in Node, NEW h, NEW k, NEW m, Turn(n, h, k, m), Mono(h, k), Learns(n, h, k, m)
    PROVE  /\ h.phase \in Over => k.phase \in Over
           /\ Ended(h) => Ended(k)
           /\ h.peer_pin_state # "Unknown" => k.peer_pin_state # "Unknown"
           /\ k.peer_pin_state # "Unknown" => h.peer_pin_state # "Unknown" \/ m.kind = "PinState"
           /\ k.phase = "Cmi" => h.phase = "Cmi"
           /\ k.phase = "Hello" => h.phase = "Hello" \/ (h.phase = "Cmi" /\ m.kind = "Cmi")
           /\ h.phase = "Cmi" => k.phase = "Cmi" \/ Ended(k) \/ m.kind = "Cmi"
BY DEF Turn, Stays, Announces, Negotiates, Over, Open, Ended, Mono, Learns

LEMMA StreamIn ==
    ASSUME NEW n \in Node, NEW h, NEW k, NEW g, NEW m, Stream(Peer(n), g, h), HelloPart(h),
           Turn(n, h, k, m), Mono(h, k), Learns(n, h, k, m), Moot(h, m)
    PROVE  Stream(Peer(n), g, k)
<1>1. /\ h.phase \in Over => k.phase \in Over
      /\ Ended(h) => Ended(k)
      /\ h.peer_pin_state # "Unknown" => k.peer_pin_state # "Unknown"
      /\ k.peer_pin_state # "Unknown" => h.peer_pin_state # "Unknown"
      /\ k.phase = "Cmi" => h.phase = "Cmi"
      /\ k.phase = "Hello" => h.phase = "Hello"
      /\ h.phase = "Cmi" => k.phase = "Cmi" \/ Ended(k)
  BY ReaderKeeps DEF Moot
<1>2. k.phase = "Hello" => k.remote_ready = h.remote_ready
  BY <1>1 DEF Turn, Heeds, Moot, IsReady, IsPending
<1>3. ASSUME NEW i, Told(h, g.outbox, i) PROVE Told(k, g.outbox, i)
  BY <1>1, <1>3 DEF Told
<1>4. Peer(n) = "Client" /\ k.phase \in {"Cmi", "Hello"} /\ g.local_ready =>
         \/ \E i \in 1 .. Len(g.outbox) : IsReady(g.outbox[i].msg)
         \/ k.remote_ready /\ \A i \in 1 .. Len(g.outbox) : ~IsPending(g.outbox[i].msg)
  BY <1>1, <1>2 DEF Stream, HelloPart
<1> QED
  BY <1>1, <1>3, <1>4 DEF Stream

\* g with the first message m of its stream read.
Popped(g, f, m) ==
    /\ g.outbox # <<>> /\ g.outbox[1].msg = m
    /\ Len(g.outbox) = Len(f.outbox) + 1
    /\ \A i \in 1 .. Len(f.outbox) : f.outbox[i] = g.outbox[i + 1]
    /\ f.phase = g.phase /\ Same(g, f)
    /\ f.timers = g.timers /\ f.trust = g.trust /\ f.reason = g.reason

LEMMA PoppedIndices ==
    ASSUME NEW g \in Handshake, NEW f \in Handshake, NEW m, Popped(g, f, m)
    PROVE  /\ Len(g.outbox) \in Nat /\ Len(f.outbox) \in Nat /\ 1 \in 1 .. Len(g.outbox)
           /\ \A i \in 1 .. Len(f.outbox) : i + 1 \in 1 .. Len(g.outbox) /\ 1 < i + 1
           /\ \A i \in 1 .. Len(g.outbox) : i = 1 \/ (i - 1 \in 1 .. Len(f.outbox) /\ f.outbox[i - 1] = g.outbox[i])
<1>1. Len(g.outbox) \in Nat /\ Len(f.outbox) \in Nat /\ Len(g.outbox) = Len(f.outbox) + 1
  BY DEF Handshake, Popped
<1>2. \A i \in 1 .. Len(g.outbox) : i = 1 \/ (i - 1 \in 1 .. Len(f.outbox) /\ (i - 1) + 1 = i)
  BY <1>1
<1> QED
  BY SMTT(20), <1>1, <1>2 DEF Popped

LEMMA PoppedPosted ==
    ASSUME NEW g \in Handshake, NEW f \in Handshake, NEW m, Popped(g, f, m), Own(g), Posted(g)
    PROVE  Own(f) /\ Posted(f)
<1>1. Own(f)
  BY DEF Own, TimersOK, Popped, Same, Ended
<1>2. \A x : Sent(g, x) => Sent(f, x)
  BY DEF Sent, Popped, Same
<1>3. \A i \in 1 .. Len(f.outbox) : i + 1 \in 1 .. Len(g.outbox) /\ f.outbox[i] = g.outbox[i + 1]
  BY PoppedIndices DEF Popped
<1>4. \A i \in 1 .. Len(f.outbox) : Sent(f, f.outbox[i].msg)
  BY <1>2, <1>3 DEF Posted
<1>5. ASSUME NEW i \in 1 .. Len(f.outbox), NEW j \in 1 .. Len(f.outbox), i < j
      PROVE  Follows(f.outbox[i].msg, f.outbox[j].msg)
  <2>1. i + 1 < j + 1
    BY <1>5, PoppedIndices
  <2> QED
    BY <1>3, <2>1 DEF Posted
<1> QED
  BY <1>1, <1>4, <1>5 DEF Posted

LEMMA StreamInRead ==
    ASSUME NEW n \in Node, NEW h, NEW k, NEW g \in Handshake, NEW f \in Handshake, NEW m,
           Popped(g, f, m), Stream(Peer(n), g, h), Posted(g),
           Turn(n, h, k, m), Mono(h, k), Learns(n, h, k, m)
    PROVE  Stream(Peer(n), f, k)
<1>1. /\ h.phase \in Over => k.phase \in Over
      /\ Ended(h) => Ended(k)
      /\ h.peer_pin_state # "Unknown" => k.peer_pin_state # "Unknown"
      /\ k.peer_pin_state # "Unknown" => h.peer_pin_state # "Unknown" \/ m.kind = "PinState"
      /\ k.phase = "Cmi" => h.phase = "Cmi"
      /\ k.phase = "Hello" => h.phase = "Hello" \/ (h.phase = "Cmi" /\ m.kind = "Cmi")
  BY ReaderKeeps
<1>2. /\ Len(g.outbox) \in Nat /\ Len(f.outbox) \in Nat /\ 1 \in 1 .. Len(g.outbox)
      /\ \A i \in 1 .. Len(f.outbox) : i + 1 \in 1 .. Len(g.outbox) /\ 1 < i + 1 /\ f.outbox[i] = g.outbox[i + 1]
      /\ \A i \in 1 .. Len(g.outbox) : i = 1 \/ (i - 1 \in 1 .. Len(f.outbox) /\ f.outbox[i - 1] = g.outbox[i])
      /\ g.outbox[1].msg = m /\ Len(g.outbox) = Len(f.outbox) + 1
  BY PoppedIndices DEF Popped
<1>3. f.phase = g.phase /\ f.local_ready = g.local_ready
  BY DEF Popped, Same
<1>4. \A i \in 1 .. Len(f.outbox) : Follows(m, f.outbox[i].msg)
  BY <1>2 DEF Posted
<1>5. Sent(g, m)
  BY <1>2 DEF Posted
<1>6. Heeds(n, h, k, m)
  BY DEF Turn
<1>7. k.phase # "Cmi"
  BY <1>1, <1>2, <1>6 DEF Stream, Heeds
<1>8. \A i \in 1 .. Len(f.outbox) : f.outbox[i].msg.kind # "Cmi"
  BY <1>4 DEF Follows
<1>9. Peer(n) = "Client" /\ k.phase \in {"Cmi", "Hello"} /\ f.local_ready =>
         \/ \E i \in 1 .. Len(f.outbox) : IsReady(f.outbox[i].msg)
         \/ k.remote_ready /\ \A i \in 1 .. Len(f.outbox) : ~IsPending(f.outbox[i].msg)
  <2> SUFFICES ASSUME Peer(n) = "Client", k.phase = "Hello", f.local_ready
               PROVE  \/ \E i \in 1 .. Len(f.outbox) : IsReady(f.outbox[i].msg)
                      \/ k.remote_ready /\ \A i \in 1 .. Len(f.outbox) : ~IsPending(f.outbox[i].msg)
    BY <1>7
  <2>1. CASE IsReady(m)
    <3>1. k.remote_ready
      BY <1>6, <2>1 DEF Heeds
    <3>2. \A i \in 1 .. Len(f.outbox) : ~IsPending(f.outbox[i].msg)
      BY <1>4, <2>1 DEF Follows
    <3> QED
      BY <3>1, <3>2
  <2>2. CASE ~IsReady(m)
    <3>1. CASE \E i \in 1 .. Len(g.outbox) : IsReady(g.outbox[i].msg)
      BY <1>2, <2>2, <3>1
    <3>2. CASE h.remote_ready /\ \A i \in 1 .. Len(g.outbox) : ~IsPending(g.outbox[i].msg)
      <4>1. ~IsPending(m)
        BY <1>2, <3>2
      <4>2. k.remote_ready
        BY <1>6, <2>2, <3>2, <4>1 DEF Heeds
      <4>3. \A i \in 1 .. Len(f.outbox) : ~IsPending(f.outbox[i].msg)
        BY <1>2, <3>2
      <4> QED
        BY <4>2, <4>3
    <3> QED
      BY <1>1, <1>3, <3>1, <3>2 DEF Stream
  <2> QED
    BY <2>1, <2>2
<1>10. ASSUME NEW i \in Nat, Told(h, g.outbox, i + 1), i + 1 <= Len(g.outbox)
       PROVE  Told(k, f.outbox, i)
  <2>1. CASE Ended(h) \/ h.peer_pin_state # "Unknown"
    BY <1>1, <2>1 DEF Told
  <2>2. ASSUME NEW j \in 1 .. i + 1, g.outbox[j].msg.kind = "PinState"
        PROVE  Told(k, f.outbox, i)
    <3>1. CASE j = 1
      BY <1>2, <1>6, <2>2, <3>1 DEF Heeds, Told
    <3>2. CASE j # 1
      <4>1. j \in 1 .. Len(g.outbox) /\ j - 1 \in 1 .. i
        BY <1>2, <1>10, <3>2
      <4> QED
        BY <1>2, <2>2, <3>2, <4>1 DEF Told
    <3> QED
      BY <3>1, <3>2
  <2> QED
    BY <1>10, <2>1, <2>2 DEF Told
<1>11. ASSUME NEW i \in 1 .. Len(f.outbox), f.outbox[i].msg.kind = "Data"
       PROVE  k.phase \in Over /\ Told(k, f.outbox, i)
  <2>1. h.phase \in Over /\ Told(h, g.outbox, i + 1)
    BY <1>2, <1>11 DEF Stream
  <2>2. i \in Nat /\ i + 1 <= Len(g.outbox)
    BY <1>2
  <2> QED
    BY <1>1, <1>10, <2>1, <2>2
<1>12. f.phase \in Open => Told(k, f.outbox, Len(f.outbox))
  <2>1. Len(f.outbox) + 1 <= Len(g.outbox)
    BY <1>2
  <2>2. f.phase \in Open => Told(h, g.outbox, Len(f.outbox) + 1)
    BY <1>2, <1>3 DEF Stream
  <2> QED
    BY <1>2, <1>10, <2>1, <2>2
<1>13. k.peer_pin_state # "Unknown" => f.phase \in Over
  BY <1>1, <1>3, <1>5 DEF Stream, Sent, Late
<1> QED
  BY <1>7, <1>8, <1>9, <1>11, <1>12, <1>13 DEF Stream

-----------------------------------------------------------------------------
(* The stages of the protocol exchange.                                      *)

\* What becomes of the stream of the node that does not move, from which m has
\* been read, or nothing (m is Data then).
Rests(s, t, m) ==
    /\ t.phase = s.phase /\ t.proposed = s.proposed /\ t.local_ready = s.local_ready
    /\ NoProtocol(s.outbox) => NoProtocol(t.outbox) /\ m.kind # "Protocol"
    /\ NoLate(s.outbox) => NoLate(t.outbox)
    /\ \A type : OneProtocol(s.outbox, type) =>
         \/ OneProtocol(t.outbox, type) /\ m.kind # "Protocol"
         \/ NoProtocol(t.outbox) /\ m.kind = "Protocol"

LEMMA RestsUnread ==
    ASSUME NEW s, NEW m, m.kind # "Protocol"
    PROVE  Rests(s, s, m)
BY DEF Rests

LEMMA RestsRead ==
    ASSUME NEW s \in Handshake, NEW t \in Handshake, NEW m, Popped(s, t, m)
    PROVE  Rests(s, t, m)
<1>1. /\ Len(s.outbox) \in Nat /\ Len(t.outbox) \in Nat /\ 1 \in 1 .. Len(s.outbox)
      /\ \A i \in 1 .. Len(t.outbox) : i + 1 \in 1 .. Len(s.outbox) /\ 1 < i + 1 /\ t.outbox[i] = s.outbox[i + 1]
      /\ \A i \in 1 .. Len(s.outbox) : i = 1 \/ (i - 1 \in 1 .. Len(t.outbox) /\ t.outbox[i - 1] = s.outbox[i])
      /\ s.outbox[1].msg = m
  BY PoppedIndices DEF Popped
<1>2. t.phase = s.phase /\ t.proposed = s.proposed /\ t.local_ready = s.local_ready
  BY DEF Popped, Same
<1>3. NoProtocol(s.outbox) => NoProtocol(t.outbox) /\ m.kind # "Protocol"
  BY <1>1 DEF NoProtocol
<1>4. NoLate(s.outbox) => NoLate(t.outbox)
  BY <1>1 DEF NoLate
<1>5. ASSUME NEW type, OneProtocol(s.outbox, type)
      PROVE  \/ OneProtocol(t.outbox, type) /\ m.kind # "Protocol"
             \/ NoProtocol(t.outbox) /\ m.kind = "Protocol"
  <2>1. PICK i \in 1 .. Len(s.outbox) :
               /\ s.outbox[i].msg.kind = "Protocol" /\ s.outbox[i].msg.type = type
               /\ \A j \in 1 .. Len(s.outbox) : s.outbox[j].msg.kind = "Protocol" => j = i
    BY <1>5 DEF OneProtocol
  <2>2. CASE i = 1
    <3>1. m.kind = "Protocol"
      BY <1>1, <2>1, <2>2
    <3>2. ASSUME NEW j \in 1 .. Len(t.outbox) PROVE t.outbox[j].msg.kind # "Protocol"
      <4>1. j + 1 \in 1 .. Len(s.outbox) /\ j + 1 # 1 /\ t.outbox[j] = s.outbox[j + 1]
        BY <1>1
      <4> QED
        BY <2>1, <2>2, <4>1
    <3> QED
      BY <3>1, <3>2 DEF NoProtocol
  <2>3. CASE i # 1
    <3>1. m.kind # "Protocol"
      BY <1>1, <2>1, <2>3
    <3>2. i - 1 \in 1 .. Len(t.outbox) /\ t.outbox[i - 1] = s.outbox[i]
      BY <1>1, <2>3
    <3>3. ASSUME NEW j \in 1 .. Len(t.outbox), t.outbox[j].msg.kind = "Protocol" PROVE j = i - 1
      <4>1. j + 1 \in 1 .. Len(s.outbox) /\ t.outbox[j] = s.outbox[j + 1]
        BY <1>1
      <4>2. j + 1 = i
        BY <2>1, <3>3, <4>1
      <4> QED
        BY <4>2
    <3> QED
      BY <2>1, <3>1, <3>2, <3>3 DEF OneProtocol
  <2> QED
    BY <2>2, <2>3
<1> QED
  BY <1>2, <1>3, <1>4, <1>5 DEF Rests

\* What becomes of the stream of the node that does.
LEMMA MovesAre ==
    ASSUME NEW n, NEW h \in Handshake, NEW k \in Handshake, NEW m, Turn(n, h, k, m)
    PROVE  /\ NoNew(h, k) /\ NoProtocol(h.outbox) => NoProtocol(k.outbox)
           /\ \A type : NoNew(h, k) /\ OneProtocol(h.outbox, type) => OneProtocol(k.outbox, type)
           /\ \A type : OneNew(h, k, type) /\ NoProtocol(h.outbox) => OneProtocol(k.outbox, type)
           /\ NoLate(h.outbox) /\ h.phase \notin Open /\ k.phase \notin Open => NoLate(k.outbox)
<1>1. /\ Len(h.outbox) \in Nat /\ Len(k.outbox) \in Nat /\ Len(h.outbox) <= Len(k.outbox)
      /\ \A i \in 1 .. Len(h.outbox) : k.outbox[i] = h.outbox[i]
      /\ Adds(h, k)
  BY DEF Handshake, Turn, Grows
<1>2. \A i \in 1 .. Len(k.outbox) : i \in 1 .. Len(h.outbox) \/ i \in Fresh(h, k)
  BY <1>1 DEF Fresh
<1>3. \A i \in 1 .. Len(h.outbox) : i \in 1 .. Len(k.outbox)
  BY <1>1
<1>4. \A i \in Fresh(h, k) : i \in 1 .. Len(k.outbox)
  BY <1>1 DEF Fresh
<1>5. NoNew(h, k) /\ NoProtocol(h.outbox) => NoProtocol(k.outbox)
  BY <1>1, <1>2 DEF NoNew, NoProtocol
<1>6. ASSUME NEW type, NoNew(h, k), OneProtocol(h.outbox, type) PROVE OneProtocol(k.outbox, type)
  <2>1. PICK i \in 1 .. Len(h.outbox) :
               /\ h.outbox[i].msg.kind = "Protocol" /\ h.outbox[i].msg.type = type
               /\ \A j \in 1 .. Len(h.outbox) : h.outbox[j].msg.kind = "Protocol" => j = i
    BY <1>6 DEF OneProtocol
  <2>2. i \in 1 .. Len(k.outbox) /\ k.outbox[i] = h.outbox[i]
    BY <1>1, <1>3
  <2>3. \A j \in 1 .. Len(k.outbox) : k.outbox[j].msg.kind = "Protocol" => j = i
    BY <1>1, <1>2, <1>6, <2>1 DEF NoNew
  <2> QED
    BY <2>1, <2>2, <2>3 DEF OneProtocol
<1>7. ASSUME NEW type, OneNew(h, k, type), NoProtocol(h.outbox) PROVE OneProtocol(k.outbox, type)
  <2>1. PICK i \in Fresh(h, k) :
               /\ k.outbox[i].msg.kind = "Protocol" /\ k.outbox[i].msg.type = type
               /\ \A j \in Fresh(h, k) : k.outbox[j].msg.kind = "Protocol" => j = i
    BY <1>7 DEF OneNew
  <2>2. \A j \in 1 .. Len(k.outbox) : k.outbox[j].msg.kind = "Protocol" => j = i
    BY <1>1, <1>2, <1>7, <2>1 DEF NoProtocol
  <2> QED
    BY <1>4, <2>1, <2>2 DEF OneProtocol
<1>8. NoLate(h.outbox) /\ h.phase \notin Open /\ k.phase \notin Open => NoLate(k.outbox)
  BY <1>1, <1>2 DEF NoLate, Adds
<1> QED
  BY <1>5, <1>6, <1>7, <1>8

LEMMA StageClient ==
    ASSUME NEW c \in Handshake, NEW d \in Handshake, NEW s, NEW t, NEW m,
           Stage(c, s), Turn("Client", c, d, m), Rests(s, t, m), c.local_ready => d.local_ready,
           d.remote_ready => t.local_ready
    PROVE  Stage(d, t)
<1> DEFINE n == "Client"
<1>1. /\ NoNew(c, d) /\ NoProtocol(c.outbox) => NoProtocol(d.outbox)
      /\ \A type : NoNew(c, d) /\ OneProtocol(c.outbox, type) => OneProtocol(d.outbox, type)
      /\ \A type : OneNew(c, d, type) /\ NoProtocol(c.outbox) => OneProtocol(d.outbox, type)
      /\ NoLate(c.outbox) /\ c.phase \notin Open /\ d.phase \notin Open => NoLate(d.outbox)
  BY MovesAre
<1>2. /\ Stays(n, c, d, m) \/ Announces(n, c, d) \/ (m.kind = "Protocol" /\ Negotiates(n, c, d))
      /\ m.kind = "Protocol" => Ended(d) \/ Negotiates(n, c, d)
  BY DEF Turn, Heeds
<1>3. CASE Unannounced(c, s)
  <2>1. m.kind # "Protocol"
    BY <1>3 DEF Unannounced, Rests
  <2>2. CASE Stays(n, c, d, m)
    <3>1. c.phase \notin Open /\ d.phase \notin Open /\ In(d, {"Cmi", "Hello"})
      BY <1>3, <2>2 DEF Unannounced, Stays, In, Open, Ended
    <3>2. Unannounced(d, t)
      BY <1>1, <1>3, <2>2, <3>1 DEF Unannounced, Stays, In, Ended, Rests
    <3> QED
      BY <3>2 DEF Stage
  <2>3. CASE Announces(n, c, d)
    <3>1. c.phase \notin Open /\ d.phase \notin Open /\ In(d, {"ProtocolHandshake"})
      BY <2>3 DEF Announces, In, Open
    <3>2. Announced(d, t)
      BY <1>1, <1>3, <2>3, <3>1 DEF Unannounced, Announced, Announces, In, Ended, Rests
    <3> QED
      BY <3>2 DEF Stage
  <2> QED
    BY <1>2, <2>1, <2>2, <2>3
<1>4. CASE Announced(c, s)
  <2>1. m.kind # "Protocol"
    BY <1>4 DEF Announced, Rests
  <2>2. Stays(n, c, d, m)
    BY <1>2, <1>4, <2>1 DEF Announced, Announces, In, Ended
  <2>3. c.phase \notin Open /\ d.phase \notin Open /\ In(d, {"ProtocolHandshake"})
    BY <1>4, <2>2 DEF Announced, Stays, In, Open, Ended
  <2>4. Announced(d, t)
    BY <1>1, <1>4, <2>2, <2>3 DEF Announced, Stays, In, Ended, Rests
  <2> QED
    BY <2>4 DEF Stage
<1>5. CASE Selected(c, s)
  <2>1. CASE m.kind # "Protocol"
    <3>1. Stays(n, c, d, m)
      BY <1>2, <1>5, <2>1 DEF Selected, Announces, In, Ended
    <3>2. c.phase \notin Open /\ d.phase \notin Open /\ In(d, {"ProtocolHandshake"})
      BY <1>5, <3>1 DEF Selected, Stays, In, Open, Ended
    <3>3. OneProtocol(t.outbox, "Select")
      BY <1>5, <2>1 DEF Selected, Rests
    <3>4. Selected(d, t)
      BY <1>1, <1>5, <3>1, <3>2, <3>3 DEF Selected, Stays, In, Ended, Rests
    <3> QED
      BY <3>4 DEF Stage
  <2>2. CASE m.kind = "Protocol"
    <3>1. NoProtocol(t.outbox)
      BY <1>5, <2>2 DEF Selected, Rests
    <3>2. CASE Negotiates(n, c, d)
      <4>1. d.phase = "Pin" /\ OneNew(c, d, "Select")
        BY <3>2 DEF Negotiates
      <4>2. Echoed(d, t)
        BY <1>1, <1>5, <3>1, <4>1 DEF Selected, Echoed, In, Ended, Open, Rests
      <4> QED
        BY <4>2 DEF Stage
    <3>3. CASE Ended(d)
      <4>1. Stays(n, c, d, m)
        BY <1>2, <3>3 DEF Announces, Negotiates, Ended
      <4>2. c.phase \notin Open /\ d.phase \notin Open
        BY <1>5, <3>3 DEF Selected, In, Open, Ended
      <4>3. NoProtocol(d.outbox) /\ NoLate(d.outbox)
        BY <1>1, <1>5, <4>1, <4>2 DEF Selected, Stays
      <4>4. Settled(d, t)
        BY <1>5, <3>1, <3>3, <4>3 DEF Selected, Settled, In, Ended, Rests
      <4> QED
        BY <4>4 DEF Stage
    <3> QED
      BY <1>2, <2>2, <3>2, <3>3
  <2> QED
    BY <2>1, <2>2
<1>6. CASE Echoed(c, s)
  <2>1. m.kind # "Protocol"
    BY <1>6 DEF Echoed, Rests
  <2>2. Stays(n, c, d, m)
    BY <1>2, <1>6, <2>1 DEF Echoed, Announces, In, Ended, Open
  <2>3. In(d, Open)
    BY <1>6, <2>2 DEF Echoed, Stays, In, Open, Ended
  <2>4. Echoed(d, t)
    BY <1>1, <1>6, <2>2, <2>3 DEF Echoed, Stays, In, Ended, Rests
  <2> QED
    BY <2>4 DEF Stage
<1>7. CASE Settled(c, s)
  <2>1. m.kind # "Protocol" /\ NoProtocol(t.outbox)
    BY <1>7 DEF Settled, Rests
  <2>2. Stays(n, c, d, m)
    BY <1>2, <1>7, <2>1 DEF Settled, Announces, In, Ended, Open
  <2>3. NoProtocol(d.outbox)
    BY <1>1, <1>7, <2>2 DEF Settled, Stays
  <2>4. CASE In(c, Open) /\ In(s, Open)
    BY <2>1, <2>2, <2>3, <2>4 DEF Stage, Settled, Stays, In, Open, Ended, Rests
  <2>5. CASE c.phase = "ProtocolHandshake" /\ Ended(s) /\ NoLate(s.outbox)
    BY <2>1, <2>2, <2>3, <2>5 DEF Stage, Settled, Stays, In, Open, Ended, Rests
  <2>6. CASE Ended(c) /\ s.phase = "ProtocolHandshake" /\ NoLate(c.outbox)
    BY <1>1, <2>1, <2>2, <2>3, <2>6 DEF Stage, Settled, Stays, In, Open, Ended, Rests
  <2> QED
    BY <1>7, <2>4, <2>5, <2>6 DEF Settled
<1> QED
  BY <1>3, <1>4, <1>5, <1>6, <1>7 DEF Stage

LEMMA StageServer ==
    ASSUME NEW s \in Handshake, NEW t \in Handshake, NEW c, NEW d, NEW m,
           Stage(c, s), Turn("Server", s, t, m), Rests(c, d, m), s.local_ready => t.local_ready
    PROVE  Stage(d, t)
<1> DEFINE n == "Server"
<1>1. /\ NoNew(s, t) /\ NoProtocol(s.outbox) => NoProtocol(t.outbox)
      /\ \A type : NoNew(s, t) /\ OneProtocol(s.outbox, type) => OneProtocol(t.outbox, type)
      /\ \A type : OneNew(s, t, type) /\ NoProtocol(s.outbox) => OneProtocol(t.outbox, type)
      /\ NoLate(s.outbox) /\ s.phase \notin Open /\ t.phase \notin Open => NoLate(t.outbox)
  BY MovesAre
<1>2. /\ Stays(n, s, t, m) \/ (m.kind = "Protocol" /\ Negotiates(n, s, t))
      /\ m.kind = "Protocol" => Ended(t) \/ Negotiates(n, s, t)
  BY DEF Turn, Heeds, Announces
<1>3. CASE Unannounced(c, s)
  <2>1. Stays(n, s, t, m)
    BY <1>2, <1>3 DEF Unannounced, Rests
  <2>2. s.phase \notin Open /\ t.phase \notin Open /\ In(t, Early)
    BY <1>3, <2>1 DEF Unannounced, Stays, In, Open, Ended, Early
  <2>3. Unannounced(d, t)
    BY <1>1, <1>3, <2>1, <2>2 DEF Unannounced, Stays, In, Ended, Rests
  <2> QED
    BY <2>3 DEF Stage
<1>4. CASE Announced(c, s)
  <2>1. CASE m.kind # "Protocol"
    <3>1. Stays(n, s, t, m) /\ OneProtocol(d.outbox, "AnnounceMax")
      BY <1>2, <1>4, <2>1 DEF Announced, Rests
    <3>2. s.phase \notin Open /\ t.phase \notin Open /\ In(t, Early)
      BY <1>4, <3>1 DEF Announced, Stays, In, Open, Ended, Early
    <3>3. Announced(d, t)
      BY <1>1, <1>4, <3>1, <3>2 DEF Announced, Stays, In, Ended, Rests
    <3> QED
      BY <3>3 DEF Stage
  <2>2. CASE m.kind = "Protocol"
    <3>1. NoProtocol(d.outbox)
      BY <1>4, <2>2 DEF Announced, Rests
    <3>2. CASE Negotiates(n, s, t)
      <4>1. /\ s.phase = "ProtocolHandshake" /\ t.phase = "ProtocolHandshake" /\ t.proposed # <<>>
            /\ OneNew(s, t, "Select")
        BY <1>4, <3>2 DEF Announced, Negotiates
      <4>2. s.phase \notin Open /\ t.phase \notin Open
        BY <4>1 DEF Open
      <4>3. Selected(d, t)
        BY <1>1, <1>4, <3>1, <4>1, <4>2 DEF Announced, Selected, In, Ended, Rests
      <4> QED
        BY <4>3 DEF Stage
    <3>3. CASE Ended(t)
      <4>1. Stays(n, s, t, m)
        BY <1>2, <3>3 DEF Negotiates, Ended
      <4>2. s.phase \notin Open /\ t.phase \notin Open
        BY <1>4, <3>3 DEF Announced, In, Open, Ended, Early
      <4>3. NoProtocol(t.outbox) /\ NoLate(t.outbox)
        BY <1>1, <1>4, <4>1, <4>2 DEF Announced, Stays
      <4>4. Settled(d, t)
        BY <1>4, <3>1, <3>3, <4>3 DEF Announced, Settled, In, Ended, Rests
      <4> QED
        BY <4>4 DEF Stage
    <3> QED
      BY <1>2, <2>2, <3>2, <3>3
  <2> QED
    BY <2>1, <2>2
<1>5. CASE Selected(c, s)
  <2>1. Stays(n, s, t, m)
    BY <1>2, <1>5 DEF Selected, Rests
  <2>2. s.phase \notin Open /\ t.phase \notin Open /\ In(t, {"ProtocolHandshake"})
    BY <1>5, <2>1 DEF Selected, Stays, In, Open, Ended
  <2>3. Selected(d, t)
    BY <1>1, <1>5, <2>1, <2>2 DEF Selected, Stays, In, Ended, Rests
  <2> QED
    BY <2>3 DEF Stage
<1>6. CASE Echoed(c, s)
  <2>1. CASE m.kind # "Protocol"
    <3>1. Stays(n, s, t, m) /\ OneProtocol(d.outbox, "Select")
      BY <1>2, <1>6, <2>1 DEF Echoed, Rests
    <3>2. In(t, {"ProtocolHandshake"})
      BY <1>6, <3>1 DEF Echoed, Stays, In, Open, Ended
    <3>3. Echoed(d, t)
      BY <1>1, <1>6, <3>1, <3>2 DEF Echoed, Stays, In, Ended, Rests
    <3> QED
      BY <3>3 DEF Stage
  <2>2. CASE m.kind = "Protocol"
    <3>1. NoProtocol(d.outbox)
      BY <1>6, <2>2 DEF Echoed, Rests
    <3>2. In(t, Open) /\ NoNew(s, t)
      BY <1>2, <1>6, <2>2 DEF Echoed, Negotiates, Stays, In, Open, Ended
    <3>3. Settled(d, t)
      BY <1>1, <1>6, <3>1, <3>2 DEF Echoed, Settled, In, Ended, Rests
    <3> QED
      BY <3>3 DEF Stage
  <2> QED
    BY <2>1, <2>2
<1>7. CASE Settled(c, s)
  <2>1. Stays(n, s, t, m) /\ NoProtocol(d.outbox)
    BY <1>2, <1>7 DEF Settled, Rests
  <2>2. NoProtocol(t.outbox)
    BY <1>1, <1>7, <2>1 DEF Settled, Stays
  <2>3. CASE In(c, Open) /\ In(s, Open)
    BY <2>1, <2>2, <2>3 DEF Stage, Settled, Stays, In, Open, Ended, Rests
  <2>4. CASE c.phase = "ProtocolHandshake" /\ Ended(s) /\ NoLate(s.outbox)
    BY <1>1, <2>1, <2>2, <2>4 DEF Stage, Settled, Stays, In, Open, Ended, Rests
  <2>5. CASE Ended(c) /\ s.phase = "ProtocolHandshake" /\ NoLate(c.outbox)
    BY <2>1, <2>2, <2>5 DEF Stage, Settled, Stays, In, Open, Ended, Rests
  <2> QED
    BY <1>7, <2>3, <2>4, <2>5 DEF Settled
<1> QED
  BY <1>3, <1>4, <1>5, <1>6, <1>7 DEF Stage

-----------------------------------------------------------------------------
(* What a live node reads is what it expects.                                *)
Welcome(n, h, m) ==
    /\ m.kind = "Cmi" => h.phase = "Cmi"
    /\ IsReady(m) => m.waiting # None
    /\ m.kind = "Protocol" =>
         /\ h.phase = "ProtocolHandshake"
         /\ n = "Client" => m.type = "Select"
         /\ n = "Server" /\ h.proposed = <<>> => m.type = "AnnounceMax"
    /\ m.kind \in Late => h.phase \in Open
    /\ m.kind = "Data" => IsReadyForData(h) \/ h.local_pin_state = "Required"

LEMMA ProtocolIsWelcome ==
    ASSUME NEW n \in Node, NEW h, NEW g \in Handshake, NEW f \in Handshake, NEW m, Popped(g, f, m),
           Posted(g), HelloPart(h), ~Ended(h), Stream(Peer(n), g, h),
           IF n = "Client" THEN Stage(h, g) ELSE Stage(g, h), m.kind = "Protocol"
    PROVE  /\ h.phase = "ProtocolHandshake"
           /\ n = "Client" => m.type = "Select"
           /\ n = "Server" /\ h.proposed = <<>> => m.type = "AnnounceMax"
<1>1. 1 \in 1 .. Len(g.outbox) /\ g.outbox[1].msg = m /\ Len(g.outbox) \in Nat
  BY PoppedIndices DEF Popped
<1>2. ~NoProtocol(g.outbox) /\ \A type : OneProtocol(g.outbox, type) => m.type = type
  BY <1>1 DEF NoProtocol, OneProtocol
<1>3. CASE n = "Client"
  <2>1. Selected(h, g)
    BY <1>2, <1>3 DEF Stage, Unannounced, Announced, Echoed, Settled
  <2> QED
    BY <1>2, <1>3, <2>1 DEF Selected, In
<1>4. CASE n = "Server"
  <2>1. Announced(g, h) \/ Echoed(g, h)
    BY <1>2, <1>4 DEF Stage, Unannounced, Selected, Settled
  <2>2. CASE Echoed(g, h)
    BY <1>4, <2>2 DEF Echoed, In
  <2>3. CASE Announced(g, h)
    <3>1. h.phase # "Cmi"
      BY <1>1 DEF Stream
    <3>2. ASSUME NEW i \in 1 .. Len(g.outbox) PROVE ~IsReady(g.outbox[i].msg)
      <4>1. i = 1 \/ 1 < i
        BY <1>1
      <4> QED
        BY <1>1, <4>1 DEF Posted, Follows, IsReady
    <3>3. ~(h.phase = "Hello" /\ h.remote_ready)
      BY <2>3 DEF Announced, HelloPart
    <3>4. h.phase # "Hello"
      BY <1>4, <2>3, <3>2, <3>3 DEF Stream, Announced, Peer
    <3> QED
      BY <1>2, <1>4, <2>3, <3>1, <3>4 DEF Announced, In, Early
  <2> QED
    BY <2>1, <2>2, <2>3
<1> QED
  BY <1>3, <1>4 DEF Node

LEMMA LateIsWelcome ==
    ASSUME NEW n \in Node, NEW h, NEW g \in Handshake, NEW f \in Handshake, NEW m, Popped(g, f, m),
           Posted(g), ~Ended(h),
           IF n = "Client" THEN Stage(h, g) ELSE Stage(g, h), m.kind \in Late
    PROVE  h.phase \in Open
<1>1. 1 \in 1 .. Len(g.outbox) /\ g.outbox[1].msg = m /\ Len(g.outbox) \in Nat
  BY PoppedIndices DEF Popped
<1>2. ~NoLate(g.outbox)
  BY <1>1 DEF NoLate
<1>3. ASSUME NEW type PROVE ~OneProtocol(g.outbox, type)
  <2>1. ASSUME NEW i \in 1 .. Len(g.outbox) PROVE g.outbox[i].msg.kind # "Protocol"
    <3>1. i = 1 \/ 1 < i
      BY <1>1
    <3> QED
      BY <1>1, <3>1 DEF Posted, Follows, Late
  <2> QED
    BY <2>1 DEF OneProtocol
<1>4. CASE n = "Client"
  BY <1>2, <1>4 DEF Stage, Unannounced, Announced, Selected, Echoed, Settled, In
<1>5. CASE n = "Server"
  BY <1>2, <1>3, <1>5 DEF Stage, Unannounced, Announced, Selected, Echoed, Settled, In
<1> QED
  BY <1>4, <1>5 DEF Node

LEMMA MessageIsWelcome ==
    ASSUME NEW n \in Node, NEW h, NEW g \in Handshake, NEW f \in Handshake, NEW m, Popped(g, f, m),
           Own(h), Posted(g), HelloPart(h), ~Ended(h), Stream(Peer(n), g, h),
           IF n = "Client" THEN Stage(h, g) ELSE Stage(g, h)
    PROVE  Welcome(n, h, m)
<1>1. 1 \in 1 .. Len(g.outbox) /\ g.outbox[1].msg = m
  BY PoppedIndices DEF Popped
<1>2. m.kind = "Cmi" => h.phase = "Cmi"
  BY <1>1 DEF Stream
<1>3. IsReady(m) => m.waiting # None
  BY <1>1 DEF Posted, Sent
<1>4. m.kind = "Protocol" =>
         /\ h.phase = "ProtocolHandshake"
         /\ n = "Client" => m.type = "Select"
         /\ n = "Server" /\ h.proposed = <<>> => m.type = "AnnounceMax"
  BY ProtocolIsWelcome
<1>5. m.kind \in Late => h.phase \in Open
  BY LateIsWelcome
<1>6. m.kind = "Data" => IsReadyForData(h) \/ h.local_pin_state = "Required"
  <2> SUFFICES ASSUME m.kind = "Data" PROVE IsReadyForData(h) \/ h.local_pin_state = "Required"
    OBVIOUS
  <2>1. Told(h, g.outbox, 1)
    BY <1>1 DEF Stream
  <2>2. \A j \in 1 .. 1 : j = 1
    OBVIOUS
  <2>3. h.peer_pin_state # "Unknown"
    BY <1>1, <2>1, <2>2 DEF Told
  <2> QED
    BY <1>5, <2>3 DEF Late, Open, Own, IsReadyForData
<1> QED
  BY <1>2, <1>3, <1>4, <1>5, <1>6 DEF Welcome

-----------------------------------------------------------------------------
(* The steps of the two nodes.                                               *)

\* Everything the order of messages depends on, of the two nodes.
Orderly(n, h, g) ==
    /\ Stream(n, h, g) /\ Stream(Peer(n), g, h)
    /\ IF n = "Client" THEN Stage(h, g) ELSE Stage(g, h)

LEMMA OrderlyIs ==
    ASSUME NEW n \in Node, NEW f
    PROVE  Orderly(n, f[n], f[Peer(n)]) <=>
             /\ \A k \in Node : Stream(k, f[k], f[Peer(k)])
             /\ Stage(f["Client"], f["Server"])
BY DEF Orderly, Node, Peer

LEMMA UnreadOrderly ==
    ASSUME NEW n \in Node, NEW h \in Handshake, NEW k \in Handshake, NEW g, NEW m,
           Orderly(n, h, g), Own(h), HelloPart(h), Turn(n, h, k, m), Mono(h, k), Learns(n, h, k, m),
           Moot(h, m), k.remote_ready => g.local_ready
    PROVE  Orderly(n, k, g)
<1>1. Stream(n, k, g)
  BY StreamOut DEF Orderly
<1>2. Stream(Peer(n), g, k)
  BY StreamIn DEF Orderly
<1>3. Rests(g, g, m) /\ (h.local_ready => k.local_ready)
  BY RestsUnread DEF Moot, Mono
<1>4. IF n = "Client" THEN Stage(k, g) ELSE Stage(g, k)
  BY <1>3, StageClient, StageServer DEF Orderly, Node
<1> QED
  BY <1>1, <1>2, <1>4 DEF Orderly

LEMMA ReadOrderly ==
    ASSUME NEW n \in Node, NEW h \in Handshake, NEW k \in Handshake,
           NEW g \in Handshake, NEW f \in Handshake, NEW m,
           Orderly(n, h, g), Own(h), Posted(g), Turn(n, h, k, m), Mono(h, k), Learns(n, h, k, m),
           Popped(g, f, m), k.remote_ready => f.local_ready
    PROVE  Orderly(n, k, f)
<1>1. Stream(n, k, g)
  BY StreamOut DEF Orderly
<1>2. Stream(n, k, f)
  BY <1>1 DEF Stream, Told, Popped, Same, Ended
<1>3. Stream(Peer(n), f, k)
  BY StreamInRead DEF Orderly
<1>4. Rests(g, f, m) /\ (h.local_ready => k.local_ready)
  BY RestsRead DEF Mono
<1>5. IF n = "Client" THEN Stage(k, f) ELSE Stage(f, k)
  BY <1>4, StageClient, StageServer DEF Orderly, Node
<1> QED
  BY <1>2, <1>3, <1>5 DEF Orderly

LEMMA AssembleOrder ==
    ASSUME NEW n \in Node, NEW a, NEW b, hs'[n] = a, hs'[Peer(n)] = b,
           Own(a), Posted(a), Own(b), Posted(b), ~lost' => Orderly(n, a, b)
    PROVE  XInv'
<1>1. \A k \in Node : k = n \/ k = Peer(n)
  BY DEF Node, Peer
<1>2. \A k \in Node : Own(hs'[k]) /\ Posted(hs'[k])
  BY <1>1
<1>3. ~lost' => /\ \A k \in Node : Stream(k, hs'[k], hs'[Peer(k)])
                /\ Stage(hs'["Client"], hs'["Server"])
  BY OrderlyIs
<1> QED
  BY <1>2, <1>3 DEF XInv

\* What the two invariants say of a node and of its peer.
LEMMA PairIs ==
    ASSUME IInv, XInv, NEW n \in Node
    PROVE  /\ config \in Configs /\ DOMAIN hs = Node
           /\ Peer(n) \in Node /\ Peer(n) # n
           /\ NodeOK(n, hs[n]) /\ hs[n] \in Handshake /\ HelloPart(hs[n]) /\ Own(hs[n]) /\ Posted(hs[n])
           /\ hs[Peer(n)] \in Handshake /\ Own(hs[Peer(n)]) /\ Posted(hs[Peer(n)])
           /\ ~lost => Orderly(n, hs[n], hs[Peer(n)])
<1>1. Peer(n) \in Node /\ Peer(n) # n
  BY PeerType
<1>2. config \in Configs /\ DOMAIN hs = Node /\ NodeOK(n, hs[n]) /\ NodeOK(Peer(n), hs[Peer(n)])
  BY <1>1 DEF IInv, Frame
<1>3. Own(hs[n]) /\ Posted(hs[n]) /\ Own(hs[Peer(n)]) /\ Posted(hs[Peer(n)])
  BY <1>1 DEF XInv
<1>4. ~lost => Orderly(n, hs[n], hs[Peer(n)])
  BY OrderlyIs DEF XInv
<1> QED
  BY <1>1, <1>2, <1>3, <1>4 DEF NodeOK

LEMMA DrivenOrders ==
    ASSUME IInv, XInv, IInv', NEW n \in Node, NEW k, hs' = [hs EXCEPT ![n] = k], lost' = lost,
           Good(n, hs[n], k, Data), Turn(n, hs[n], k, Data)
    PROVE  XInv'
<1> DEFINE h == hs[n]
           g == hs[Peer(n)]
<1>1. /\ DOMAIN hs = Node /\ Peer(n) \in Node /\ Peer(n) # n
      /\ h \in Handshake /\ HelloPart(h) /\ Own(h) /\ Own(g) /\ Posted(g)
      /\ ~lost => Orderly(n, h, g)
  BY PairIs
<1>2. hs'[n] = k /\ hs'[Peer(n)] = g
  BY <1>1
<1>3. k \in Handshake /\ Mono(h, k) /\ Learns(n, h, k, Data) /\ Own(k) /\ Posted(k)
  BY DEF Good, NodeOK, Turn
<1>4. k.remote_ready => g.local_ready
  BY <1>2 DEF IInv, Agree
<1>5. Moot(h, Data)
  BY DEF Moot, Data
<1> HIDE DEF h, g
<1>6. ~lost => Orderly(n, k, g)
  BY <1>1, <1>3, <1>4, <1>5, UnreadOrderly DEF h
<1> QED
  BY <1>1, <1>2, <1>3, <1>6, AssembleOrder

LEMMA TailIsPopped ==
    ASSUME NEW g \in Handshake, g.outbox # <<>>
    PROVE  /\ [g EXCEPT !.outbox = Tail(@)] \in Handshake
           /\ Popped(g, [g EXCEPT !.outbox = Tail(@)], Head(g.outbox).msg)
<1> DEFINE o == Tail(g.outbox)
           f == [g EXCEPT !.outbox = o]
<1>1. g.outbox \in Seq(Envelope) /\ Len(g.outbox) \in Nat /\ Head(g.outbox) = g.outbox[1]
  BY DEF Handshake
<1>2. /\ o \in Seq(Envelope) /\ Len(g.outbox) = Len(o) + 1
      /\ \A i \in 1 .. Len(o) : o[i] = g.outbox[i + 1]
  BY <1>1
<1>3. [g EXCEPT !.outbox = Tail(@)] = f
  OBVIOUS
<1> HIDE DEF o
<1>4. /\ f \in Handshake /\ f.phase = g.phase /\ f.outbox = o /\ f.timers = g.timers /\ Same(g, f)
      /\ f.trust = g.trust /\ f.reason = g.reason
  BY <1>2 DEF Handshake, Same
<1> HIDE DEF f
<1> QED
  BY <1>1, <1>2, <1>3, <1>4 DEF Popped

LEMMA ReceivedIsWelcome ==
    ASSUME IInv, XInv, NEW n \in Node, NEW kind, Incoming(n, kind), ~Ended(hs[n])
    PROVE  Welcome(n, hs[n], Received(n))
<1> DEFINE h == hs[n]
           g == hs[Peer(n)]
           f == [g EXCEPT !.outbox = Tail(@)]
<1>1. /\ h \in Handshake /\ HelloPart(h) /\ Own(h) /\ g \in Handshake /\ Posted(g)
      /\ ~lost => Orderly(n, h, g)
  BY PairIs
<1>2. ~lost /\ g.outbox # <<>>
  BY DEF Incoming
<1>3. f \in Handshake /\ Popped(g, f, Received(n))
  BY <1>1, <1>2, TailIsPopped DEF Received
<1> HIDE DEF f, g, h
<1>4. ~Ended(h)
  BY DEF h
<1>5. Welcome(n, h, Received(n))
  BY <1>1, <1>2, <1>3, <1>4, MessageIsWelcome DEF Orderly
<1> QED
  BY <1>5 DEF h

LEMMA ReadOrders ==
    ASSUME IInv, XInv, IInv', NEW n \in Node, NEW kind, Incoming(n, kind), NEW p, Read(n, p),
           ~Ended(hs[n]) => Good(n, hs[n], p, Received(n)) /\ Turn(n, hs[n], p, Received(n))
    PROVE  XInv'
<1> DEFINE h == hs[n]
           g == hs[Peer(n)]
           f == [g EXCEPT !.outbox = Tail(@)]
           k == IF Ended(hs[n]) THEN hs[n] ELSE p
           m == Received(n)
<1>1. /\ DOMAIN hs = Node /\ Peer(n) \in Node /\ Peer(n) # n
      /\ NodeOK(n, h) /\ h \in Handshake /\ Own(h) /\ Posted(h)
      /\ g \in Handshake /\ Own(g) /\ Posted(g)
      /\ ~lost => Orderly(n, h, g)
  BY PairIs
<1>2. ~lost /\ g.outbox # <<>>
  BY DEF Incoming
<1>3. f \in Handshake /\ Popped(g, f, m)
  BY <1>1, <1>2, TailIsPopped DEF Received
<1>4. hs' = [hs EXCEPT ![n] = k, ![Peer(n)].outbox = Tail(@)] /\ lost' = lost
  BY DEF Read
<1>5. Good(n, h, k, m) /\ Turn(n, h, k, m)
  <2>1. CASE Ended(hs[n])
    BY <1>1, <2>1, GoodRefl, EndedTurn
  <2>2. CASE ~Ended(hs[n])
    BY <2>2
  <2> QED
    BY <2>1, <2>2
<1>6. hs'[n] = k /\ hs'[Peer(n)] = f
  <2> HIDE DEF k
  <2> QED
    BY <1>1, <1>4
<1> HIDE DEF k, f, m
<1>7. k \in Handshake /\ Mono(h, k) /\ Learns(n, h, k, m) /\ Own(k) /\ Posted(k)
  BY <1>5 DEF Good, NodeOK, Turn
<1>8. k.remote_ready => f.local_ready
  BY <1>6 DEF IInv, Agree
<1>9. Own(f) /\ Posted(f)
  BY <1>1, <1>3, PoppedPosted
<1> HIDE DEF g, h
<1>10. Orderly(n, k, f)
  BY <1>1, <1>2, <1>3, <1>5, <1>7, <1>8, ReadOrderly
<1> QED
  BY <1>6, <1>7, <1>9, <1>10, AssembleOrder

LEMMA ReceiveOrders ==
    ASSUME IInv, XInv, IInv', NEW n \in Node, Receive(n)
    PROVE  XInv'
<1> DEFINE m == Received(n)
           h == hs[n]
<1>0. /\ "SelectionMismatch" \in AbortReasons /\ "UnexpectedMessage" \in AbortReasons
      /\ "SelectionMismatch" # "UnexpectedMessage"
  BY DEF AbortReasons
<1>1. /\ config \in Configs /\ NodeOK(n, h) /\ h \in Handshake /\ Own(h) /\ Posted(h)
  BY PairIs
<1>2. TimersOK(h) /\ Quiet(h, h)
  BY <1>1, QuietRefl DEF Own
<1>3. ASSUME NEW kind, Incoming(n, kind)
      PROVE  /\ m \in Message /\ m.kind = kind
             /\ ~Ended(h) => Welcome(n, h, m)
  BY <1>3, ReceivedIs, ReceivedIsWelcome
<1>4. ASSUME NEW kind, Incoming(n, kind), kind \notin {"Cmi", "Hello", "PinState", "Protocol"}
      PROVE  Moot(h, m)
  BY <1>3, <1>4 DEF Moot
<1>5. ASSUME NEW kind, Incoming(n, kind), NEW p, Read(n, p),
             ~Ended(h) => Good(n, h, p, m) /\ Turn(n, h, p, m)
      PROVE  XInv'
  BY <1>5, ReadOrders
<1>6. ASSUME NEW p, Calm(n, h, p), Quiet(h, p), Moot(h, m), ~Ended(h)
      PROVE  Good(n, h, p, m) /\ Turn(n, h, p, m)
  BY <1>1, <1>6, CalmGood, QuietTurn
<1> HIDE DEF h, m
<1>7. CASE ReceiveCmi(n)
  <2>1. Incoming(n, "Cmi") /\ Read(n, OnCmi(n, h))
    BY <1>7 DEF ReceiveCmi, h
  <2>2. ~Ended(h) => Good(n, h, OnCmi(n, h), m) /\ Turn(n, h, OnCmi(n, h), m)
    BY <1>1, <1>3, <2>1, OnCmiGood, OnCmiTurn DEF Welcome
  <2> QED
    BY <1>5, <2>1, <2>2
<1>8. CASE ReceiveHello(n)
  <2>1. Incoming(n, "Hello") /\ Read(n, OnHello(n, h, m))
    BY <1>8 DEF ReceiveHello, h, m
  <2>2. m \in HelloMsg /\ (~Ended(h) => (m.phase = "Ready" => m.waiting # None))
    BY <1>3, <2>1, MessageByKind DEF Welcome, IsReady
  <2>3. ~Ended(h) => Good(n, h, OnHello(n, h, m), m) /\ Turn(n, h, OnHello(n, h, m), m)
    BY <1>1, <2>2, OnHelloGood, OnHelloTurn
  <2> QED
    BY <1>5, <2>1, <2>3
<1>9. CASE ReceiveProtocol(n)
  <2>1. Incoming(n, "Protocol") /\ Read(n, OnProtocolHandshake(n, h, m))
    BY <1>9 DEF ReceiveProtocol, h, m
  <2>2. m \in ProtocolMsg /\ m.kind = "Protocol"
    BY <1>3, <2>1, MessageByKind
  <2>3. ~Ended(h) => Good(n, h, OnProtocolHandshake(n, h, m), m)
    BY <1>1, <2>2, OnProtocolHandshakeGood
  <2>4. ~Ended(h) => Turn(n, h, OnProtocolHandshake(n, h, m), m)
    BY <1>1, <1>3, <2>1, <2>2, OnProtocolHandshakeTurn DEF Welcome
  <2> QED
    BY <1>5, <2>1, <2>3, <2>4
<1>10. CASE ReceiveProtocolError(n)
  <2>1. Incoming(n, "ProtocolError") /\ Read(n, Abort(h, "SelectionMismatch"))
    BY <1>10 DEF ReceiveProtocolError, h
  <2>2. ~Ended(h) => /\ Good(n, h, Abort(h, "SelectionMismatch"), m)
                     /\ Turn(n, h, Abort(h, "SelectionMismatch"), m)
    BY <1>0, <1>1, <1>2, AbortGood, AbortTurn
  <2> QED
    BY <1>5, <2>1, <2>2
<1>11. CASE ReceivePinState(n)
  <2>1. Incoming(n, "PinState") /\ Read(n, OnPinState(h, m))
    BY <1>11 DEF ReceivePinState, h, m
  <2>2. m \in PinStateMsg /\ (~Ended(h) => h.phase \in Open)
    BY <1>3, <2>1, MessageByKind DEF Welcome, Late
  <2>3. ~Ended(h) => Good(n, h, OnPinState(h, m), m) /\ Turn(n, h, OnPinState(h, m), m)
    BY <1>1, <2>2, OnPinStateGood, OnPinStateTurn
  <2> QED
    BY <1>5, <2>1, <2>3
<1>12. CASE ReceivePinInput(n)
  <2>1. Incoming(n, "PinInput") /\ Read(n, OnPinInput(n, h, m))
    BY <1>12 DEF ReceivePinInput, h, m
  <2>2. m \in PinInputMsg /\ (~Ended(h) => h.phase \in Open)
    BY <1>3, <2>1, MessageByKind DEF Welcome, Late
  <2>3. ~Ended(h) => Good(n, h, OnPinInput(n, h, m), m) /\ Turn(n, h, OnPinInput(n, h, m), m)
    BY <1>1, <2>2, OnPinInputGood, OnPinInputTurn
  <2> QED
    BY <1>5, <2>1, <2>3
<1>13. CASE ReceivePinError(n)
  <2>1. Incoming(n, "PinError") /\ Read(n, h)
    BY <1>13 DEF ReceivePinError, h
  <2> QED
    BY <1>1, <1>2, <1>4, <1>5, <1>6, <2>1, CalmRefl
<1>14. CASE ReceiveClose(n)
  <2>1. Incoming(n, "Close") /\ Read(n, OnClose(h, m))
    BY <1>14 DEF ReceiveClose, h, m
  <2>2. ~Ended(h) => Good(n, h, OnClose(h, m), m) /\ Turn(n, h, OnClose(h, m), m)
    BY <1>1, OnCloseGood, OnCloseTurn
  <2> QED
    BY <1>5, <2>1, <2>2
<1>15. CASE ReceiveData(n)
  <2> DEFINE p == IF IsReadyForData(h) THEN h ELSE Abort(h, "UnexpectedMessage")
  <2>1. Incoming(n, "Data") /\ Read(n, p)
    BY <1>15 DEF ReceiveData, h
  <2>2. CASE IsReadyForData(h)
    <3>1. ~Ended(h) => Good(n, h, h, m) /\ Turn(n, h, h, m)
      BY <1>1, <1>2, <1>4, <1>6, <2>1, CalmRefl
    <3> QED
      BY <1>5, <2>1, <2>2, <3>1
  <2>3. CASE ~IsReadyForData(h)
    <3>1. ~Ended(h) => h.local_pin_state = "Required"
      BY <1>3, <2>1, <2>3 DEF Welcome
    <3>2. ~Ended(h) => /\ Good(n, h, Abort(h, "UnexpectedMessage"), m)
                       /\ Turn(n, h, Abort(h, "UnexpectedMessage"), m)
      BY <1>0, <1>1, <1>2, <3>1, AbortGood, AbortTurn
    <3> QED
      BY <1>5, <2>1, <2>3, <3>2
  <2> QED
    BY <2>2, <2>3
<1>16. CASE ReceiveKeyMaterial(n)
  <2>1. CASE Incoming(n, "KeyMaterialState") /\ Read(n, Send(h, KeyMaterialStateResponse))
    <3>1. Calm(n, h, Send(h, KeyMaterialStateResponse)) /\ Quiet(h, Send(h, KeyMaterialStateResponse))
      BY <1>1, <1>2, CalmRefl, SendOtherCalm, OtherMessages, SendOtherQuiet, OtherKinds
    <3> QED
      BY <1>4, <1>5, <1>6, <2>1, <3>1
  <2>2. CASE Incoming(n, "KeyMaterialStateResponse") /\ Read(n, OnKeyMaterialStateResponse(h))
    <3>1. Calm(n, h, OnKeyMaterialStateResponse(h)) /\ Quiet(h, OnKeyMaterialStateResponse(h))
      BY <1>1, <1>2, KeyMaterialCalm, KeyMaterialQuiet
    <3> QED
      BY <1>4, <1>5, <1>6, <2>2, <3>1
  <2>3. CASE Incoming(n, "KeyMaterialStateRequest") /\ Read(n, OnKeyMaterialStateRequest(n, h, m))
    <3>1. Calm(n, h, OnKeyMaterialStateRequest(n, h, m)) /\ Quiet(h, OnKeyMaterialStateRequest(n, h, m))
      BY <1>1, <1>2, KeyMaterialCalm, KeyMaterialQuiet
    <3> QED
      BY <1>4, <1>5, <1>6, <2>3, <3>1
  <2> QED
    BY <1>16, <2>1, <2>2, <2>3, Zenon DEF ReceiveKeyMaterial, h, m
<1>17. CASE ReceiveAccessMethods(n)
  <2>1. CASE Incoming(n, "AccessMethodsRequest") /\ Read(n, Send(h, AccessMethods))
    <3>1. Calm(n, h, Send(h, AccessMethods)) /\ Quiet(h, Send(h, AccessMethods))
      BY <1>1, <1>2, CalmRefl, SendOtherCalm, OtherMessages, SendOtherQuiet, OtherKinds
    <3> QED
      BY <1>4, <1>5, <1>6, <2>1, <3>1
  <2>2. CASE Incoming(n, "AccessMethods") /\ Read(n, h)
    BY <1>1, <1>2, <1>4, <1>5, <1>6, <2>2, CalmRefl
  <2> QED
    BY <1>17, <2>1, <2>2 DEF ReceiveAccessMethods, h
<1> QED
  BY <1>7, <1>8, <1>9, <1>10, <1>11, <1>12, <1>13, <1>14, <1>15, <1>16, <1>17 DEF Receive

LEMMA DriveOrders ==
    ASSUME IInv, XInv, IInv', NEW n \in Node,
           \/ Timeout(n) \/ EnterPinByHand(n) \/ CloseConnection(n) \/ AnnounceKeyMaterial(n)
           \/ RequestKeyMaterial(n) \/ RequestAccessMethods(n) \/ SendData(n) \/ Hangup(n) \/ Decide(n)
    PROVE  XInv'
<1> DEFINE h == hs[n]
<1>1. config \in Configs /\ NodeOK(n, h) /\ h \in Handshake /\ Own(h) /\ Posted(h)
  BY PairIs
<1>2. Calm(n, h, h) /\ Quiet(h, h) /\ TimersOK(h) /\ Moot(h, Data)
  BY <1>1, CalmRefl, QuietRefl DEF Own, Moot, Data
<1>3. ASSUME NEW k, Driven(n, k), Good(n, h, k, Data), Turn(n, h, k, Data)
      PROVE  XInv'
  BY <1>3, DrivenOrders DEF Driven
<1>4. ASSUME NEW k, Driven(n, k), Calm(n, h, k), Quiet(h, k), ~Ended(h)
      PROVE  XInv'
  BY <1>1, <1>2, <1>3, <1>4, CalmGood, QuietTurn
<1>5. ASSUME IsReadyForData(h) PROVE ~Ended(h)
  BY <1>5 DEF IsReadyForData, Ended
<1> HIDE DEF h
<1>6. CASE Timeout(n)
  <2>1. ~Ended(h) /\ Driven(n, HandleTimeout(n, h))
    BY <1>6 DEF Timeout, h
  <2> QED
    BY <1>1, <1>2, <1>3, <2>1, HandleTimeoutGood, HandleTimeoutTurn
<1>7. CASE EnterPinByHand(n)
  <2>1. PICK pin \in PinEntries : Driven(n, SendPinIfPermitted([h EXCEPT !.peer_pin = pin]))
    BY <1>7 DEF EnterPinByHand, h
  <2>2. ~Ended(h)
    BY <1>7 DEF EnterPinByHand, PinWanted, Ended, h
  <2> DEFINE k == [h EXCEPT !.peer_pin = pin]
  <2>3. pin \in {"none", "right", "wrong"}
    BY Constants
  <2>4. Core(h, k) /\ k.outbox = h.outbox /\ k.trust = h.trust /\ k.reason = h.reason /\ k.timers = h.timers
    BY <1>1, <2>3 DEF Core, Handshake
  <2> HIDE DEF k
  <2>5. TimersOK(k)
    BY <1>2, <2>4 DEF TimersOK, Core
  <2>6. Calm(n, h, SendPinIfPermitted(k))
    BY <1>2, <2>4, CalmSilent, SendPinIfPermittedCalm
  <2>7. Quiet(h, SendPinIfPermitted(k))
    BY <1>1, <1>2, <2>4, <2>5, QuietSilent, SendPinIfPermittedQuiet
  <2> QED
    BY <1>4, <2>1, <2>2, <2>6, <2>7 DEF k
<1>8. CASE CloseConnection(n)
  <2>1. h.phase \in config[n].around.closes /\ Driven(n, Close(h))
    BY <1>8 DEF CloseConnection, h
  <2>2. h.phase \notin {"Cmi", "Hello", "ProtocolHandshake"}
    BY <1>1, <2>1, DriverAssumption
  <2>3. h.phase \in Over
    BY <1>1, <2>2 DEF Handshake, Phases, Over, Open
  <2> QED
    BY <1>1, <1>2, <1>3, <2>1, <2>3, CloseGood, CloseTurn
<1>9. CASE AnnounceKeyMaterial(n)
  <2>1. IsReadyForData(h) /\ Driven(n, SendKeyMaterial(n, h))
    BY <1>9 DEF AnnounceKeyMaterial, h
  <2> QED
    BY <1>1, <1>2, <1>4, <1>5, <2>1, KeyMaterialCalm, KeyMaterialQuiet
<1>10. CASE RequestKeyMaterial(n)
  <2>1. IsReadyForData(h) /\ \E stale \in BOOLEAN : Driven(n, Send(h, KeyMaterialStateRequest(stale)))
    BY <1>10 DEF RequestKeyMaterial, h
  <2>2. PICK stale \in BOOLEAN : Driven(n, Send(h, KeyMaterialStateRequest(stale)))
    BY <2>1
  <2>3. KeyMaterialStateRequest(stale) \in OtherMsg
        /\ KeyMaterialStateRequest(stale).kind \notin {"Cmi", "Data"}
    BY OtherMessages, OtherKinds
  <2>4. /\ Calm(n, h, Send(h, KeyMaterialStateRequest(stale)))
        /\ Quiet(h, Send(h, KeyMaterialStateRequest(stale)))
    BY <1>1, <1>2, <2>3, SendOtherCalm, SendOtherQuiet
  <2> QED
    BY <1>4, <1>5, <2>1, <2>2, <2>4
<1>11. CASE RequestAccessMethods(n)
  <2>1. IsReadyForData(h) /\ Driven(n, Send(h, AccessMethodsRequest))
    BY <1>11 DEF RequestAccessMethods, h
  <2>2. Calm(n, h, Send(h, AccessMethodsRequest)) /\ Quiet(h, Send(h, AccessMethodsRequest))
    BY <1>1, <1>2, SendOtherCalm, SendOtherQuiet, OtherMessages, OtherKinds
  <2> QED
    BY <1>4, <1>5, <2>1, <2>2
<1>12. CASE SendData(n)
  <2>1. h.phase = "DataExchange" /\ Driven(n, Send(h, Data))
    BY <1>12 DEF SendData, h
  <2>2. Good(n, h, Send(h, Data), Data)
    BY <1>1, <1>2, <1>5, <2>1, SendOtherCalm, OtherMessages, CalmGood DEF IsReadyForData
  <2> QED
    BY <1>1, <1>2, <1>3, <2>1, <2>2, SendDataTurn
<1>13. CASE Hangup(n)
  <2>1. ~Ended(h) /\ Driven(n, Finish(h))
    BY <1>13 DEF Hangup, HungUp, h
  <2> QED
    BY <1>1, <1>2, <1>3, <2>1, FinishGood, FinishTurn
<1>14. CASE Decide(n)
  <2>1. ~Ended(h)
    BY <1>14 DEF Decide, Ended, h
  <2>2. PICK trust \in Decisions : Driven(n, SetTrust(n, h, trust))
    BY <1>14 DEF Decide, h
  <2>3. trust \in Trusts /\ trust # Pending
    BY TimesAssumption, DriverAssumption
  <2>4. Good(n, h, SetTrust(n, h, trust), Data) /\ Turn(n, h, SetTrust(n, h, trust), Data)
    BY <1>1, <2>1, <2>3, SetTrustGood, SetTrustTurn
  <2> QED
    BY <1>3, <2>2, <2>4
<1> QED
  BY <1>6, <1>7, <1>8, <1>9, <1>10, <1>11, <1>12, <1>13, <1>14

\* A node some time later: its messages are older and its timers shorter.
Alike(h, k) ==
    /\ k \in Handshake /\ k.phase = h.phase /\ Same(h, k)
    /\ k.trust = h.trust /\ k.reason = h.reason
    /\ \A t \in TimerNames : h.timers[t] = None => k.timers[t] = None

LEMMA ElapsedIs ==
    ASSUME NEW h \in Handshake
    PROVE  /\ Alike(h, Elapsed(h))
           /\ lost => Len(Elapsed(h).outbox) = 0
           /\ ~lost => /\ Len(Elapsed(h).outbox) = Len(h.outbox)
                       /\ \A i \in 1 .. Len(h.outbox) : Elapsed(h).outbox[i].msg = h.outbox[i].msg
<1> DEFINE t == [u \in TimerNames |-> Less(h.timers[u])]
           d == Less(h.peer_deadline)
           older(i) == [h.outbox[i] EXCEPT !.age = @ + 1]
           aged == [i \in DOMAIN h.outbox |-> older(i)]
           o == IF lost THEN <<>> ELSE aged
           g == [h EXCEPT !.timers = t, !.peer_deadline = d, !.outbox = o]
<1>1. h.timers \in Timers /\ h.outbox \in Seq(Envelope) /\ h.peer_deadline \in Time
  BY DEF Handshake
<1>2. (\A x \in Time : Less(x) \in Time) /\ Less(None) = None
  BY DEF Less, Time, None
<1>3. t \in Timers /\ d \in Time /\ \A u \in TimerNames : h.timers[u] = None => t[u] = None
  BY <1>1, <1>2 DEF Timers
<1>4. /\ aged \in Seq(Envelope) /\ Len(aged) = Len(h.outbox)
      /\ \A i \in 1 .. Len(h.outbox) : aged[i].msg = h.outbox[i].msg
  <2>1. DOMAIN h.outbox = 1 .. Len(h.outbox) /\ Len(h.outbox) \in Nat
    BY <1>1
  <2>2. \A i \in 1 .. Len(h.outbox) : [h.outbox[i] EXCEPT !.age = @ + 1] \in Envelope
          /\ [h.outbox[i] EXCEPT !.age = @ + 1].msg = h.outbox[i].msg
    <3>1. \A e \in Envelope : [e EXCEPT !.age = e.age + 1] \in Envelope
                             /\ [e EXCEPT !.age = e.age + 1].msg = e.msg
      BY DEF Envelope
    <3>2. \A i \in 1 .. Len(h.outbox) : h.outbox[i] \in Envelope
      BY <1>1
    <3>3. \A i \in 1 .. Len(h.outbox) :
            [h.outbox[i] EXCEPT !.age = @ + 1] = [h.outbox[i] EXCEPT !.age = h.outbox[i].age + 1]
      OBVIOUS
    <3> QED
      BY <3>1, <3>2, <3>3, Zenon
  <2> QED
    BY <2>1, <2>2
<1>5. Elapsed(h) = g
  BY DEF Elapsed
<1> HIDE DEF aged, t, d
<1>6. o \in Seq(Envelope) /\ (lost => o = <<>>) /\ (~lost => o = aged)
  BY <1>4
<1> HIDE DEF o
<1>7. /\ g \in Handshake /\ g.phase = h.phase /\ g.outbox = o /\ g.timers = t /\ Same(h, g)
      /\ g.trust = h.trust /\ g.reason = h.reason
  BY <1>1, <1>3, <1>6 DEF Handshake, Same
<1> HIDE DEF g
<1>8. Alike(h, g)
  BY <1>3, <1>7 DEF Alike
<1>9. lost => Len(g.outbox) = 0
  BY <1>6, <1>7
<1> QED
  BY <1>4, <1>5, <1>6, <1>7, <1>8, <1>9

Aged(h, k) ==
    /\ Alike(h, k) /\ Len(k.outbox) = Len(h.outbox)
    /\ \A i \in 1 .. Len(h.outbox) : k.outbox[i].msg = h.outbox[i].msg

LEMMA AlikeOwn ==
    ASSUME NEW h, NEW k, Alike(h, k), Own(h)
    PROVE  Own(k)
<1>1. "send_prolongation" \in TimerNames /\ "pin_penalty" \in TimerNames
  BY TimerNamesAre
<1> QED
  BY <1>1 DEF Alike, Own, TimersOK, Same, Ended

LEMMA AgedPosted ==
    ASSUME NEW h, NEW k, Aged(h, k), Posted(h)
    PROVE  Posted(k)
<1>1. \A x : Sent(h, x) => Sent(k, x)
  BY DEF Sent, Aged, Alike, Same
<1> QED
  BY <1>1 DEF Posted, Aged

LEMMA AgedStream ==
    ASSUME NEW n, NEW g, NEW f, NEW h, NEW k, Aged(g, f), Alike(h, k), Len(g.outbox) \in Nat, Stream(n, g, h)
    PROVE  Stream(n, f, k)
<1>1. /\ Len(f.outbox) = Len(g.outbox) /\ f.phase = g.phase /\ f.local_ready = g.local_ready
      /\ \A i \in 1 .. Len(g.outbox) : f.outbox[i].msg = g.outbox[i].msg
  BY DEF Aged, Alike, Same
<1>2. k.phase = h.phase /\ k.remote_ready = h.remote_ready /\ k.peer_pin_state = h.peer_pin_state
  BY DEF Alike, Same
<1>3. ASSUME NEW i \in Nat, i <= Len(g.outbox), Told(h, g.outbox, i) PROVE Told(k, f.outbox, i)
  <2>1. \A j \in 1 .. i : j \in 1 .. Len(g.outbox)
    BY <1>3
  <2> QED
    BY <1>1, <1>2, <1>3, <2>1 DEF Told, Ended
<1>4. \A i \in 1 .. Len(g.outbox) : i \in Nat /\ i <= Len(g.outbox)
  OBVIOUS
<1>5. k.phase = "Cmi" => 1 <= Len(f.outbox) /\ f.outbox[1].msg.kind = "Cmi"
  BY <1>1, <1>2 DEF Stream
<1>6. \A i \in 1 .. Len(f.outbox) : f.outbox[i].msg.kind = "Cmi" => k.phase = "Cmi" \/ Ended(k)
  BY <1>1, <1>2 DEF Stream, Ended
<1>7. n = "Client" /\ k.phase \in {"Cmi", "Hello"} /\ f.local_ready =>
         \/ \E i \in 1 .. Len(f.outbox) : IsReady(f.outbox[i].msg)
         \/ k.remote_ready /\ \A i \in 1 .. Len(f.outbox) : ~IsPending(f.outbox[i].msg)
  BY <1>1, <1>2 DEF Stream
<1>8. \A i \in 1 .. Len(f.outbox) :
         f.outbox[i].msg.kind = "Data" => k.phase \in Over /\ Told(k, f.outbox, i)
  BY <1>1, <1>2, <1>3, <1>4 DEF Stream
<1>9. f.phase \in Open => Told(k, f.outbox, Len(f.outbox))
  BY <1>1, <1>3 DEF Stream
<1>10. k.peer_pin_state # "Unknown" => f.phase \in Over
  BY <1>1, <1>2 DEF Stream
<1> QED
  BY <1>5, <1>6, <1>7, <1>8, <1>9, <1>10 DEF Stream

LEMMA AgedStage ==
    ASSUME NEW c, NEW d, NEW s, NEW t, Aged(c, d), Aged(s, t), Stage(c, s)
    PROVE  Stage(d, t)
<1>1. ASSUME NEW h, NEW k, Aged(h, k)
      PROVE  /\ NoProtocol(h.outbox) => NoProtocol(k.outbox)
             /\ NoLate(h.outbox) => NoLate(k.outbox)
             /\ \A type : OneProtocol(h.outbox, type) => OneProtocol(k.outbox, type)
             /\ k.phase = h.phase /\ k.proposed = h.proposed /\ k.local_ready = h.local_ready
  BY <1>1 DEF Aged, Alike, Same, NoProtocol, NoLate, OneProtocol
<1>2. /\ NoProtocol(c.outbox) => NoProtocol(d.outbox)
      /\ NoLate(c.outbox) => NoLate(d.outbox)
      /\ \A type : OneProtocol(c.outbox, type) => OneProtocol(d.outbox, type)
      /\ d.phase = c.phase /\ d.proposed = c.proposed /\ d.local_ready = c.local_ready
  BY <1>1
<1>3. /\ NoProtocol(s.outbox) => NoProtocol(t.outbox)
      /\ NoLate(s.outbox) => NoLate(t.outbox)
      /\ \A type : OneProtocol(s.outbox, type) => OneProtocol(t.outbox, type)
      /\ t.phase = s.phase /\ t.proposed = s.proposed /\ t.local_ready = s.local_ready
  BY <1>1
<1> QED
  BY <1>2, <1>3 DEF Stage, Unannounced, Announced, Selected, Echoed, Settled, In, Ended

LEMMA TickOrders ==
    ASSUME IInv, XInv, Tick
    PROVE  XInv'
<1>1. hs' = [n \in Node |-> Elapsed(hs[n])] /\ lost' = lost
  BY DEF Tick
<1>2. \A n \in Node : hs'[n] = Elapsed(hs[n]) /\ hs[n] \in Handshake /\ Own(hs[n]) /\ Posted(hs[n])
  BY <1>1, PairIs
<1>3. \A n \in Node : Own(hs'[n])
  BY <1>2, ElapsedIs, AlikeOwn
<1>4. CASE lost
  <2>1. ASSUME NEW n \in Node PROVE Posted(hs'[n])
    <3>1. Len(hs'[n].outbox) = 0
      BY <1>2, <1>4, ElapsedIs
    <3> QED
      BY <3>1 DEF Posted
  <2> QED
    BY <1>1, <1>3, <1>4, <2>1 DEF XInv
<1>5. CASE ~lost
  <2>1. \A n \in Node : Aged(hs[n], hs'[n])
    BY <1>2, <1>5, ElapsedIs DEF Aged
  <2>2. \A n \in Node : Posted(hs'[n])
    BY <1>2, <2>1, AgedPosted
  <2>3. ASSUME NEW n \in Node PROVE Stream(n, hs'[n], hs'[Peer(n)])
    <3>1. Peer(n) \in Node
      BY PeerType
    <3>2. Aged(hs[n], hs'[n]) /\ Alike(hs[Peer(n)], hs'[Peer(n)]) /\ Len(hs[n].outbox) \in Nat
      BY <1>2, <2>1, <3>1 DEF Aged, Handshake
    <3>3. Stream(n, hs[n], hs[Peer(n)])
      BY <1>5 DEF XInv
    <3> QED
      BY <3>2, <3>3, AgedStream
  <2>4. Stage(hs'["Client"], hs'["Server"])
    BY <1>5, <2>1, AgedStage DEF XInv, Node
  <2> QED
    BY <1>3, <2>2, <2>3, <2>4 DEF XInv
<1> QED
  BY <1>4, <1>5

LEMMA NewIs ==
    ASSUME config \in Configs, NEW n \in Node
    PROVE  LET h == New(n, config[n])
           IN  /\ Own(h) /\ Posted(h) /\ h.phase = "Cmi" /\ h.peer_pin_state = "Unknown"
               /\ ~h.local_ready /\ h.proposed = <<>>
               /\ Len(h.outbox) = 1 /\ h.outbox[1].msg = Cmi
<1> DEFINE c == config[n]
           t == [NoTimers EXCEPT !["cmi"] = CmiTimeout]
           h == [phase |-> "Cmi", trust |-> c.trust,
                 local_ready |-> FALSE, remote_ready |-> FALSE,
                 peer_waiting |-> None, peer_deadline |-> None,
                 proposed |-> <<>>, negotiated |-> <<>>,
                 key_material_resent |-> FALSE,
                 local_pin_state |-> c.pin, peer_pin_state |-> "Unknown",
                 peer_pin |-> c.peer_pin, pin_attempts |-> 0,
                 timers |-> t,
                 outbox |-> <<>>, reason |-> "None"]
           k == Send(h, Cmi)
<1>1. /\ t \in Timers /\ t["send_prolongation"] = None /\ t["pin_penalty"] = None
  BY NoTimersType, Constants DEF Timers, Time, NoTimers, None
<1>2. t = [NoTimers EXCEPT !.cmi = CmiTimeout]
  OBVIOUS
<1>3. New(n, c) = k
  BY <1>2 DEF New
<1> HIDE DEF t
<1>4. h \in Handshake
  BY <1>1, ConfigType DEF Handshake, Phases, Time, PinStates
<1>5. /\ h.phase = "Cmi" /\ h.outbox = <<>> /\ ~h.local_ready /\ h.proposed = <<>>
      /\ h.peer_pin_state = "Unknown" /\ h.timers = t /\ h.reason = "None"
  OBVIOUS
<1> HIDE DEF h
<1>6. Core(h, k) /\ k.outbox = Append(h.outbox, [msg |-> Cmi, age |-> 0]) /\ k.timers = t
  BY <1>4, <1>5, SendType, OtherMessages DEF Message
<1>7. k.reason = "None"
  BY <1>4, <1>5 DEF Send, Handshake
<1> HIDE DEF k
<1>8. Own(k)
  BY <1>1, <1>5, <1>6, <1>7 DEF Own, TimersOK, Core, Open, Ended
<1>9. Len(k.outbox) = 1 /\ k.outbox[1].msg = Cmi
  BY <1>5, <1>6
<1>10. Sent(k, Cmi)
  BY DEF Sent, Cmi, IsReady, Late
<1>11. \A i, j \in 1 .. 1 : i = 1 /\ ~(i < j)
  OBVIOUS
<1>12. Posted(k)
  BY <1>9, <1>10, <1>11 DEF Posted
<1> QED
  BY <1>3, <1>5, <1>6, <1>8, <1>9, <1>12 DEF Core

LEMMA InitXInv == Init => XInv
<1> SUFFICES ASSUME Init PROVE XInv
  OBVIOUS
<1>1. config \in Configs /\ \A n \in Node : hs[n] = New(n, config[n])
  BY DEF Init
<1>2. \A n \in Node : /\ Own(hs[n]) /\ Posted(hs[n]) /\ hs[n].phase = "Cmi"
                      /\ hs[n].peer_pin_state = "Unknown" /\ ~hs[n].local_ready /\ hs[n].proposed = <<>>
                      /\ Len(hs[n].outbox) = 1 /\ hs[n].outbox[1].msg = Cmi
  BY <1>1, NewIs
<1>3. \A i \in 1 .. 1 : i = 1
  OBVIOUS
<1>4. Cmi.kind = "Cmi"
  BY DEF Cmi
<1>5. ASSUME NEW n \in Node PROVE Stream(n, hs[n], hs[Peer(n)])
  <2>1. Peer(n) \in Node
    BY PeerType
  <2> QED
    BY <1>2, <1>3, <1>4, <2>1 DEF Stream, Open
<1>6. \A n \in Node : NoProtocol(hs[n].outbox) /\ NoLate(hs[n].outbox)
  BY <1>2, <1>3, <1>4 DEF NoProtocol, NoLate, Late
<1>7. Unannounced(hs["Client"], hs["Server"])
  BY <1>2, <1>6 DEF Unannounced, In, Early, Node
<1> QED
  BY <1>2, <1>5, <1>7 DEF XInv, Stage

LEMMA NextXInv == IInv /\ XInv /\ IInv' /\ [Next]_vars => XInv'
<1> SUFFICES ASSUME IInv, XInv, IInv', [Next]_vars PROVE XInv'
  OBVIOUS
<1>1. CASE \E n \in Node : Receive(n)
  BY <1>1, ReceiveOrders
<1>2. CASE \E n \in Node :
             \/ Timeout(n) \/ EnterPinByHand(n) \/ CloseConnection(n) \/ AnnounceKeyMaterial(n)
             \/ RequestKeyMaterial(n) \/ RequestAccessMethods(n) \/ SendData(n) \/ Hangup(n) \/ Decide(n)
  BY <1>2, DriveOrders
<1>3. CASE Lose
  BY <1>3 DEF Lose, XInv
<1>4. CASE Tick
  BY <1>4, TickOrders
<1>5. CASE UNCHANGED vars
  BY <1>5 DEF vars, XInv
<1> QED
  BY <1>1, <1>2, <1>3, <1>4, <1>5 DEF Next

LEMMA XInvExpects == XInv => MessagesAreExpected
BY DEF XInv, Own, MessagesAreExpected

\* Two nodes running this code never end a handshake over a message the other
\* had no business sending, however their steps, their timers, their users and
\* the delays of the stream interleave; the exception is data at a node that
\* still demands a PIN (the UnexpectedMessage aborts of handshake.rs).
THEOREM MessagesAlwaysExpected == Spec => []MessagesAreExpected
<1>1. Spec => [](IInv /\ XInv)
  <2>1. Init => IInv /\ XInv
    BY InitIInv, InitXInv
  <2>2. IInv /\ XInv /\ [Next]_vars => (IInv /\ XInv)'
    BY NextIInv, NextXInv
  <2> QED
    BY <2>1, <2>2, PTL DEF Spec
<1> QED
  BY <1>1, XInvExpects, PTL
=============================================================================
