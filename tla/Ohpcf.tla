-------------------------------- MODULE Ohpcf --------------------------------
(* Optimisation of self-consumption by a heat pump's compressor (ohpcf.rs): *)
(* the compressor offers an optional power consumption process, an energy   *)
(* manager follows the offer, schedules it and steers it. They are joined   *)
(* by a stream that delivers in order, and that may break.                  *)
EXTENDS Integers, Sequences

CONSTANTS
    SEQUENCE_ID,   \* the number of the compressor's sequence
    Interrupts,    \* what compressors allow: sets of "stop" and "pause"
    StartTimes,    \* the times a manager schedules for, in milliseconds
    MaxCommands,   \* bound: commands a manager sends
    MaxChanges     \* bound: changes the compressor makes by itself

NoTime == -1
Ended == {"Completed", "Invalid"}
Absent == [state |-> "Absent", start |-> NoTime, allows |-> {}, active_slot |-> FALSE]
Unread == [state |-> "Unread", start |-> NoTime, allows |-> {}, active_slot |-> FALSE]

VARIABLES
    flexibility,   \* Flexibility: the compressor's own state
    feature,       \* smartEnergyManagementPsData as the feature stores it
    peer,          \* what the compressor's engine holds of the manager
    offer,         \* the manager's CompressorOffer, as read last
    toCompressor, toManager,
    commands, changes

ovars == <<flexibility, feature, peer, offer, toCompressor, toManager, commands, changes>>

-----------------------------------------------------------------------------
(* The document. format_iso8601_duration keeps the time to the nanosecond,  *)
(* days to seconds, and parse_iso8601_duration takes it back to the same.   *)

Alternative(f) ==
    [ state |-> f.state, start |-> f.start, allows |-> f.allows,
      active_slot |-> f.state \in {"Running", "Paused"} ]

\* No alternatives at all is "there is no process".
Data(f) == IF f.offered THEN Alternative(f) ELSE Absent

(* A reader takes what is stated; a sequence without a state is inactive,   *)
(* one without constraints cannot be interrupted.                           *)
Read(doc) == IF doc.state = "Unstated" THEN [doc EXCEPT !.state = "Inactive"] ELSE doc

IsAbsent(doc) == doc.state = "Absent"
IsAvailable(o) == o.state = "Inactive" /\ o.start = NoTime
IsActive(o) == o.state \in {"Scheduled", "Running", "Paused"}
HasEnded(o) == o.state \in Ended

-----------------------------------------------------------------------------
(* What a manager writes: always part of a document, one sequence with a    *)
(* start time or a state.                                                   *)

Activate(start) == [sequence |-> SEQUENCE_ID, state |-> "Unstated", start |-> start]
StateWrite(state) == [sequence |-> SEQUENCE_ID, state |-> state, start |-> NoTime]
StopWrite == StateWrite("Invalid")
PauseWrite == StateWrite("Paused")
ResumeWrite == StateWrite("Running")

(* What a manager may sensibly send for the offer it sees.                  *)
Commands(o) ==
    {Activate(t) : t \in IF IsAvailable(o) \/ o.state = "Scheduled" THEN StartTimes ELSE {}}
    \cup (IF IsActive(o) /\ "stop" \in o.allows THEN {StopWrite} ELSE {})
    \cup (IF o.state = "Running" /\ "pause" \in o.allows THEN {PauseWrite} ELSE {})
    \cup (IF o.state = "Paused" THEN {ResumeWrite} ELSE {})

Ok(f) == [ok |-> TRUE, flexibility |-> f]
Refused(f) == [ok |-> FALSE, flexibility |-> f]

Schedule(f, start) ==
    IF f.state \in {"Inactive", "Scheduled"}
    THEN Ok([f EXCEPT !.start = start, !.state = "Scheduled"])
    ELSE Refused(f)   \* AlreadyEnded, AlreadyStarted

ChangeState(f, wanted) ==
    IF f.state \in Ended THEN Refused(f)
    ELSE IF \/ wanted = "Invalid" /\ "stop" \in f.allows
            \/ wanted = "Paused" /\ "pause" \in f.allows /\ f.state = "Running"
            \/ wanted = "Running" /\ f.state = "Paused"
    THEN Ok([f EXCEPT !.state = wanted, !.start = IF wanted = "Invalid" THEN NoTime ELSE @])
    ELSE Refused(f)

(* A command that carries both is answered on the state.                    *)
Apply(f, write) ==
    IF ~f.offered \/ write.sequence # SEQUENCE_ID THEN Refused(f)
    ELSE IF write.state # "Unstated" THEN ChangeState(f, write.state)
    ELSE IF write.start # NoTime THEN Schedule(f, write.start)
    ELSE Refused(f)

-----------------------------------------------------------------------------
(* The compressor.                                                           *)

Inform(doc) == IF peer.subscribed THEN <<[kind |-> "data", doc |-> doc]>> ELSE <<>>

\* Stores the compressor's own document and tells the subscriber.
Notify(f) ==
    /\ flexibility' = f
    /\ feature' = Data(f)
    /\ toManager' = toManager \o Inform(Data(f))
    /\ changes' = changes + 1
    /\ UNCHANGED <<peer, offer, toCompressor, commands>>

Withdraw ==
    /\ flexibility.offered
    /\ Notify([flexibility EXCEPT !.offered = FALSE, !.state = "Inactive", !.start = NoTime])
OfferAgain ==
    /\ ~flexibility.offered \/ flexibility.state \in Ended
    /\ Notify([flexibility EXCEPT !.offered = TRUE, !.state = "Inactive", !.start = NoTime])
Start ==
    /\ flexibility.state = "Scheduled"
    /\ Notify([flexibility EXCEPT !.state = "Running"])
Complete ==
    /\ flexibility.state = "Running"
    /\ Notify([flexibility EXCEPT !.state = "Completed", !.start = NoTime])
Abort ==
    /\ flexibility.state \in {"Scheduled", "Running", "Paused"}
    /\ Notify([flexibility EXCEPT !.state = "Invalid", !.start = NoTime])

OwnChange == changes < MaxChanges /\ (Withdraw \/ OfferAgain \/ Start \/ Complete \/ Abort)

Hears(kind) == toCompressor # <<>> /\ Head(toCompressor).kind = kind

TakeBinding ==
    /\ Hears("bind")
    /\ peer' = [peer EXCEPT !.bound = TRUE]
    /\ toCompressor' = Tail(toCompressor)
    /\ UNCHANGED <<flexibility, feature, offer, toManager, commands, changes>>
TakeSubscription ==
    /\ Hears("subscribe")
    /\ peer' = [peer EXCEPT !.subscribed = TRUE]
    /\ toCompressor' = Tail(toCompressor)
    /\ UNCHANGED <<flexibility, feature, offer, toManager, commands, changes>>
AnswerRead ==
    /\ Hears("read")
    /\ toManager' = Append(toManager, [kind |-> "data", doc |-> feature])
    /\ toCompressor' = Tail(toCompressor)
    /\ UNCHANGED <<flexibility, feature, peer, offer, commands, changes>>

\* accept_write_with: the compressor's document, not the peer's fragment.
Stored(f, write) == Data(f)

TakeWrite ==
    LET write == Head(toCompressor).write
        decision == Apply(flexibility, write)
        accepted == peer.bound /\ decision.ok
    IN  /\ Hears("write")
        /\ flexibility' = IF accepted THEN decision.flexibility ELSE flexibility
        /\ feature' = IF accepted THEN Stored(flexibility', write) ELSE feature
        /\ toManager' = toManager \o (IF accepted THEN Inform(feature') ELSE <<>>)
        /\ toCompressor' = Tail(toCompressor)
        /\ UNCHANGED <<peer, offer, commands, changes>>

-----------------------------------------------------------------------------
(* The manager.                                                              *)

Requests(kinds) == [i \in DOMAIN kinds |-> [kind |-> kinds[i]]]

\* Mutant: the offer is read before there is a subscription.
FollowReadFirst == Requests(<<"read", "bind", "subscribe">>)

Follow == Requests(<<"bind", "subscribe", "read">>)

\* A reconnection: neither binding nor subscription survived it.
Reconnect ==
    /\ changes < MaxChanges
    /\ changes' = changes + 1
    /\ peer' = [bound |-> FALSE, subscribed |-> FALSE]
    /\ toCompressor' = Follow
    /\ toManager' = <<>>
    /\ UNCHANGED <<flexibility, feature, offer, commands>>

HearOffer ==
    /\ toManager # <<>>
    /\ offer' = Read(Head(toManager).doc)
    /\ toManager' = Tail(toManager)
    /\ UNCHANGED <<flexibility, feature, peer, toCompressor, commands, changes>>

Command ==
    /\ commands < MaxCommands
    /\ \E write \in Commands(offer) :
         toCompressor' = Append(toCompressor, [kind |-> "write", write |-> write])
    /\ commands' = commands + 1
    /\ UNCHANGED <<flexibility, feature, peer, offer, toManager, changes>>

-----------------------------------------------------------------------------
OInit ==
    /\ \E allows \in Interrupts :
         flexibility = [offered |-> TRUE, state |-> "Inactive", start |-> NoTime, allows |-> allows]
    /\ feature = Data(flexibility)
    /\ peer = [bound |-> FALSE, subscribed |-> FALSE]
    /\ offer = Unread
    /\ toCompressor = Follow /\ toManager = <<>>
    /\ commands = 0 /\ changes = 0

ONext ==
    \/ OwnChange \/ TakeBinding \/ TakeSubscription \/ AnswerRead \/ TakeWrite
    \/ Reconnect \/ HearOffer \/ Command

-----------------------------------------------------------------------------
(* Once nothing is on its way the manager sees the offer as it is: the      *)
(* feature serves the compressor's own state, whoever changed it last, and  *)
(* a change between following and reading is not lost.                      *)
(* (follow: bind, subscribe, read; accept_write_with; notify)               *)
OfferIsSeen ==
    toCompressor = <<>> /\ toManager = <<>> =>
      /\ offer = Data(flexibility)
      /\ IsAbsent(offer) <=> ~flexibility.offered

(* A process that ended is over until the compressor offers one again, and  *)
(* one that started keeps its time: a manager's command that crossed the    *)
(* end, or the start, changes nothing. (change_state, schedule)             *)
CommandComesTooLate ==
    LET f == flexibility IN
    /\ f.offered /\ f.state \in Ended =>
         flexibility' = f \/ (flexibility'.state = "Inactive" /\ changes' > changes)
    /\ f.state \in {"Running", "Paused"} /\ flexibility'.start # f.start =>
         flexibility'.state \in Ended \/ changes' > changes
=============================================================================
