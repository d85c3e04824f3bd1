---------------------------- MODULE FunctionData ----------------------------
(***************************************************************************)
(* The data of one list function: how a server feature stores what a peer  *)
(* writes, in whole or in part (model/rfe.rs, spine/device.rs,             *)
(* codec/macros.rs), how the application decides over it, and the copy a   *)
(* subscriber keeps (Engine::resolve_remote).                              *)
(*                                                                         *)
(* An entry is a function of its fields; 0 stands for an absent element.   *)
(* "id" is its identifier, "a" and "b" are two further elements, such as a *)
(* limit's value and its endTime.  A filter's selectors and elements are   *)
(* optional: {} for none.  Everything a peer sends travels encoded, in the *)
(* order it was sent.                                                      *)
(***************************************************************************)
EXTENDS Naturals, Sequences, SequencesExt

CONSTANTS
    Commands,           \* what the client may write
    Reads,              \* the filters of its partial reads
    Contents,           \* what the application publishes by itself
    MAX_LIST_ENTRIES,   \* what a list may hold
    MaxOperations       \* bound: operations in one behaviour

VARIABLES
    deferring,   \* the feature's writes wait for the application
    stored,      \* the function's data: [some, list]
    deferred,    \* writes awaiting a decision
    subscribed,  \* the client has a subscription
    toClient,    \* datagrams on their way to it
    copy,        \* the client's copy: [some, list]
    synced,      \* history: a whole function was sent since it subscribed
    torn,        \* history: a refused write changed the data unannounced
    operations   \* operations so far, to bound the behaviour

fvars == <<deferring, stored, deferred, subscribed, toClient, copy, synced,
           torn, operations>>

Fields == {"id", "a", "b"}
FieldOrder == <<"id", "a", "b">>
NoEntry == [f \in Fields |-> 0]

-----------------------------------------------------------------------------
(* Encoding: a sequence of single elements, present ones only.             *)

Encode(entry) ==
    LET present == SelectSeq(FieldOrder, LAMBDA f : entry[f] # 0)
    IN  [i \in 1..Len(present) |-> <<present[i], entry[present[i]]>>]

\* An element the struct does not know is skipped; a repeated one wins.
Decode(wire) ==
    FoldLeft(LAMBDA e, el : IF el[1] \in Fields THEN [e EXCEPT ![el[1]] = el[2]]
                                                ELSE e,
             NoEntry, wire)

EncodeList(list) == [i \in 1..Len(list) |-> Encode(list[i])]
DecodeList(wire) == [i \in 1..Len(wire) |-> Decode(wire[i])]

-----------------------------------------------------------------------------
(* Lists of identified entries.                                            *)

HasIdentity(e) == e["id"] # 0
SameEntry(x, y) == HasIdentity(x) /\ HasIdentity(y) /\ x["id"] = y["id"]
RestoreIdentity(e, from) == [e EXCEPT !["id"] = from["id"]]
EntriesIdentified(list) == \A i \in 1..Len(list) : HasIdentity(list[i])

Merge(e, update) == [f \in Fields |-> IF update[f] # 0 THEN update[f] ELSE e[f]]

\* The first entry with the identity is updated; an unknown one is appended.
MergeIn(list, item) ==
    LET at == {i \in 1..Len(list) : SameEntry(list[i], item)}
        first == CHOOSE i \in at : \A j \in at : i <= j
    IN  IF at = {} THEN Append(list, item)
                   ELSE [list EXCEPT ![first] = Merge(@, item)]

ApplyPartial(list, update) == FoldLeft(MergeIn, list, update)
Apply(list, update, partial) == IF partial THEN ApplyPartial(list, update) ELSE update

Named(e, named) == \E i \in 1..Len(named) : SameEntry(named[i], e)
Without(list, Addressed(_)) == SelectSeq(list, LAMBDA e : ~Addressed(e))
DeleteEntries(list, update) == Without(list, LAMBDA e : Named(e, update))

\* Elements never take an entry's identity away.
ClearFrom(e, elements) ==
    RestoreIdentity([f \in Fields |-> IF f \in elements THEN 0 ELSE e[f]], e)
RetainIn(e, elements) ==
    RestoreIdentity([f \in Fields |-> IF f \in elements THEN e[f] ELSE 0], e)
ClearAddressed(list, Addressed(_), elements) ==
    [i \in 1..Len(list) |-> IF Addressed(list[i]) THEN ClearFrom(list[i], elements)
                                                  ELSE list[i]]

\* A selector compares what it names; a range of timestamps cannot be compared,
\* and one of another function does not apply.
Matches(sel, e) == sel.id = 0 \/ e["id"] = sel.id
Unservable(sels) == \E s \in sels : s.range \/ s.of # "this"

-----------------------------------------------------------------------------
(* One delete, and one restricted read: [ok, list].                        *)

Ok(list) == [ok |-> TRUE, list |-> list]
Refused(list) == [ok |-> FALSE, list |-> list]

DeleteRestricted(list, update, sels, els) ==
    LET selected(e) == \E s \in sels : Matches(s, e)
        addressed(e) == IF sels # {} THEN selected(e)
                                     ELSE update = <<>> \/ Named(e, update)
    IN  IF sels = {} /\ els = {} THEN Ok(DeleteEntries(list, update))
        ELSE IF Unservable(sels) THEN Refused(list)
        ELSE IF els = {} THEN Ok(Without(list, selected))
        ELSE Ok(ClearAddressed(list, addressed, UNION els))

RestrictList(list, sels, els) ==
    LET kept == SelectSeq(list, LAMBDA e : \A s \in sels : Matches(s, e))
    IN  IF Unservable(sels) THEN Refused(<<>>)
        ELSE Ok(IF els = {} THEN kept
                ELSE [i \in 1..Len(kept) |-> RetainIn(kept[i], UNION els)])

\* Several selectors address the union of what each addresses, each entry once.
RestrictForRead(list, filter) ==
    LET part(s) == RestrictList(list, {s}, filter.els)
        parts == [i \in 1..Len(filter.sels) |-> part(filter.sels[i])]
    IN  IF filter.sels = <<>> THEN RestrictList(list, {}, filter.els)
        ELSE IF \E i \in 1..Len(parts) : ~parts[i].ok THEN Refused(<<>>)
        ELSE Ok(FoldLeft(LAMBDA acc, p : ApplyPartial(acc, p.list),
                         parts[1].list, Tail(parts)))

-----------------------------------------------------------------------------
(* WriteOps: the deletes in the order of the filters, then the update.     *)

IsPartial(cmd) == \E i \in 1..Len(cmd.filters) : cmd.filters[i].control = "partial"
DeleteFilters(cmd) == SelectSeq(cmd.filters, LAMBDA f : f.control = "delete")
Stores(cmd) == DeleteFilters(cmd) = <<>> \/ IsPartial(cmd)

\* One step per selector of a delete filter, or one for a filter without any.
DeleteSteps(cmd) ==
    FlattenSeq([i \in 1..Len(DeleteFilters(cmd)) |->
        LET f == DeleteFilters(cmd)[i]
        IN  IF f.sels = <<>> THEN << [sels |-> {}, els |-> f.els] >>
            ELSE [j \in 1..Len(f.sels) |-> [sels |-> {f.sels[j]}, els |-> f.els]]])

\* The first refusal ends the sequence; what went before it stays done.
RunDeletes(list, cmd) ==
    FoldLeft(LAMBDA acc, s : IF acc.ok THEN DeleteRestricted(acc.list, cmd.data, s.sels, s.els)
                                       ELSE acc,
             Ok(list), DeleteSteps(cmd))

\* WriteOps::resolve, on a detached copy.
ResolveOps(list, cmd) ==
    LET deleted == RunDeletes(list, cmd)
    IN  IF deleted.ok /\ Stores(cmd) THEN Ok(Apply(deleted.list, cmd.data, IsPartial(cmd)))
                                     ELSE deleted

\* A slip: the deletes of the command are not shown.
ResolveWriteUpdateOnly(data, cmd) ==
    IF Stores(cmd) THEN Apply(data.list, cmd.data, IsPartial(cmd)) ELSE data.list

\* What the application is shown: the data after the write, or the fragment
\* when the write could not be carried out.
ResolveWrite(data, cmd) ==
    LET resolved == ResolveOps(data.list, cmd)
    IN  IF resolved.ok THEN resolved.list ELSE cmd.data

\* WriteOps::apply_to on the feature: [ok, data].
ApplyTo(data, cmd) ==
    LET deleted == IF data.some THEN RunDeletes(data.list, cmd) ELSE Ok(<<>>)
        kept == [data EXCEPT !.list = deleted.list]
        wouldHold == Len(cmd.data) + IF IsPartial(cmd) THEN Len(kept.list) ELSE 0
        result == IF kept.some THEN Apply(kept.list, cmd.data, IsPartial(cmd)) ELSE cmd.data
    IN  IF ~deleted.ok THEN [ok |-> FALSE, data |-> kept]
        ELSE IF ~Stores(cmd) THEN [ok |-> TRUE, data |-> kept]
        ELSE IF wouldHold > MAX_LIST_ENTRIES THEN [ok |-> FALSE, data |-> kept]
        ELSE [ok |-> TRUE, data |-> [some |-> TRUE, list |-> result]]

\* check_write: the function offers writes and partial ones; entries are named.
CheckWrite(cmd) == EntriesIdentified(cmd.data)

-----------------------------------------------------------------------------
(* The server.                                                             *)

NoData == [some |-> FALSE, list |-> <<>>]
Whole(list) == [partial |-> FALSE, list |-> EncodeList(list)]
Part(list) == [partial |-> TRUE, list |-> EncodeList(list)]

FInit ==
    /\ deferring \in BOOLEAN
    /\ stored = NoData
    /\ deferred = <<>>
    /\ subscribed = FALSE
    /\ toClient = <<>>
    /\ copy = NoData
    /\ synced = FALSE
    /\ torn = FALSE
    /\ operations = 0

Count == operations < MaxOperations /\ operations' = operations + 1

\* A slip: the function is sent as a partial update.
NotifyPart(data) ==
    IF subscribed /\ data.some
    THEN /\ toClient' = Append(toClient, Part(data.list))
         /\ synced' = TRUE
         /\ torn' = FALSE
    ELSE UNCHANGED <<toClient, synced, torn>>

\* A subscriber is sent the whole function.
Notify(data) ==
    IF subscribed /\ data.some
    THEN /\ toClient' = Append(toClient, Whole(data.list))
         /\ synced' = TRUE
         /\ torn' = FALSE
    ELSE UNCHANGED <<toClient, synced, torn>>

\* The outcome of a write on the data: stored and told, or refused as far as it got.
Finish(cmd) ==
    LET outcome == ApplyTo(stored, cmd)
    IN  /\ stored' = outcome.data
        /\ IF outcome.ok THEN Notify(stored')
           ELSE /\ torn' = (torn \/ stored' # stored)
                /\ UNCHANGED <<toClient, synced>>

\* handle_write on a bound client's command, decoded from the wire.
Write(cmd) ==
    /\ Count
    /\ CheckWrite(cmd)
    /\ LET arrived == [cmd EXCEPT !.data = DecodeList(EncodeList(cmd.data))]
       IN  IF deferring
           THEN /\ deferred' = Append(deferred,
                      [cmd |-> arrived, resolved |-> ResolveWrite(stored, arrived),
                       base |-> stored])
                /\ UNCHANGED <<stored, toClient, synced, torn>>
           ELSE Finish(arrived) /\ UNCHANGED deferred
    /\ UNCHANGED <<deferring, subscribed, copy>>

\* accept_write of any write still waiting.
AcceptWrite(i) ==
    /\ i \in 1..Len(deferred)
    /\ Finish(deferred[i].cmd)
    /\ deferred' = RemoveAt(deferred, i)
    /\ UNCHANGED <<deferring, subscribed, copy, operations>>

\* accept_write_with: the application stores data of its own instead.
AcceptWriteWith(i, list) ==
    /\ i \in 1..Len(deferred)
    /\ stored' = [some |-> TRUE, list |-> list]
    /\ Notify(stored')
    /\ deferred' = RemoveAt(deferred, i)
    /\ UNCHANGED <<deferring, subscribed, copy, operations>>

RejectWrite(i) ==
    /\ i \in 1..Len(deferred)
    /\ deferred' = RemoveAt(deferred, i)
    /\ UNCHANGED <<deferring, stored, subscribed, toClient, copy, synced, torn, operations>>

\* The application publishes: set_data, and a notification when it changed.
SetData(list) ==
    LET data == [some |-> TRUE, list |-> list]
    IN  /\ Count
        /\ stored' = data
        /\ IF data = stored THEN UNCHANGED <<toClient, synced, torn>> ELSE Notify(data)
        /\ UNCHANGED <<deferring, deferred, subscribed, copy>>

Subscribe ==
    /\ ~subscribed /\ Count
    /\ subscribed' = TRUE
    /\ UNCHANGED <<deferring, stored, deferred, toClient, copy, synced, torn>>

\* handle_read: the stored value, or the function's empty one.
Read ==
    /\ Count
    /\ toClient' = Append(toClient, Whole(stored.list))
    /\ synced' = subscribed
    /\ torn' = (torn /\ ~subscribed)
    /\ UNCHANGED <<deferring, stored, deferred, subscribed, copy>>

ReadPartially(filter) ==
    LET reply == RestrictForRead(stored.list, filter)
    IN  /\ Count
        /\ toClient' = IF reply.ok THEN Append(toClient, Part(reply.list)) ELSE toClient
        /\ UNCHANGED <<deferring, stored, deferred, subscribed, copy, synced, torn>>

-----------------------------------------------------------------------------
(* The client: resolve_remote takes the old copy out and puts the result   *)
(* back, unless there is too much of it.                                   *)

Absorb(message) ==
    LET update == DecodeList(message.list)
        resolved == Apply(copy.list, update, message.partial)
    IN  IF Len(resolved) > MAX_LIST_ENTRIES THEN NoData
        ELSE [some |-> TRUE, list |-> resolved]

Receive ==
    /\ toClient # <<>>
    /\ copy' = Absorb(Head(toClient))
    /\ toClient' = Tail(toClient)
    /\ UNCHANGED <<deferring, stored, deferred, subscribed, synced, torn, operations>>

\* The connection ends: both engines remove the peer.
Disconnect ==
    /\ Count
    /\ subscribed' = FALSE
    /\ deferred' = <<>>
    /\ toClient' = <<>>
    /\ copy' = NoData
    /\ synced' = FALSE
    /\ torn' = FALSE
    /\ UNCHANGED <<deferring, stored>>

FNext ==
    \/ \E cmd \in Commands : Write(cmd)
    \/ \E i \in 1..Len(deferred) : AcceptWrite(i)
    \/ \E i \in 1..Len(deferred), list \in Contents : AcceptWriteWith(i, list)
    \/ \E i \in 1..Len(deferred) : RejectWrite(i)
    \/ \E list \in Contents : SetData(list)
    \/ Subscribe
    \/ Read
    \/ \E filter \in Reads : ReadPartially(filter)
    \/ Receive
    \/ Disconnect

-----------------------------------------------------------------------------
(* Properties                                                              *)

\* A subscriber that has been sent the function once holds, whenever nothing is
\* under way to it, exactly what the server stores, whatever mixture of whole
\* and partial writes, deletes and partial reads went before.  The exception is
\* a write that was refused half-way: Engine::finish_write and handle_write
\* notify only on success, and apply_to does not take back the deletes that
\* preceded the refusal.
CopyIsTrue ==
    subscribed /\ synced /\ toClient = <<>> /\ ~torn => copy.list = stored.list

\* What the application was shown is what its yes stores, when nothing else
\* changed the data in between: WriteOps::resolve and WriteOps::apply_to agree
\* on every command that is not refused.
AcceptStoresShown ==
    \A i \in 1..Len(deferred) :
        AcceptWrite(i) /\ deferred[i].base = stored /\ ApplyTo(stored, deferred[i].cmd).ok
            => stored'.list = deferred[i].resolved

\* What a partial write does not name keeps its place: no write that is accepted
\* takes an entry away unless a delete of the same command addressed it or the
\* write replaces the whole function.
WriteSparesUnnamed ==
    \A cmd \in Commands :
        ~deferring /\ Write(cmd) /\ IsPartial(cmd) /\ DeleteFilters(cmd) = <<>>
            => \A i \in 1..Len(stored.list) :
                  ~Named(stored.list[i], cmd.data) => stored'.list[i] = stored.list[i]
=============================================================================
