-------------------------- MODULE MC_ShipHandshake --------------------------
(* Instances of ShipHandshake for TLC: who the two nodes are.              *)
EXTENDS ShipHandshake

\* Users who decide on a slow connection, or applications on a fast one.
Deciding == [latency |-> 1, decisions |-> 2, closes |-> {}, queue |-> 0]
Working == [latency |-> 0, decisions |-> 0, closes |-> {"DataExchange"}, queue |-> 2]

Plain == [trust |-> Pending, hello_init |-> 6, max_version |-> 101,
          formats |-> <<"JSON-UTF8">>, pin |-> "None", peer_pin |-> "none",
          key_material |-> FALSE, around |-> Deciding]

Pair(c, s) == [n \in Node |-> IF n = "Client" THEN c ELSE s]

\* One user has approved beforehand and the other is still to be asked, or
\* both are; one node is more patient than the other; one trust is too low.
HelloConfigs ==
    {Pair([Plain EXCEPT !.trust = 8], [Plain EXCEPT !.hello_init = 7]),
     Pair(Plain, [Plain EXCEPT !.trust = 8]),
     Pair(Plain, [Plain EXCEPT !.around.decisions = 1]),
     Pair([Plain EXCEPT !.trust = 8], [Plain EXCEPT !.trust = 4])}
HelloDecisions == {Rejected, 8}

\* Trusted nodes that differ in what they speak and in their PINs.
Trusting == [Plain EXCEPT !.trust = 32, !.hello_init = 3,
                            !.around = Working]
Speakers ==
    {Pair([Trusting EXCEPT !.max_version = v, !.formats = f],
          [Trusting EXCEPT !.max_version = 101,
                           !.formats = <<"JSON-UTF8", "JSON-UTF16">>]) :
        v \in {9, 100, 200},
        f \in {<<"JSON-UTF16", "JSON-UTF8">>, <<"JSON-UTF16">>, <<"CBOR">>}}
PinPair(t, p, q) ==
    Pair([Trusting EXCEPT !.trust = t, !.peer_pin = p], [Trusting EXCEPT !.pin = q])
PinPairs ==
    {PinPair(t, p, "Required") : t \in {8, 32}, p \in {"none", "right", "wrong"}}
    \cup {PinPair(8, p, "Optional") : p \in {"right", "wrong"}}
OpenConfigs == Speakers \cup PinPairs
    \cup {Pair([Trusting EXCEPT !.key_material = TRUE],
               [Trusting EXCEPT !.key_material = TRUE])}

AllConfigs == HelloConfigs \cup OpenConfigs
=============================================================================
