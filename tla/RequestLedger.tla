---------------------------- MODULE RequestLedger ----------------------------
(***************************************************************************)
(* What a SPINE engine promises about the requests it sends (the events of *)
(* src/src/spine/engine.rs): a request goes by the name the caller was     *)
(* handed, a name is used once, and a request that has ended (answered,    *)
(* timed out, or forgotten with its peer) has ended in one way and for     *)
(* good.                                                                   *)
(***************************************************************************)
CONSTANT RequestNames

VARIABLES open, answered, timedOut, forgotten

ledger == <<open, answered, timedOut, forgotten>>

Init == open = {} /\ answered = {} /\ timedOut = {} /\ forgotten = {}

Used == open \cup answered \cup timedOut \cup forgotten

\* One step of the engine may issue requests, under names nobody has seen, and
\* end several, each in one way.
Next ==
    LET A == answered' \ answered
        T == timedOut' \ timedOut
        F == forgotten' \ forgotten
    IN  /\ open' \ open \subseteq RequestNames \ Used
        /\ open \ open' = A \cup T \cup F
        /\ A \cap T = {} /\ A \cap F = {} /\ T \cap F = {}
        /\ answered \subseteq answered'
        /\ timedOut \subseteq timedOut'
        /\ forgotten \subseteq forgotten'

Spec == Init /\ [][Next]_ledger
=============================================================================
