------------------------------- MODULE MC_Hub -------------------------------
(* Instances of Hub for TLC: how many connections it holds, whether links   *)
(* fall silent, who is out there, whose SKI is bigger, who is trusted, and  *)
(* what the application calls.                                              *)
EXTENDS Hub

World(max, alive, peers, bigger, trusted, calls) ==
    [max |-> max, keepalive |-> alive, peers |-> peers, bigger |-> bigger,
     trusted |-> trusted, calls |-> calls]

MCWorlds ==
    { World(2, Off, {"p"}, {"p"}, {"p"}, {"keep"}),     \* redialling a known peer
      World(3, 1, {"p"}, {"p"}, {"p"}, {"cancel"}),     \* the peer arbitrates
      World(3, Off, {"p"}, {}, {"p"}, {"dial"}),        \* this node arbitrates
      World(2, Off, {"p"}, {}, {"p"}, {"dial", "close"}),
      World(3, Off, {"p", "q"}, {}, {}, {"refuse"}),    \* pairing table of one
      World(2, Off, {"p", "self"}, {}, {"self"}, {"dial"}), \* meeting oneself
      World(2, Off, {"self"}, {}, {"self"}, {"dial", "browse"}),
      World(1, Off, {"p"}, {}, {}, {"browse", "approve", "refuse"}) }
=============================================================================
