----------------------- MODULE MC_ControllableSystem -----------------------
(* One time unit is 40 s, rounded so that the strict and the non-strict     *)
(* bounds fall on different ticks: the write window is 2, the timers 3.     *)
EXTENDS ControllableSystem

MCRange == 4 .. 5
MCWrites ==
    { [watts |-> 2, is_active |-> TRUE, duration |-> None],
      [watts |-> 2, is_active |-> TRUE, duration |-> 2],
      [watts |-> 2, is_active |-> TRUE, duration |-> 0],
      [watts |-> 2, is_active |-> FALSE, duration |-> None],
      [watts |-> -1, is_active |-> TRUE, duration |-> None],
      [watts |-> NotFinite, is_active |-> TRUE, duration |-> None] }
MCFailsafeWrites == {-1, 2, NotFinite}
MCDurationWrites == {3, 5}
=============================================================================
