--------------------------- MODULE MCAsduPacking ----------------------------
(***************************************************************************)
(* Configurations for TLC: one or two types with points; runs of one, two, *)
(* three and more addresses, gaps, falling addresses, and runs that fill   *)
(* an ASDU and more.                                                       *)
(***************************************************************************)
EXTENDS AsduPacking

Run(from, to) == [k \in 1 .. to - from + 1 |-> from + k - 1]
Lists == {<<1>>, <<1, 2>>, <<1, 2, 3>>, <<1, 2, 3, 5, 6, 9>>, <<9, 8, 7>>,
          Run(1, 30), Run(1, 80) \o <<90>>, Run(5, 260), [k \in 1 .. 70 |-> 2 * k]}
Nothing == [t \in DataTypes |-> <<>>]
MCStations ==
  {[Nothing EXCEPT ![t] = l] : t \in DataTypes, l \in Lists}
  \cup {[Nothing EXCEPT ![t] = <<3, 4, 5, 6>>, ![u] = <<1, 3>>] : t, u \in DataTypes}
=============================================================================
